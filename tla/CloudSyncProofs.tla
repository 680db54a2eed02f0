---------------------------- MODULE CloudSyncProofs ----------------------------
(***************************************************************************)
(* For every set of studios and writers and every number of edits and      *)
(* failures: a sync never replaces content that is in no checkpoint and    *)
(* never moves a studio's base back, which needs nothing of what a merge   *)
(* computes; and as long as every merge was recorded, a studio submits     *)
(* nobody's edits but its own and shows the last edit of everybody, which  *)
(* rests on the merge of one element, expanded here.                       *)
(***************************************************************************)
EXTENDS CloudSync, TLAPS

\* A sequence, of whatever contents the merges made.
IsSequence(s) == \E S : s \in Seq(S)

\* The parts of the state the argument needs to be well formed, without the contents.
CloudShape ==
  /\ IsSequence(revs) /\ Len(revs) > 0
  /\ sync = [d \in Device |-> sync[d]]
  /\ checkpoints = [d \in Device |-> checkpoints[d]]
  /\ local = [d \in Device |-> local[d]]
  /\ base \in [Device -> 1..Len(revs)]
  /\ edits \in Nat

\* The content a sync started from is in a checkpoint until it is replaced.
SnapshotKept(d) ==
  sync[d].phase \in {"read", "submit", "answered"} => sync[d].snapshot \in checkpoints[d]

\* What a studio was answered is a revision there is, and none before its base.
AnswerCurrent(d) ==
  sync[d].phase \in {"answered", "applied"} => sync[d].rev \in base[d]..Len(revs)

\* An operation was answered with a revision not older than the base it names (its
\* first component), so that to repeat the answer to a studio with this base does no harm.
AnswersFollowBases ==
  \A o \in ops : o.op[1] \in 1..Len(revs) /\ o.rev \in o.op[1]..Len(revs)

CloudInv == /\ CloudShape
            /\ \A d \in Device : SnapshotKept(d) /\ AnswerCurrent(d)
            /\ AnswersFollowBases

--------------------------------------------------------------------------------
\* Studios start from the first revision, with nothing under way.
LEMMA CloudInit == Init => CloudInv
<1> SUFFICES ASSUME Init PROVE CloudInv
  OBVIOUS
<1>1. IsSequence(revs) /\ Len(revs) = 1
  <2>1. revs \in Seq({Blank})
    BY DEF Init
  <2> QED
    BY <2>1 DEF Init, IsSequence
<1>2. CloudShape
  BY <1>1 DEF Init, CloudShape
<1>3. \A d \in Device : SnapshotKept(d) /\ AnswerCurrent(d)
  BY DEF Init, Idle, SnapshotKept, AnswerCurrent
<1> QED
  BY <1>2, <1>3 DEF Init, CloudInv, AnswersFollowBases

\* A revision that is added makes the sequence one longer.
LEMMA AppendRevision ==
  ASSUME NEW s, IsSequence(s), NEW x
  PROVE  IsSequence(Append(s, x)) /\ Len(Append(s, x)) = Len(s) + 1
<1>1. PICK S : s \in Seq(S)
  BY DEF IsSequence
<1>2. s \in Seq(S \cup {x}) /\ x \in S \cup {x}
  BY <1>1
<1>3. Append(s, x) \in Seq(S \cup {x}) /\ Len(Append(s, x)) = Len(s) + 1
  BY <1>2
<1> QED
  BY <1>3 DEF IsSequence

\* The Cloud's answer to a submission: a revision that is no older than the base.
LEMMA SubmitStep == ASSUME CloudInv, NEW d \in Device, AnswerSubmit(d) PROVE CloudInv'
<1> USE DEF CloudInv
<1> DEFINE s == sync[d]
           op == Operation(base[d], s.snapshot, s.writer)
           merged == IF s.writer = "agent"
                       THEN Reconcile(revs[base[d]], Last(revs), s.snapshot)
                       ELSE Reconcile(revs[base[d]], s.snapshot, Last(revs))
<1>1. op[1] = base[d] /\ base[d] \in 1..Len(revs) /\ Len(revs) \in Nat
  BY DEF CloudShape, Operation, IsSequence
<1>2. PICK rev : /\ Answer(d, rev)
                 /\ rev \in base[d]..Len(revs)'
                 /\ IsSequence(revs') /\ Len(revs') \in Nat /\ Len(revs') >= Len(revs)
                 /\ AnswersFollowBases'
  <2>1. CASE \E o \in ops : o.op = op
    <3>1. PICK o \in ops : o.op = op /\ Answer(d, o.rev) /\ UNCHANGED cloud
      BY <2>1 DEF AnswerSubmit
    <3>2. o.rev \in base[d]..Len(revs)
      BY <1>1, <3>1 DEF AnswersFollowBases
    <3>3. revs' = revs /\ ops' = ops
      BY <3>1 DEF cloud
    <3>4. AnswersFollowBases'
      BY <3>3 DEF AnswersFollowBases
    <3>5. IsSequence(revs') /\ Len(revs') = Len(revs)
      BY <3>3 DEF CloudShape
    <3> QED
      BY <1>1, <3>1, <3>2, <3>4, <3>5
  <2>2. CASE ~ \E o \in ops : o.op = op
    <3>1. /\ revs' = IF merged = Last(revs) THEN revs ELSE Append(revs, merged)
          /\ ops' = ops \cup {[op |-> op, rev |-> Advance(merged)]}
          /\ Answer(d, Advance(merged))
      BY <2>2 DEF AnswerSubmit
    <3>2. /\ IsSequence(revs') /\ Len(revs') \in Nat /\ Len(revs') >= Len(revs)
          /\ Advance(merged) = Len(revs')
      <4> HIDE DEF merged
      <4>1. CASE merged = Last(revs)
        BY <1>1, <3>1, <4>1 DEF Advance, CloudShape
      <4>2. CASE merged # Last(revs)
        <5>1. revs' = Append(revs, merged) /\ Advance(merged) = Len(revs) + 1
          BY <3>1, <4>2 DEF Advance
        <5>2. IsSequence(revs)
          BY DEF CloudShape
        <5> QED
          BY <1>1, <5>1, <5>2, AppendRevision
      <4> QED
        BY <4>1, <4>2
    <3>3. AnswersFollowBases'
      BY <1>1, <3>1, <3>2 DEF AnswersFollowBases
    <3> QED
      BY <1>1, <3>1, <3>2, <3>3
  <2> QED
    BY <2>1, <2>2
<1>3. UNCHANGED <<local, base, checkpoints, wrote, counters>>
  BY DEF AnswerSubmit
<1>4. CloudShape'
  <2>1. /\ checkpoints' = [e \in Device |-> checkpoints'[e]]
        /\ local' = [e \in Device |-> local'[e]]
        /\ edits' \in Nat
    BY <1>3 DEF CloudShape, counters
  <2>2. sync' = [e \in Device |-> sync'[e]]
    BY <1>2 DEF CloudShape, Answer
  <2>3. base' \in [Device -> 1..Len(revs')]
    BY <1>1, <1>2, <1>3 DEF CloudShape
  <2> QED
    BY <1>1, <1>2, <2>1, <2>2, <2>3 DEF CloudShape
<1>5. ASSUME NEW e \in Device PROVE SnapshotKept(e)' /\ AnswerCurrent(e)'
  BY <1>1, <1>2, <1>3, <1>5 DEF CloudShape, Answer, SnapshotKept, AnswerCurrent, AnswerSubmit
<1> QED
  BY <1>2, <1>4, <1>5

\* Every other step of a sync, and the edits and failures around it.
LEMMA CloudStep == CloudInv /\ [Next]_vars => CloudInv'
<1> SUFFICES ASSUME CloudInv, [Next]_vars PROVE CloudInv'
  OBVIOUS
<1> USE DEF CloudInv, CloudShape, SnapshotKept, AnswerCurrent, AnswersFollowBases
<1>0. Len(revs) \in Nat
  BY DEF IsSequence
<1>1. ASSUME NEW d \in Device, NEW v \in Value, EditProperty(d, v) PROVE CloudInv'
  <2>1. PICK c : local' = [local EXCEPT ![d] = c]
    BY <1>1 DEF EditProperty
  <2>2. edits' \in Nat /\ UNCHANGED <<revs, ops, base, checkpoints, sync>>
    BY <1>1 DEF EditProperty, cloud
  <2> QED
    BY <1>0, <2>1, <2>2
<1>2. ASSUME NEW d \in Device, NEW line \in Line, AppendLog(d, line) PROVE CloudInv'
  <2>1. PICK c : local' = [local EXCEPT ![d] = c]
    BY <1>2 DEF AppendLog
  <2>2. edits' \in Nat /\ UNCHANGED <<revs, ops, base, checkpoints, sync>>
    BY <1>2 DEF AppendLog, cloud
  <2> QED
    BY <1>0, <2>1, <2>2
<1>3. ASSUME NEW d \in Device, NEW writer \in Writer, BeginSync(d, writer) PROVE CloudInv'
  BY <1>0, <1>3 DEF BeginSync, cloud, counters
<1>4. ASSUME NEW d \in Device, AnswerRead(d) PROVE CloudInv'
  <2>1. UNCHANGED <<revs, ops, local, base, checkpoints, edits>>
    BY <1>4 DEF AnswerRead, cloud, counters
  <2>2. Len(revs) \in base[d]..Len(revs)
    BY <1>0
  <2>3. /\ sync' = [e \in Device |-> sync'[e]]
        /\ sync'[d] = [phase |-> "answered", snapshot |-> sync[d].snapshot, rev |-> Len(revs)]
        /\ \A e \in Device \ {d} : sync'[e] = sync[e]
        /\ sync[d].phase = "read"
    BY <1>4 DEF AnswerRead, Answer
  <2>4. /\ sync'[d].phase = "answered" /\ sync'[d].rev = Len(revs)
        /\ sync'[d].snapshot = sync[d].snapshot
    BY <2>3
  <2>5. CloudShape' /\ AnswersFollowBases'
    BY <2>1, <2>3
  <2>6. ASSUME NEW e \in Device PROVE SnapshotKept(e)' /\ AnswerCurrent(e)'
    BY <2>1, <2>2, <2>3, <2>4
  <2> QED
    BY <2>5, <2>6
<1>5. ASSUME NEW d \in Device, ApplyAnswer(d) PROVE CloudInv'
  BY <1>0, <1>5 DEF ApplyAnswer, CheckpointAgain, cloud, counters
<1>6. ASSUME NEW d \in Device, SaveAssociation(d) PROVE CloudInv'
  <2>1. UNCHANGED <<revs, ops, local, checkpoints, edits>>
    BY <1>6 DEF SaveAssociation, cloud, counters
  <2>2. sync[d].rev \in 1..Len(revs)
    BY <1>0, <1>6 DEF SaveAssociation
  <2>3. /\ sync' = [e \in Device |-> sync'[e]]
        /\ sync'[d].phase = "idle"
        /\ \A e \in Device \ {d} : sync'[e] = sync[e] /\ base'[e] = base[e]
    BY <1>6 DEF SaveAssociation, Idle
  <2>4. base' \in [Device -> 1..Len(revs)]
    BY <1>6, <2>2 DEF SaveAssociation
  <2> QED
    BY <1>0, <2>1, <2>3, <2>4
<1>7. ASSUME NEW d \in Device, FailSync(d) PROVE CloudInv'
  BY <1>0, <1>7 DEF FailSync, Idle, cloud
<1>8. ASSUME NEW d \in Device, FailSave(d) PROVE CloudInv'
  BY <1>0, <1>8 DEF FailSave, Idle, cloud
<1>9. CASE UNCHANGED vars
  BY <1>9 DEF vars
<1> QED
  BY <1>1, <1>2, <1>3, <1>4, <1>5, <1>6, <1>7, <1>8, <1>9, SubmitStep DEF Next, SyncStep

\* CloudInv holds in every reachable state.
THEOREM CloudInvariance == Spec => []CloudInv
BY CloudInit, CloudStep, PTL DEF Spec

\* Content that a sync replaces is in a checkpoint, with what was edited while it waited.
THEOREM ReplacedIsCheckpointed == Spec => ReplacedContentIsCheckpointed
<1>1. CloudInv /\ [Next]_vars
        => \A d \in Device :
             local'[d] # local[d] /\ edits' = edits => local[d] \in checkpoints'[d]
  <2> SUFFICES ASSUME CloudInv, Next, NEW d \in Device, local'[d] # local[d], edits' = edits
               PROVE  local[d] \in checkpoints'[d]
    BY DEF vars
  <2>1. PICK e \in Device : ApplyAnswer(e)
    BY DEF Next, SyncStep, EditProperty, AppendLog, BeginSync, AnswerRead, AnswerSubmit,
           SaveAssociation, FailSync, FailSave, CloudInv, CloudShape, counters
  <2>2. d = e
    BY <2>1 DEF ApplyAnswer, CloudInv, CloudShape
  <2> QED
    BY <2>1, <2>2 DEF ApplyAnswer, CheckpointAgain, CloudInv, CloudShape, SnapshotKept
<1> QED
  BY <1>1, CloudInvariance, PTL DEF Spec, ReplacedContentIsCheckpointed

\* The base a studio records is never older than the one it had, also when the answer to
\* a repeated operation is that of its first time.
THEOREM BaseIsMonotone == Spec => BaseNeverGoesBack
<1>1. CloudInv /\ [Next]_vars => \A d \in Device : base'[d] >= base[d]
  <2> SUFFICES ASSUME CloudInv, [Next]_vars, NEW d \in Device PROVE base'[d] >= base[d]
    OBVIOUS
  <2> USE DEF CloudInv, CloudShape
  <2>1. base[d] \in Nat
    OBVIOUS
  <2>2. ASSUME NEW e \in Device, SaveAssociation(e) PROVE base'[d] >= base[d]
    BY <2>1, <2>2 DEF SaveAssociation, AnswerCurrent
  <2>3. CASE UNCHANGED base
    BY <2>1, <2>3
  <2> QED
    BY <2>2, <2>3 DEF Next, SyncStep, EditProperty, AppendLog, BeginSync, AnswerRead,
         AnswerSubmit, ApplyAnswer, FailSync, FailSave, vars
<1> QED
  BY <1>1, CloudInvariance, PTL DEF Spec, BaseNeverGoesBack

--------------------------------------------------------------------------------
\* Contents are contents.

\* A merged section is made of lines of the sections.
LEMMA MergedSection ==
  ASSUME NEW S, NEW b \in Seq(S), NEW o \in Seq(S), NEW t \in Seq(S)
  PROVE  MergeSection(b, o, t) \in Seq(S)
<1>1. CASE IsPrefix(b, o)
  <2>1. Len(b) \in Nat /\ Len(o) \in Nat /\ Len(b) <= Len(o)
    BY <1>1 DEF IsPrefix
  <2>2. SubSeq(o, Len(b) + 1, Len(o)) \in Seq(S)
    BY <2>1
  <2>3. t \o SubSeq(o, Len(b) + 1, Len(o)) \in Seq(S)
    BY <2>2
  <2> QED
    BY <2>3 DEF MergeSection
<1>2. CASE ~IsPrefix(b, o)
  BY <1>2 DEF MergeSection
<1> QED
  BY <1>1, <1>2

\* What a merge makes of contents is a content.
LEMMA MergedContent ==
  ASSUME NEW b \in Content, NEW ours \in Content, NEW theirs \in Content
  PROVE  Reconcile(b, ours, theirs) \in Content
<1>1. MergeSection(b.log, ours.log, theirs.log) \in Seq(Line)
  BY MergedSection DEF Content
<1>2. [d \in Device |-> IF ours.own[d] = b.own[d] THEN theirs.own[d] ELSE ours.own[d]]
        \in [Device -> Value]
  BY DEF Content
<1> QED
  BY <1>1, <1>2 DEF Reconcile, Content

LEMMA TypesStart == Init => TypeOK
<1> SUFFICES ASSUME Init PROVE TypeOK
  OBVIOUS
<1>1. Blank \in Content
  BY SyncAssumption DEF Blank, Content, Value
<1>2. revs \in Seq(Content) /\ Len(revs) = 1
  BY <1>1 DEF Init
<1>3. Idle \in Sync /\ Idle.phase = "idle"
  BY DEF Idle, Sync
<1>4. 0 \in Value
  BY SyncAssumption DEF Value
<1>5. /\ \A d \in Device : checkpoints[d] \subseteq Content
      /\ \A d \in Device : sync[d].phase = "idle"
      /\ sync \in [Device -> Sync] /\ local \in [Device -> Content]
      /\ wrote \in [Device -> Value]
  BY <1>1, <1>3, <1>4 DEF Init
<1> QED
  BY <1>2, <1>5 DEF Init, TypeOK

\* The types of a sync that moves.
LEMMA SyncMoves ==
  ASSUME TypeOK, NEW d \in Device, NEW next \in Sync, sync' = [sync EXCEPT ![d] = next],
         next.phase \in {"answered", "applied"} => next.rev <= Len(revs),
         UNCHANGED <<revs, ops, wrote>>,
         local' \in [Device -> Content], base' \in [Device -> 1..Len(revs)],
         \A e \in Device : checkpoints'[e] \subseteq Content
  PROVE  TypeOK'
<1>1. /\ sync' \in [Device -> Sync] /\ sync'[d] = next
      /\ \A e \in Device \ {d} : sync'[e] = sync[e]
  BY DEF TypeOK
<1>2. \A e \in Device :
        sync'[e].phase \in {"answered", "applied"} => sync'[e].rev <= Len(revs)
  BY <1>1 DEF TypeOK
<1> QED
  BY <1>1, <1>2 DEF TypeOK

\* Of a sync, by its phase.
LEMMA SyncFields ==
  ASSUME TypeOK, NEW d \in Device
  PROVE  /\ sync[d].phase \in {"read", "submit", "answered"} => sync[d].snapshot \in Content
         /\ sync[d].phase \in {"answered", "applied"} => sync[d].rev \in 1..Len(revs)
         /\ sync[d].phase = "submit" => sync[d].writer \in Writer
         /\ Len(revs) \in Nat \ {0} /\ revs[base[d]] \in Content /\ local[d] \in Content
         /\ base[d] \in 1..Len(revs) /\ Last(revs) \in Content /\ Last(revs) = revs[Len(revs)]
<1>1. sync[d] \in Sync /\ (sync[d].phase \in {"answered", "applied"} => sync[d].rev <= Len(revs))
  BY DEF TypeOK
<1>2. Len(revs) \in Nat \ {0} /\ base[d] \in 1..Len(revs) /\ revs \in Seq(Content)
  BY DEF TypeOK
<1>3. Last(revs) = revs[Len(revs)]
  BY DEF Last
<1> QED
  BY <1>1, <1>2, <1>3 DEF Sync, TypeOK

LEMMA AnswerTyped ==
  ASSUME TypeOK, NEW d \in Device, AnswerSubmit(d)
  PROVE  TypeOK'
<1> DEFINE s == sync[d]
           op == Operation(base[d], s.snapshot, s.writer)
           merged == IF s.writer = "agent"
                       THEN Reconcile(revs[base[d]], Last(revs), s.snapshot)
                       ELSE Reconcile(revs[base[d]], s.snapshot, Last(revs))
<1>1. /\ s.phase = "submit" /\ UNCHANGED <<local, base, checkpoints, wrote>>
      /\ s.snapshot \in Content
  BY SyncFields DEF AnswerSubmit
<1>2. merged \in Content
  BY <1>1, SyncFields, MergedContent
<1>3. PICK rev : /\ Answer(d, rev) /\ rev \in 1..Len(revs)'
                 /\ revs' \in Seq(Content) /\ Len(revs') >= Len(revs) /\ Len(revs') \in Nat
                 /\ \A o \in ops' : o.rev \in 1..Len(revs)'
  <2>1. CASE \E o \in ops : o.op = op
    <3>1. PICK o \in ops : Answer(d, o.rev) /\ UNCHANGED cloud
      BY <2>1 DEF AnswerSubmit
    <3> QED
      BY <3>1, SyncFields DEF cloud, TypeOK
  <2>2. CASE ~ \E o \in ops : o.op = op
    <3>1. /\ revs' = IF merged = Last(revs) THEN revs ELSE Append(revs, merged)
          /\ ops' = ops \cup {[op |-> op, rev |-> Advance(merged)]}
          /\ Answer(d, Advance(merged))
      BY <2>2 DEF AnswerSubmit
    <3> HIDE DEF merged, op
    <3>2. /\ revs' \in Seq(Content) /\ Len(revs') \in Nat /\ Len(revs') >= Len(revs)
          /\ Advance(merged) = Len(revs')
      BY <1>2, <3>1, SyncFields DEF Advance, TypeOK
    <3>3. \A o \in ops' : o.rev \in 1..Len(revs)'
      BY <3>1, <3>2, SyncFields DEF TypeOK
    <3> QED
      BY <3>1, <3>2, <3>3, SyncFields
  <2> QED
    BY <2>1, <2>2
<1> DEFINE next == [phase |-> "answered", snapshot |-> s.snapshot, rev |-> rev]
<1>4. next \in Sync /\ next.phase = "answered" /\ next.rev = rev
  BY <1>1, <1>3, SyncFields DEF Sync
<1>5. sync' = [sync EXCEPT ![d] = next]
  BY <1>3 DEF Answer
<1> HIDE DEF next
<1>6. sync' \in [Device -> Sync]
  BY <1>4, <1>5 DEF TypeOK
<1>7. \A e \in Device : sync'[e].phase \in {"answered", "applied"} => sync'[e].rev <= Len(revs')
  <2> SUFFICES ASSUME NEW e \in Device, sync'[e].phase \in {"answered", "applied"}
               PROVE  sync'[e].rev <= Len(revs')
    OBVIOUS
  <2>1. CASE e = d
    BY <1>3, <1>4, <1>5, <2>1 DEF TypeOK
  <2>2. CASE e # d
    <3>1. sync'[e] = sync[e]
      BY <1>5, <2>2 DEF TypeOK
    <3> QED
      BY <1>3, <3>1, SyncFields
  <2> QED
    BY <2>1, <2>2
<1>8. base' \in [Device -> 1..Len(revs')] /\ local' \in [Device -> Content]
      /\ wrote' \in [Device -> Value] /\ \A e \in Device : checkpoints'[e] \subseteq Content
  BY <1>1, <1>3, SyncFields DEF TypeOK
<1>9. Len(revs') > 0
  BY <1>3, SyncFields
<1> QED
  BY <1>3, <1>6, <1>7, <1>8, <1>9 DEF TypeOK

\* Every step keeps the types.
LEMMA TypesStep == TypeOK /\ [Next]_vars => TypeOK'
<1> SUFFICES ASSUME TypeOK, [Next]_vars PROVE TypeOK'
  OBVIOUS
<1>1. ASSUME NEW d \in Device, NEW v \in Value, EditProperty(d, v) PROVE TypeOK'
  <2> DEFINE c == [local[d] EXCEPT !.own[d] = v]
  <2>1. /\ UNCHANGED <<revs, ops, base, checkpoints, sync>>
        /\ local' = [local EXCEPT ![d] = c] /\ wrote' = [wrote EXCEPT ![d] = v]
    BY <1>1 DEF EditProperty, cloud, TypeOK
  <2>2. c \in Content
    <3>1. /\ local[d] = [own |-> local[d].own, log |-> local[d].log]
          /\ local[d].own \in [Device -> Value] /\ local[d].log \in Seq(Line)
      BY DEF TypeOK, Content
    <3>2. c = [own |-> [local[d].own EXCEPT ![d] = v], log |-> local[d].log]
      BY <3>1
    <3> QED
      BY <3>1, <3>2 DEF Content
  <2> HIDE DEF c
  <2>3. local' \in [Device -> Content] /\ wrote' \in [Device -> Value]
    BY <2>1, <2>2 DEF TypeOK
  <2> QED
    BY <2>1, <2>3 DEF TypeOK
<1>2. ASSUME NEW d \in Device, NEW line \in Line, AppendLog(d, line) PROVE TypeOK'
  <2> DEFINE c == [local[d] EXCEPT !.log = Append(@, line)]
  <2>1. /\ UNCHANGED <<revs, ops, base, checkpoints, sync, wrote>>
        /\ local' = [local EXCEPT ![d] = c]
    BY <1>2 DEF AppendLog, cloud, TypeOK
  <2>2. c \in Content
    <3>1. /\ local[d] = [own |-> local[d].own, log |-> local[d].log]
          /\ local[d].own \in [Device -> Value] /\ local[d].log \in Seq(Line)
      BY DEF TypeOK, Content
    <3>2. Append(local[d].log, line) \in Seq(Line)
      BY <3>1
    <3>3. c = [own |-> local[d].own, log |-> Append(local[d].log, line)]
      BY <3>1
    <3> QED
      BY <3>1, <3>2, <3>3 DEF Content
  <2> HIDE DEF c
  <2>3. local' \in [Device -> Content]
    BY <2>1, <2>2 DEF TypeOK
  <2> QED
    BY <2>1, <2>3 DEF TypeOK
<1>3. ASSUME NEW d \in Device, NEW writer \in Writer, BeginSync(d, writer) PROVE TypeOK'
  <2>1. PICK phase \in {"read", "submit"} :
          sync' = [sync EXCEPT ![d] = [phase |-> phase, snapshot |-> local[d],
                                       writer |-> writer]]
    BY <1>3 DEF BeginSync
  <2> DEFINE next == [phase |-> phase, snapshot |-> local[d], writer |-> writer]
  <2>2. next \in Sync /\ next.phase \notin {"answered", "applied"}
    BY SyncFields DEF Sync
  <2>3. /\ UNCHANGED <<revs, ops, local, base, wrote>>
        /\ \A e \in Device : checkpoints'[e] \subseteq Content
    BY <1>3, SyncFields DEF BeginSync, cloud, TypeOK
  <2>4. sync' = [sync EXCEPT ![d] = next]
    BY <2>1
  <2> HIDE DEF next
  <2> QED
    BY <2>2, <2>3, <2>4, SyncMoves DEF TypeOK
<1>4. ASSUME NEW d \in Device, AnswerRead(d) PROVE TypeOK'
  <2> DEFINE next == [phase |-> "answered", snapshot |-> sync[d].snapshot, rev |-> Len(revs)]
  <2>1. UNCHANGED <<revs, ops, local, base, checkpoints, wrote>> /\ sync[d].phase = "read"
        /\ sync' = [sync EXCEPT ![d] = next]
    BY <1>4 DEF AnswerRead, Answer, cloud
  <2>2. next \in Sync /\ next.rev = Len(revs) /\ Len(revs) \in Nat
    BY <2>1, SyncFields DEF Sync
  <2> HIDE DEF next
  <2> QED
    BY <2>1, <2>2, SyncMoves DEF TypeOK
<1>5. ASSUME NEW d \in Device, ApplyAnswer(d) PROVE TypeOK'
  <2> DEFINE next == [phase |-> "applied", rev |-> sync[d].rev]
  <2>1. UNCHANGED <<revs, ops, base, wrote>> /\ sync[d].phase = "answered"
        /\ sync' = [sync EXCEPT ![d] = next] /\ local' = [local EXCEPT ![d] = Incoming(d)]
        /\ CheckpointAgain(d)
    BY <1>5 DEF ApplyAnswer, cloud
  <2>2. next \in Sync /\ next.rev \in 1..Len(revs) /\ sync[d].snapshot \in Content
    BY <2>1, SyncFields DEF Sync
  <2>3. Incoming(d) \in Content
    <3>1. revs[sync[d].rev] \in Content
      BY <2>1, SyncFields DEF TypeOK
    <3> QED
      BY <2>2, <3>1, SyncFields, MergedContent DEF Incoming
  <2>4. \A e \in Device : checkpoints'[e] \subseteq Content
    BY <2>1, SyncFields DEF CheckpointAgain, TypeOK
  <2>5. local' \in [Device -> Content]
    BY <2>1, <2>3 DEF TypeOK
  <2> HIDE DEF next
  <2> QED
    BY <2>1, <2>2, <2>4, <2>5, SyncFields, SyncMoves DEF TypeOK
<1>6. ASSUME NEW d \in Device, SaveAssociation(d) PROVE TypeOK'
  <2>1. /\ UNCHANGED <<revs, ops, local, checkpoints, wrote>>
        /\ sync' = [sync EXCEPT ![d] = Idle] /\ base' = [base EXCEPT ![d] = sync[d].rev]
        /\ sync[d].rev \in 1..Len(revs)
    BY <1>6, SyncFields DEF SaveAssociation, cloud
  <2>2. Idle \in Sync /\ Idle.phase = "idle"
    BY DEF Idle, Sync
  <2> QED
    BY <2>1, <2>2, SyncMoves DEF TypeOK
<1>7. ASSUME NEW d \in Device, FailSync(d) \/ FailSave(d) PROVE TypeOK'
  <2>1. /\ UNCHANGED <<revs, ops, local, base, checkpoints, wrote>>
        /\ sync' = [sync EXCEPT ![d] = Idle]
    BY <1>7 DEF FailSync, FailSave, cloud
  <2>2. Idle \in Sync /\ Idle.phase = "idle"
    BY DEF Idle, Sync
  <2> QED
    BY <2>1, <2>2, SyncMoves DEF TypeOK
<1>8. CASE UNCHANGED vars
  BY <1>8 DEF vars, TypeOK
<1> QED
  BY <1>1, <1>2, <1>3, <1>4, <1>5, <1>6, <1>7, <1>8, AnswerTyped DEF Next, SyncStep

\* Every variable keeps its type, whatever is merged.
THEOREM SyncTypes == Spec => []TypeOK
BY TypesStart, TypesStep, PTL DEF Spec

--------------------------------------------------------------------------------
\* Whose edits are submitted, and what they become.

Waiting == {"read", "submit", "answered"}

\* What others own is, in a studio, as in the revision its content comes from.
OthersAsPulled(d) ==
  \A e \in Device \ {d} :
    /\ sync[d].phase # "applied" => local[d].own[e] = revs[base[d]].own[e]
    /\ sync[d].phase = "applied" => local[d].own[e] = revs[sync[d].rev].own[e]
    /\ sync[d].phase \in Waiting => sync[d].snapshot.own[e] = revs[base[d]].own[e]

\* Until a process died between the replacement and the record of the base.
EditsInv == /\ TypeOK /\ unsaved \in Nat
            /\ unsaved = 0 => \A d \in Device : OthersAsPulled(d)

\* What a merge makes of a property.
LEMMA MergedProperty ==
  ASSUME NEW b, NEW ours, NEW theirs, NEW x \in Device
  PROVE  Reconcile(b, ours, theirs).own[x] =
           IF ours.own[x] = b.own[x] THEN theirs.own[x] ELSE ours.own[x]
BY DEF Reconcile

\* A submission is answered with a revision made for it, or with that of the first time.
LEMMA SubmitAnswered ==
  ASSUME TypeOK, NEW d \in Device, AnswerSubmit(d),
         NEW op, op = Operation(base[d], sync[d].snapshot, sync[d].writer),
         NEW merged, merged = IF sync[d].writer = "agent"
                                THEN Reconcile(revs[base[d]], Last(revs), sync[d].snapshot)
                                ELSE Reconcile(revs[base[d]], sync[d].snapshot, Last(revs))
  PROVE  /\ UNCHANGED <<local, base, wrote, unsaved>> /\ sync[d].phase = "submit"
         /\ Len(revs') \in Nat /\ Len(revs) <= Len(revs')
         /\ \A i \in 1..Len(revs) : revs'[i] = revs[i]
         /\ \E rev \in 1..Len(revs') :
              /\ sync' = [sync EXCEPT ![d] = [phase |-> "answered",
                                              snapshot |-> sync[d].snapshot, rev |-> rev]]
              /\ \/ /\ revs' = revs /\ ops' = ops
                    /\ \E o \in ops : o.op = op /\ o.rev = rev
                 \/ /\ Len(revs') <= Len(revs) + 1 /\ rev = Len(revs') /\ revs'[rev] = merged
                    /\ ops' = ops \cup {[op |-> op, rev |-> rev]}
<1>1. UNCHANGED <<local, base, wrote, unsaved>> /\ sync[d].phase = "submit"
  BY DEF AnswerSubmit, counters
<1>2. CASE \E o \in ops : o.op = op
  <2>1. PICK o \in ops : o.op = op /\ Answer(d, o.rev) /\ UNCHANGED cloud
    BY <1>2 DEF AnswerSubmit
  <2>2. revs' = revs /\ ops' = ops /\ o.rev \in 1..Len(revs) /\ Len(revs) \in Nat
    BY <2>1, SyncFields DEF cloud, TypeOK
  <2>3. sync' = [sync EXCEPT ![d] = [phase |-> "answered", snapshot |-> sync[d].snapshot,
                                     rev |-> o.rev]]
    BY <2>1 DEF Answer
  <2>4. /\ Len(revs') \in Nat /\ Len(revs) <= Len(revs')
        /\ \A i \in 1..Len(revs) : revs'[i] = revs[i]
        /\ o.rev \in 1..Len(revs')
    BY <2>2
  <2> QED
    BY <1>1, <2>1, <2>2, <2>3, <2>4, Zenon
<1>3. CASE ~ \E o \in ops : o.op = op
  <2>1. /\ revs' = IF merged = Last(revs) THEN revs ELSE Append(revs, merged)
        /\ ops' = ops \cup {[op |-> op, rev |-> Advance(merged)]}
        /\ Answer(d, Advance(merged))
    BY <1>3 DEF AnswerSubmit
  <2>2. /\ Len(revs') \in Nat /\ Len(revs) <= Len(revs') /\ Len(revs') <= Len(revs) + 1
        /\ Advance(merged) = Len(revs') /\ revs'[Len(revs')] = merged
        /\ \A i \in 1..Len(revs) : revs'[i] = revs[i]
        /\ Len(revs') \in 1..Len(revs')
    <3>1. /\ revs \in Seq(Content) /\ Len(revs) \in Nat \ {0} /\ Last(revs) = revs[Len(revs)]
      BY SyncFields DEF TypeOK
    <3>2. CASE merged = Last(revs)
      BY <2>1, <3>1, <3>2 DEF Advance
    <3>3. CASE merged # Last(revs)
      <4>1. revs \in Seq(Content \cup {merged}) /\ merged \in Content \cup {merged}
        BY <3>1
      <4>2. revs' = Append(revs, merged) /\ Advance(merged) = Len(revs) + 1
        BY <2>1, <3>3 DEF Advance
      <4> QED
        BY <3>1, <4>1, <4>2
    <3> QED
      BY <3>2, <3>3
  <2>3. sync' = [sync EXCEPT ![d] = [phase |-> "answered", snapshot |-> sync[d].snapshot,
                                     rev |-> Len(revs')]]
    BY <2>1, <2>2 DEF Answer
  <2>4. ops' = ops \cup {[op |-> op, rev |-> Len(revs')]}
    BY <2>1, <2>2
  <2> QED
    BY <1>1, <2>2, <2>3, <2>4, Zenon
<1> QED
  BY <1>2, <1>3

\* Nothing changes for a studio that rests, when revisions are only added.
LEMMA OthersRest ==
  ASSUME TypeOK, NEW d \in Device, OthersAsPulled(d),
         sync'[d] = sync[d], local'[d] = local[d], base'[d] = base[d],
         \A i \in 1..Len(revs) : revs'[i] = revs[i]
  PROVE  OthersAsPulled(d)'
<1>1. revs'[base[d]] = revs[base[d]]
  BY SyncFields
<1>2. sync[d].phase = "applied" => revs'[sync[d].rev] = revs[sync[d].rev]
  BY SyncFields
<1> QED
  BY <1>1, <1>2 DEF OthersAsPulled

\* Every step submits, pulls and merges what others own as it found it.
LEMMA EditsStep == EditsInv /\ [Next]_vars => EditsInv'
<1> SUFFICES ASSUME EditsInv, [Next]_vars PROVE EditsInv'
  OBVIOUS
<1>a. TypeOK /\ TypeOK' /\ unsaved \in Nat
  BY TypesStep DEF EditsInv
<1>b. ASSUME unsaved = 0 PROVE \A d \in Device : OthersAsPulled(d)
  BY <1>b DEF EditsInv
<1>1. ASSUME NEW d \in Device, NEW v \in Value, EditProperty(d, v) PROVE EditsInv'
  <2>1. /\ UNCHANGED <<revs, base, sync, unsaved>> /\ sync[d].phase # "applied"
        /\ local' = [local EXCEPT ![d].own[d] = v]
    BY <1>1 DEF EditProperty, cloud, Unlocked
  <2>2. /\ \A e \in Device \ {d} : local'[d].own[e] = local[d].own[e] /\ local'[e] = local[e]
    BY <1>a, <2>1 DEF TypeOK, Content
  <2>3. ASSUME unsaved = 0 PROVE OthersAsPulled(d)'
    BY <1>b, <2>1, <2>2, <2>3 DEF OthersAsPulled
  <2>4. ASSUME unsaved = 0, NEW e \in Device \ {d} PROVE OthersAsPulled(e)'
    BY <1>a, <1>b, <2>1, <2>2, <2>4, OthersRest
  <2> QED
    BY <1>a, <2>1, <2>3, <2>4 DEF EditsInv
<1>2. ASSUME NEW d \in Device, NEW line \in Line, AppendLog(d, line) PROVE EditsInv'
  <2>1. /\ UNCHANGED <<revs, base, sync, unsaved>> /\ sync[d].phase # "applied"
        /\ local' = [local EXCEPT ![d].log = Append(local[d].log, line)]
    BY <1>2 DEF AppendLog, cloud, Unlocked
  <2>2. local'[d].own = local[d].own /\ \A e \in Device \ {d} : local'[e] = local[e]
    BY <1>a, <2>1 DEF TypeOK, Content
  <2>3. ASSUME unsaved = 0 PROVE OthersAsPulled(d)'
    BY <1>b, <2>1, <2>2, <2>3 DEF OthersAsPulled
  <2>4. ASSUME unsaved = 0, NEW e \in Device \ {d} PROVE OthersAsPulled(e)'
    BY <1>a, <1>b, <2>1, <2>2, <2>4, OthersRest
  <2> QED
    BY <1>a, <2>1, <2>3, <2>4 DEF EditsInv
<1>3. ASSUME NEW d \in Device, NEW writer \in Writer, BeginSync(d, writer) PROVE EditsInv'
  <2>1. UNCHANGED <<revs, base, local, unsaved>> /\ sync[d].phase = "idle"
    BY <1>3 DEF BeginSync, cloud, counters
  <2>2. /\ sync'[d].phase \in {"read", "submit"} /\ sync'[d].snapshot = local[d]
        /\ \A e \in Device \ {d} : sync'[e] = sync[e]
    BY <1>3, <1>a DEF BeginSync, TypeOK
  <2>3. ASSUME unsaved = 0 PROVE OthersAsPulled(d)'
    BY <1>b, <2>1, <2>2, <2>3 DEF OthersAsPulled
  <2>4. ASSUME unsaved = 0, NEW e \in Device \ {d} PROVE OthersAsPulled(e)'
    BY <1>a, <1>b, <2>1, <2>2, <2>4, OthersRest
  <2> QED
    BY <1>a, <2>1, <2>3, <2>4 DEF EditsInv
<1>4. ASSUME NEW d \in Device, AnswerRead(d) PROVE EditsInv'
  <2>1. UNCHANGED <<revs, base, local, unsaved>> /\ sync[d].phase = "read"
    BY <1>4 DEF AnswerRead, cloud, counters
  <2>2. /\ sync'[d].phase = "answered" /\ sync'[d].snapshot = sync[d].snapshot
        /\ \A e \in Device \ {d} : sync'[e] = sync[e]
    BY <1>4, <1>a DEF AnswerRead, Answer, TypeOK
  <2>3. ASSUME unsaved = 0 PROVE OthersAsPulled(d)'
    BY <1>b, <2>1, <2>2, <2>3 DEF OthersAsPulled, Waiting
  <2>4. ASSUME unsaved = 0, NEW e \in Device \ {d} PROVE OthersAsPulled(e)'
    BY <1>a, <1>b, <2>1, <2>2, <2>4, OthersRest
  <2> QED
    BY <1>a, <2>1, <2>3, <2>4 DEF EditsInv
<1>5. ASSUME NEW d \in Device, AnswerSubmit(d) PROVE EditsInv'
  <2>1. /\ UNCHANGED <<local, base, unsaved>> /\ sync[d].phase = "submit"
        /\ \A i \in 1..Len(revs) : revs'[i] = revs[i]
    BY <1>5, <1>a, SubmitAnswered
  <2>2. PICK rev : sync' = [sync EXCEPT ![d] = [phase |-> "answered",
                                                snapshot |-> sync[d].snapshot, rev |-> rev]]
    BY <1>5, <1>a, SubmitAnswered
  <2>3. /\ sync'[d].phase = "answered" /\ sync'[d].snapshot = sync[d].snapshot
        /\ \A e \in Device \ {d} : sync'[e] = sync[e]
    BY <1>a, <2>2 DEF TypeOK
  <2>4. revs'[base[d]] = revs[base[d]]
    BY <1>a, <2>1, SyncFields
  <2>5. ASSUME unsaved = 0 PROVE OthersAsPulled(d)'
    BY <1>b, <2>1, <2>3, <2>4, <2>5 DEF OthersAsPulled, Waiting
  <2>6. ASSUME unsaved = 0, NEW e \in Device \ {d} PROVE OthersAsPulled(e)'
    BY <1>a, <1>b, <2>1, <2>3, <2>6, OthersRest
  <2> QED
    BY <1>a, <2>1, <2>5, <2>6 DEF EditsInv
<1>6. ASSUME NEW d \in Device, ApplyAnswer(d) PROVE EditsInv'
  <2>1. /\ UNCHANGED <<revs, base, unsaved>> /\ sync[d].phase = "answered"
        /\ sync' = [sync EXCEPT ![d] = [phase |-> "applied", rev |-> sync[d].rev]]
        /\ local' = [local EXCEPT ![d] = Incoming(d)]
    BY <1>6 DEF ApplyAnswer, cloud, counters
  <2>2. /\ sync'[d].phase = "applied" /\ sync'[d].rev = sync[d].rev
        /\ local'[d] = Incoming(d)
        /\ \A e \in Device \ {d} : sync'[e] = sync[e] /\ local'[e] = local[e]
    BY <1>a, <2>1 DEF TypeOK
  <2>3. ASSUME unsaved = 0, NEW e \in Device \ {d}
        PROVE  Incoming(d).own[e] = revs[sync[d].rev].own[e]
    <3>1. local[d].own[e] = sync[d].snapshot.own[e]
      BY <1>b, <2>1, <2>3 DEF OthersAsPulled, Waiting
    <3> QED
      BY <3>1, MergedProperty DEF Incoming
  <2>4. ASSUME unsaved = 0 PROVE OthersAsPulled(d)'
    BY <2>1, <2>2, <2>3, <2>4 DEF OthersAsPulled, Waiting
  <2>5. ASSUME unsaved = 0, NEW e \in Device \ {d} PROVE OthersAsPulled(e)'
    BY <1>a, <1>b, <2>1, <2>2, <2>5, OthersRest
  <2> QED
    BY <1>a, <2>1, <2>4, <2>5 DEF EditsInv
<1>7. ASSUME NEW d \in Device, SaveAssociation(d) PROVE EditsInv'
  <2>1. /\ UNCHANGED <<revs, local, unsaved>> /\ sync[d].phase = "applied"
        /\ sync'[d].phase = "idle" /\ base'[d] = sync[d].rev
        /\ \A e \in Device \ {d} : sync'[e] = sync[e] /\ base'[e] = base[e]
    BY <1>7, <1>a DEF SaveAssociation, cloud, counters, Idle, TypeOK
  <2>2. ASSUME unsaved = 0 PROVE OthersAsPulled(d)'
    BY <1>b, <2>1, <2>2 DEF OthersAsPulled, Waiting
  <2>3. ASSUME unsaved = 0, NEW e \in Device \ {d} PROVE OthersAsPulled(e)'
    BY <1>a, <1>b, <2>1, <2>3, OthersRest
  <2> QED
    BY <1>a, <2>1, <2>2, <2>3 DEF EditsInv
<1>8. ASSUME NEW d \in Device, FailSync(d) PROVE EditsInv'
  <2>1. /\ UNCHANGED <<revs, local, base, unsaved>> /\ sync[d].phase # "applied"
        /\ sync'[d].phase = "idle" /\ \A e \in Device \ {d} : sync'[e] = sync[e]
    BY <1>8, <1>a DEF FailSync, cloud, Idle, TypeOK
  <2>2. ASSUME unsaved = 0 PROVE OthersAsPulled(d)'
    BY <1>b, <2>1, <2>2 DEF OthersAsPulled, Waiting
  <2>3. ASSUME unsaved = 0, NEW e \in Device \ {d} PROVE OthersAsPulled(e)'
    BY <1>a, <1>b, <2>1, <2>3, OthersRest
  <2> QED
    BY <1>a, <2>1, <2>2, <2>3 DEF EditsInv
<1>9. ASSUME NEW d \in Device, FailSave(d) PROVE EditsInv'
  BY <1>9, <1>a DEF FailSave, EditsInv
<1>10. CASE UNCHANGED vars
  BY <1>10, <1>a, <1>b, OthersRest DEF vars, EditsInv
<1> QED
  BY <1>1, <1>2, <1>3, <1>4, <1>5, <1>6, <1>7, <1>8, <1>9, <1>10 DEF Next, SyncStep

LEMMA EditsStart == Init => EditsInv
BY TypesStart DEF Init, EditsInv, OthersAsPulled, Idle, Waiting

(***************************************************************************)
(* What a studio submits differs from its base by the edits of its own     *)
(* user, whatever is edited, lost, retried and merged, as long as no       *)
(* process died between the replacement and the record of the base.        *)
(***************************************************************************)
THEOREM OwnEditsSubmitted == Spec => [](unsaved = 0 => SubmitsOwnEditsOnly)
<1>1. EditsInv => (unsaved = 0 => SubmitsOwnEditsOnly)
  BY DEF EditsInv, OthersAsPulled, SubmitsOwnEditsOnly, Waiting
<1> QED
  BY <1>1, EditsStart, EditsStep, PTL DEF Spec

--------------------------------------------------------------------------------
\* What becomes of a user's edits, when no edit returns to an older value and only
\* people's syncs are announced.

\* A user's property only grows, and the studio has its newest value: so has what it
\* submits and, once it is answered, the revision of the answer.
OwnAhead(d) ==
  /\ local[d].own[d] = wrote[d]
  /\ \A i \in 1..Len(revs) : revs[i].own[d] <= local[d].own[d]
  /\ sync[d].phase \in Waiting =>
       /\ sync[d].snapshot.own[d] <= local[d].own[d]
       /\ \A i \in 1..Len(revs) : revs[i].own[d] <= sync[d].snapshot.own[d]
  /\ sync[d].phase = "read" => sync[d].snapshot.own[d] = revs[base[d]].own[d]
  /\ sync[d].phase = "answered" => revs[sync[d].rev].own[d] = sync[d].snapshot.own[d]

RevisionsGrow ==
  \A i, j \in 1..Len(revs) : i <= j => \A x \in Device : revs[i].own[x] <= revs[j].own[x]

\* The answer to an operation holds what was submitted, or newer.
AnswersHold == \A o \in ops : \A x \in Device : o.op[2].own[x] <= revs[o.rev].own[x]

ShownInv == /\ EditsInv
            /\ unsaved = 0 => /\ RevisionsGrow /\ AnswersHold
                              /\ \A d \in Device : OwnAhead(d)

\* Values are numbers.
LEMMA ValuesAreNumbers ==
  ASSUME TypeOK, NEW d \in Device, NEW e \in Device
  PROVE  /\ local[d].own[e] \in Nat /\ wrote[d] \in Nat
         /\ \A i \in 1..Len(revs) : revs[i].own[e] \in Nat
         /\ sync[d].phase \in Waiting => sync[d].snapshot.own[e] \in Nat
<1>1. \A c \in Content : c.own[e] \in Nat
  BY SyncAssumption DEF Content, Value
<1>2. \A i \in 1..Len(revs) : revs[i] \in Content
  BY DEF TypeOK
<1>3. sync[d].phase \in Waiting => sync[d].snapshot \in Content
  BY SyncFields DEF Waiting
<1>4. wrote[d] \in Nat
  BY SyncAssumption DEF TypeOK, Value
<1> QED
  BY <1>1, <1>2, <1>3, <1>4 DEF TypeOK

\* A studio that rests, and whose property is nowhere newer in the revisions.
LEMMA OwnRests ==
  ASSUME TypeOK, NEW d \in Device, OwnAhead(d), Len(revs') \in Nat, Len(revs) <= Len(revs'),
         sync'[d] = sync[d], local'[d] = local[d], base'[d] = base[d], wrote'[d] = wrote[d],
         \A i \in 1..Len(revs) : revs'[i] = revs[i],
         \A i \in 1..Len(revs') : \E j \in 1..Len(revs) : revs'[i].own[d] = revs[j].own[d]
  PROVE  OwnAhead(d)'
<1>1. base[d] \in 1..Len(revs) /\ revs'[base[d]] = revs[base[d]]
  BY SyncFields
<1>2. sync[d].phase = "answered" => revs'[sync[d].rev] = revs[sync[d].rev]
  BY SyncFields
<1>3. \A i \in 1..Len(revs') : revs'[i].own[d] <= local[d].own[d]
  BY DEF OwnAhead
<1>4. ASSUME sync[d].phase \in Waiting
      PROVE  \A i \in 1..Len(revs') : revs'[i].own[d] <= sync[d].snapshot.own[d]
  BY <1>4 DEF OwnAhead
<1> QED
  BY <1>1, <1>2, <1>3, <1>4 DEF OwnAhead, Waiting

\* The same when nothing becomes of the revisions.
LEMMA OwnStays ==
  ASSUME TypeOK, NEW d \in Device, OwnAhead(d), UNCHANGED revs,
         sync'[d] = sync[d], local'[d] = local[d], base'[d] = base[d], wrote'[d] = wrote[d]
  PROVE  OwnAhead(d)'
BY DEF OwnAhead, Waiting

\* The Cloud's answer to a submission holds what was submitted.
LEMMA SubmitShown ==
  ASSUME ShownInv, Writer \subseteq {"human"}, NEW d \in Device, AnswerSubmit(d)
  PROVE  ShownInv'
<1>a. TypeOK /\ TypeOK' /\ EditsInv' /\ unsaved \in Nat
  <2>1. Next
    BY DEF Next, SyncStep
  <2> QED
    BY <2>1, EditsStep DEF ShownInv, EditsInv
<1>1. sync[d].phase = "submit" /\ UNCHANGED <<local, base, wrote, unsaved>>
  BY <1>a, SubmitAnswered
<1> SUFFICES ASSUME unsaved = 0
             PROVE  RevisionsGrow' /\ AnswersHold' /\ \A e \in Device : OwnAhead(e)'
  BY <1>a, <1>1 DEF ShownInv
<1>b. RevisionsGrow /\ AnswersHold /\ \A e \in Device : OwnAhead(e) /\ OthersAsPulled(e)
  BY DEF ShownInv, EditsInv
<1> DEFINE snap == sync[d].snapshot
           ancestor == revs[base[d]]
           head == revs[Len(revs)]
           N == Len(revs)
<1>2. PICK merged : merged = Reconcile(ancestor, snap, head)
  OBVIOUS
<1>3. sync[d].writer # "agent" /\ Last(revs) = head /\ N \in Nat \ {0} /\ base[d] \in 1..N
  BY <1>a, <1>1, SyncFields
<1>4. PICK op : op = <<base[d], snap, sync[d].writer>>
  OBVIOUS
<1>5. /\ Len(revs') \in Nat /\ N <= Len(revs')
      /\ \A i \in 1..N : revs'[i] = revs[i]
      /\ \E rev \in 1..Len(revs') :
           /\ sync' = [sync EXCEPT ![d] = [phase |-> "answered", snapshot |-> snap,
                                           rev |-> rev]]
           /\ \/ /\ revs' = revs /\ ops' = ops
                 /\ \E o \in ops : o.op = op /\ o.rev = rev
              \/ /\ Len(revs') <= N + 1 /\ rev = Len(revs') /\ revs'[rev] = merged
                 /\ ops' = ops \cup {[op |-> op, rev |-> rev]}
  BY <1>a, <1>2, <1>3, <1>4, SubmitAnswered DEF Operation
<1>6. PICK rev \in 1..Len(revs') :
        /\ sync' = [sync EXCEPT ![d] = [phase |-> "answered", snapshot |-> snap, rev |-> rev]]
        /\ \/ /\ revs' = revs /\ ops' = ops
              /\ \E o \in ops : o.op = op /\ o.rev = rev
           \/ /\ Len(revs') <= N + 1 /\ rev = Len(revs') /\ revs'[rev] = merged
              /\ ops' = ops \cup {[op |-> op, rev |-> rev]}
  BY <1>5
<1>7. /\ sync'[d].phase = "answered" /\ sync'[d].snapshot = snap /\ sync'[d].rev = rev
      /\ \A e \in Device \ {d} : sync'[e] = sync[e]
  BY <1>a, <1>6 DEF TypeOK
\* Numbers.
<1>8. /\ \A e \in Device : /\ snap.own[e] \in Nat
                           /\ \A i \in 1..N : revs[i].own[e] \in Nat
                           /\ ancestor.own[e] <= head.own[e]
      /\ \A i \in 1..N : revs[i].own[d] <= snap.own[d]
      /\ \A e \in Device \ {d} : snap.own[e] = ancestor.own[e]
      /\ snap.own[d] <= local[d].own[d] /\ local[d].own[d] \in Nat
  <2>1. sync[d].phase \in Waiting
    BY <1>1 DEF Waiting
  <2>2. \A e \in Device : snap.own[e] \in Nat /\ \A i \in 1..N : revs[i].own[e] \in Nat
    BY <1>a, <2>1, ValuesAreNumbers
  <2>3. \A e \in Device : ancestor.own[e] <= head.own[e]
    BY <1>b, <1>3 DEF RevisionsGrow
  <2> QED
    BY <1>a, <1>b, <2>1, <2>2, <2>3, ValuesAreNumbers DEF OwnAhead, OthersAsPulled
<1>9. /\ merged.own[d] = snap.own[d]
      /\ \A e \in Device \ {d} : merged.own[e] = head.own[e]
  <2>1. \A e \in Device : merged.own[e] = IF snap.own[e] = ancestor.own[e] THEN head.own[e]
                                          ELSE snap.own[e]
    BY <1>2, MergedProperty
  <2>2. snap.own[d] = ancestor.own[d] => head.own[d] = snap.own[d]
    BY <1>3, <1>8
  <2> QED
    BY <1>8, <2>1, <2>2
<1>10. \A e \in Device : snap.own[e] <= merged.own[e] /\ head.own[e] <= merged.own[e]
  BY <1>3, <1>8, <1>9
<1> HIDE DEF snap, ancestor, head
<1>11. CASE revs' = revs /\ ops' = ops /\ \E o \in ops : o.op = op /\ o.rev = rev
  <2>1. PICK o \in ops : o.op = op /\ o.rev = rev
    BY <1>11
  <2>2. snap.own[d] <= revs[rev].own[d] /\ rev \in 1..N
    BY <1>b, <1>4, <1>6, <1>11, <2>1 DEF AnswersHold
  <2>3. revs[rev].own[d] = snap.own[d]
    BY <1>8, <2>2
  <2>4. OwnAhead(d)'
    BY <1>b, <1>1, <1>7, <1>8, <1>11, <2>3 DEF OwnAhead, Waiting
  <2>5. \A e \in Device \ {d} : OwnAhead(e)'
    BY <1>a, <1>b, <1>1, <1>7, <1>11, OwnStays
  <2> QED
    BY <1>b, <1>11, <2>4, <2>5 DEF RevisionsGrow, AnswersHold
<1>12. CASE /\ Len(revs') <= N + 1 /\ rev = Len(revs') /\ revs'[rev] = merged
            /\ ops' = ops \cup {[op |-> op, rev |-> rev]}
  <2>1. \A i \in 1..Len(revs') : i \in 1..N \/ i = rev
    BY <1>3, <1>5, <1>12
  <2>2. \A i \in 1..N : revs'[i] = revs[i]
    BY <1>5
  <2>3. /\ \A i \in 1..Len(revs') : revs'[i].own[d] <= snap.own[d]
    BY <1>8, <1>9, <1>12, <2>1, <2>2
  <2>4. OwnAhead(d)'
    <3>1. revs'[rev].own[d] = snap.own[d]
      BY <1>9, <1>12
    <3>2. \A i \in 1..Len(revs') : revs'[i].own[d] \in Nat /\ revs'[i].own[d] <= local[d].own[d]
      BY <1>8, <1>9, <1>12, <2>1, <2>2
    <3> QED
      BY <1>b, <1>1, <1>7, <1>8, <2>3, <3>1, <3>2 DEF OwnAhead, Waiting
  <2>5. ASSUME NEW e \in Device \ {d} PROVE OwnAhead(e)'
    <3>1. \A i \in 1..Len(revs') : \E j \in 1..N : revs'[i].own[e] = revs[j].own[e]
      <4> SUFFICES ASSUME NEW i \in 1..Len(revs')
                   PROVE  \E j \in 1..N : revs'[i].own[e] = revs[j].own[e]
        OBVIOUS
      <4>1. CASE i \in 1..N
        BY <2>2, <4>1
      <4>2. CASE i = rev
        <5>1. revs'[i].own[e] = revs[N].own[e] /\ N \in 1..N
          BY <1>3, <1>9, <1>12, <4>2 DEF head
        <5> QED
          BY <5>1
      <4> QED
        BY <2>1, <4>1, <4>2
    <3> QED
      BY <1>a, <1>b, <1>1, <1>5, <1>7, <3>1, OwnRests
  <2>6. RevisionsGrow'
    <3> SUFFICES ASSUME NEW i \in 1..Len(revs'), NEW j \in 1..Len(revs'), i <= j,
                        NEW x \in Device
                 PROVE  revs'[i].own[x] <= revs'[j].own[x]
      BY DEF RevisionsGrow
    <3>1. CASE j \in 1..N
      <4>1. i \in 1..N
        BY <1>3, <3>1
      <4> QED
        BY <1>b, <2>2, <3>1, <4>1 DEF RevisionsGrow
    <3>2. CASE j = rev
      <4>1. CASE i = rev
        <5>1. merged.own[x] \in Nat
          BY <1>3, <1>8, <1>9 DEF head
        <5> QED
          BY <1>12, <3>2, <4>1, <5>1
      <4>2. CASE i \in 1..N
        <5>1. revs[i].own[x] <= head.own[x] /\ head.own[x] \in Nat /\ revs[i].own[x] \in Nat
          BY <1>3, <1>8, <1>b, <4>2 DEF RevisionsGrow, head
        <5>2. merged.own[x] \in Nat
          BY <1>3, <1>8, <1>9 DEF head
        <5> QED
          BY <1>10, <1>12, <2>2, <3>2, <4>2, <5>1, <5>2
      <4> QED
        BY <2>1, <4>1, <4>2
    <3> QED
      BY <2>1, <3>1, <3>2
  <2>7. AnswersHold'
    <3> SUFFICES ASSUME NEW o \in ops', NEW x \in Device
                 PROVE  o.op[2].own[x] <= revs'[o.rev].own[x]
      BY DEF AnswersHold
    <3>1. CASE o \in ops
      <4>1. o.rev \in 1..N
        BY <1>a, <3>1 DEF TypeOK
      <4> QED
        BY <1>b, <2>2, <3>1, <4>1 DEF AnswersHold
    <3>2. CASE o = [op |-> op, rev |-> rev]
      <4>1. o.op[2] = snap /\ o.rev = rev
        BY <1>4, <3>2
      <4> QED
        BY <1>10, <1>12, <4>1
    <3> QED
      BY <1>12, <3>1, <3>2
  <2> QED
    BY <2>4, <2>5, <2>6, <2>7
<1> QED
  BY <1>6, <1>11, <1>12

\* Every other step.
LEMMA ShownStep ==
  ASSUME Undo = FALSE, Writer \subseteq {"human"}
  PROVE  ShownInv /\ [Next]_vars => ShownInv'
<1> SUFFICES ASSUME ShownInv, [Next]_vars PROVE ShownInv'
  OBVIOUS
<1>a. TypeOK /\ TypeOK' /\ EditsInv' /\ unsaved \in Nat
  BY EditsStep DEF ShownInv, EditsInv
<1>b. ASSUME unsaved = 0
      PROVE  RevisionsGrow /\ AnswersHold /\ \A d \in Device : OwnAhead(d) /\ OthersAsPulled(d)
  BY <1>b DEF ShownInv, EditsInv
<1>c. ASSUME UNCHANGED <<revs, ops, unsaved>>, NEW d \in Device,
             unsaved = 0 => OwnAhead(d)',
             \A e \in Device \ {d} : /\ sync'[e] = sync[e] /\ local'[e] = local[e]
                                     /\ base'[e] = base[e] /\ wrote'[e] = wrote[e]
      PROVE  ShownInv'
  <2>1. ASSUME unsaved = 0, NEW e \in Device \ {d} PROVE OwnAhead(e)'
    BY <1>a, <1>b, <1>c, <2>1, OwnStays
  <2>2. ASSUME unsaved = 0 PROVE RevisionsGrow' /\ AnswersHold'
    BY <1>b, <1>c, <2>2 DEF RevisionsGrow, AnswersHold
  <2> QED
    BY <1>a, <1>c, <2>1, <2>2 DEF ShownInv
<1>1. ASSUME NEW d \in Device, NEW v \in Value, EditProperty(d, v) PROVE ShownInv'
  <2>1. /\ UNCHANGED <<revs, ops, base, sync, unsaved>> /\ v > local[d].own[d]
        /\ local' = [local EXCEPT ![d].own[d] = v] /\ wrote' = [wrote EXCEPT ![d] = v]
    BY <1>1 DEF EditProperty, cloud
  <2>2. /\ local'[d].own[d] = v /\ wrote'[d] = v
        /\ \A e \in Device \ {d} : local'[e] = local[e] /\ wrote'[e] = wrote[e]
    BY <1>a, <2>1 DEF TypeOK, Content
  <2>3. v \in Nat /\ local[d].own[d] \in Nat /\ local[d].own[d] < v
        /\ (\A i \in 1..Len(revs) : revs[i].own[d] \in Nat)
        /\ (sync[d].phase \in Waiting => sync[d].snapshot.own[d] \in Nat)
    BY <1>a, <2>1, ValuesAreNumbers, SyncAssumption DEF Value
  <2>4. ASSUME unsaved = 0 PROVE OwnAhead(d)'
    <3>1. OwnAhead(d)
      BY <1>b, <2>4
    <3>2. \A i \in 1..Len(revs) : revs[i].own[d] <= v
      BY <2>3, <3>1 DEF OwnAhead
    <3>3. sync[d].phase \in Waiting => sync[d].snapshot.own[d] <= v
      BY <2>3, <3>1 DEF OwnAhead
    <3> QED
      BY <2>1, <2>2, <3>1, <3>2, <3>3 DEF OwnAhead
  <2> QED
    BY <1>c, <2>1, <2>2, <2>4
<1>2. ASSUME NEW d \in Device, NEW line \in Line, AppendLog(d, line) PROVE ShownInv'
  <2>1. /\ UNCHANGED <<revs, ops, base, sync, wrote, unsaved>>
        /\ local' = [local EXCEPT ![d].log = Append(local[d].log, line)]
    BY <1>2 DEF AppendLog, cloud
  <2>2. local'[d].own = local[d].own /\ \A e \in Device \ {d} : local'[e] = local[e]
    BY <1>a, <2>1 DEF TypeOK, Content
  <2>3. ASSUME unsaved = 0 PROVE OwnAhead(d)'
    BY <1>b, <2>1, <2>2, <2>3 DEF OwnAhead
  <2> QED
    BY <1>c, <2>1, <2>2, <2>3
<1>3. ASSUME NEW d \in Device, NEW writer \in Writer, BeginSync(d, writer) PROVE ShownInv'
  <2>1. UNCHANGED <<revs, ops, base, local, wrote, unsaved>>
    BY <1>3 DEF BeginSync, cloud, counters
  <2>2. /\ sync'[d].phase = IF local[d] = revs[base[d]] THEN "read" ELSE "submit"
        /\ sync'[d].snapshot = local[d]
        /\ \A e \in Device \ {d} : sync'[e] = sync[e]
    BY <1>3, <1>a DEF BeginSync, TypeOK
  <2>3. ASSUME unsaved = 0 PROVE OwnAhead(d)'
    <3>1. OwnAhead(d) /\ local[d].own[d] \in Nat
      BY <1>a, <1>b, <2>3, ValuesAreNumbers
    <3> QED
      BY <2>1, <2>2, <3>1 DEF OwnAhead, Waiting
  <2> QED
    BY <1>c, <2>1, <2>2, <2>3
<1>4. ASSUME NEW d \in Device, AnswerRead(d) PROVE ShownInv'
  <2>1. UNCHANGED <<revs, ops, base, local, wrote, unsaved>> /\ sync[d].phase = "read"
    BY <1>4 DEF AnswerRead, cloud, counters
  <2>2. /\ sync'[d].phase = "answered" /\ sync'[d].snapshot = sync[d].snapshot
        /\ sync'[d].rev = Len(revs) /\ \A e \in Device \ {d} : sync'[e] = sync[e]
    BY <1>4, <1>a DEF AnswerRead, Answer, TypeOK
  <2>3. ASSUME unsaved = 0 PROVE OwnAhead(d)'
    <3>1. OwnAhead(d) /\ RevisionsGrow
      BY <1>b, <2>3
    <3>2. base[d] \in 1..Len(revs) /\ Len(revs) \in 1..Len(revs) /\ Len(revs) \in Nat
      BY <1>a, SyncFields
    <3>3. revs[Len(revs)].own[d] = sync[d].snapshot.own[d]
      <4>1. revs[base[d]].own[d] <= revs[Len(revs)].own[d]
        BY <3>1, <3>2 DEF RevisionsGrow
      <4>2. revs[Len(revs)].own[d] <= sync[d].snapshot.own[d]
        BY <2>1, <3>1, <3>2 DEF OwnAhead, Waiting
      <4>3. sync[d].snapshot.own[d] = revs[base[d]].own[d]
        BY <2>1, <3>1 DEF OwnAhead
      <4> QED
        BY <1>a, <3>2, <4>1, <4>2, <4>3, ValuesAreNumbers
    <3> QED
      BY <2>1, <2>2, <3>1, <3>3 DEF OwnAhead, Waiting
  <2> QED
    BY <1>c, <2>1, <2>2, <2>3
<1>5. ASSUME NEW d \in Device, ApplyAnswer(d) PROVE ShownInv'
  <2>1. /\ UNCHANGED <<revs, ops, base, wrote, unsaved>> /\ sync[d].phase = "answered"
        /\ sync' = [sync EXCEPT ![d] = [phase |-> "applied", rev |-> sync[d].rev]]
        /\ local' = [local EXCEPT ![d] = Incoming(d)]
    BY <1>5 DEF ApplyAnswer, cloud, counters
  <2>2. /\ sync'[d].phase = "applied" /\ local'[d] = Incoming(d)
        /\ \A e \in Device \ {d} : sync'[e] = sync[e] /\ local'[e] = local[e]
    BY <1>a, <2>1 DEF TypeOK
  <2>3. ASSUME unsaved = 0 PROVE OwnAhead(d)'
    <3>1. OwnAhead(d)
      BY <1>b, <2>3
    <3>2. Incoming(d).own[d] = local[d].own[d]
      <4>1. revs[sync[d].rev].own[d] = sync[d].snapshot.own[d]
        BY <2>1, <3>1 DEF OwnAhead
      <4> QED
        BY <4>1, MergedProperty DEF Incoming
    <3> QED
      BY <2>1, <2>2, <3>1, <3>2 DEF OwnAhead, Waiting
  <2> QED
    BY <1>c, <2>1, <2>2, <2>3
<1>6. ASSUME NEW d \in Device, SaveAssociation(d) PROVE ShownInv'
  <2>1. /\ UNCHANGED <<revs, ops, local, wrote, unsaved>> /\ sync'[d].phase = "idle"
        /\ \A e \in Device \ {d} : sync'[e] = sync[e] /\ base'[e] = base[e]
    BY <1>6, <1>a DEF SaveAssociation, cloud, counters, Idle, TypeOK
  <2>2. ASSUME unsaved = 0 PROVE OwnAhead(d)'
    BY <1>b, <2>1, <2>2 DEF OwnAhead, Waiting
  <2> QED
    BY <1>c, <2>1, <2>2
<1>7. ASSUME NEW d \in Device, FailSync(d) PROVE ShownInv'
  <2>1. /\ UNCHANGED <<revs, ops, local, base, wrote, unsaved>> /\ sync'[d].phase = "idle"
        /\ \A e \in Device \ {d} : sync'[e] = sync[e]
    BY <1>7, <1>a DEF FailSync, cloud, Idle, TypeOK
  <2>2. ASSUME unsaved = 0 PROVE OwnAhead(d)'
    BY <1>b, <2>1, <2>2 DEF OwnAhead, Waiting
  <2> QED
    BY <1>c, <2>1, <2>2
<1>8. ASSUME NEW d \in Device, FailSave(d) PROVE ShownInv'
  BY <1>8, <1>a DEF FailSave, ShownInv
<1>9. CASE UNCHANGED vars
  <2>1. UNCHANGED <<revs, ops, local, base, sync, wrote, unsaved>>
    BY <1>9 DEF vars
  <2>2. ASSUME unsaved = 0
        PROVE  RevisionsGrow' /\ AnswersHold' /\ \A d \in Device : OwnAhead(d)'
    BY <1>a, <1>b, <2>1, <2>2, OwnStays DEF RevisionsGrow, AnswersHold
  <2> QED
    BY <1>a, <2>1, <2>2 DEF ShownInv
<1> QED
  BY <1>1, <1>2, <1>3, <1>4, <1>5, <1>6, <1>7, <1>8, <1>9, SubmitShown DEF Next, SyncStep

LEMMA ShownStart == Init => ShownInv
<1> SUFFICES ASSUME Init PROVE ShownInv
  OBVIOUS
<1>1. Len(revs) = 1 /\ revs[1] = Blank /\ \A x \in Device : Blank.own[x] = 0
  BY DEF Init, Blank
<1>2. RevisionsGrow
  BY <1>1 DEF RevisionsGrow
<1>3. \A d \in Device : OwnAhead(d)
  BY <1>1 DEF Init, OwnAhead, Idle, Waiting
<1>4. AnswersHold
  BY DEF Init, AnswersHold
<1> QED
  BY <1>2, <1>3, <1>4, EditsStart DEF ShownInv

(***************************************************************************)
(* A studio shows what its user last gave the property only this user      *)
(* edits, whatever is lost, retried, merged and applied, until a process   *)
(* dies between the replacement and the record of the base: when edits do  *)
(* not return to an older value, and nobody syncs as an agent.             *)
(***************************************************************************)
THEOREM LastEditShown ==
  ASSUME Undo = FALSE, Writer \subseteq {"human"}
  PROVE  Spec => [](unsaved = 0 => LocalShowsLastEdit)
<1>1. ShownInv => (unsaved = 0 => LocalShowsLastEdit)
  BY DEF ShownInv, OwnAhead, LocalShowsLastEdit
<1>2. ShownInv /\ [Next]_vars => ShownInv'
  BY ShownStep
<1> QED
  BY <1>1, <1>2, ShownStart, PTL DEF Spec
================================================================================
