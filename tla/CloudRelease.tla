------------------------------- MODULE CloudRelease -------------------------------
(***************************************************************************)
(* internal/cloudworkspace/create.go and internal/cloudpublish: commands   *)
(* that create the Cloud presentation of a local one and that publish a    *)
(* revision of it.  Answers get lost and commands are repeated; a journal  *)
(* with an operation id makes creating repeatable, an id computed from the *)
(* revision makes publishing so.  A content is a number, and a revision is *)
(* the content it holds.                                                   *)
(***************************************************************************)
EXTENDS Naturals, FiniteSets

CONSTANTS Releaser,    \* commands on one local presentation
          MaxContent,  \* bound: edits, here and in the Cloud
          MaxOperations, \* bound: creation journals
          MaxFaults    \* bound: lost answers, failing writes, killed commands

ASSUME CloudReleaseAssumption ==
  MaxContent \in Nat \ {0} /\ MaxOperations \in Nat /\ MaxFaults \in Nat

VARIABLES local,       \* the content of the files
          newest,      \* bound: the newest content there is
          operations,  \* operation ids drawn
          journal,     \* cloud-create.json: none, torn or written
          connected,   \* the association, or none: workspace and base revision
          workspaces,  \* of the service: operation id -> content, 0: none
          head,        \* of the service: the head revision of the presentation
          published,   \* of the service: revisions published
          release,     \* of each command: step, content it looked at, operation
          faults,      \* bound
          overtaken,   \* history: commands during which the association changed
          collided,    \* history: whether a creation met another command
          answers      \* history: what publish commands answered, and looked at

releaseVars == <<local, newest, operations, journal, connected, workspaces, head, published,
                 release, faults, overtaken, collided, answers>>

contents == <<local, newest>>
connection == <<operations, journal, connected>>
service == <<workspaces, head, published>>
history == <<overtaken, collided, answers>>

NoJournalYet == [state |-> "none", digest |-> 0, op |-> 0]
NotConnected == [op |-> 0, revision |-> 0]
NoRelease == [step |-> "idle", digest |-> 0, op |-> 0]

CloudReleaseInit ==
  /\ local = 1 /\ newest = 1 /\ operations = 0
  /\ journal = NoJournalYet /\ connected = NotConnected
  /\ workspaces = [o \in 1..MaxOperations |-> 0] /\ head = 0 /\ published = {}
  /\ release = [p \in Releaser |-> NoRelease]
  /\ faults = 0 /\ overtaken = {} /\ collided = FALSE /\ answers = {}

Releasing == {p \in Releaser : release[p].step # "idle"}
Leaves(p) == release' = [release EXCEPT ![p] = NoRelease]
Steps(p, step) == release' = [release EXCEPT ![p].step = step]
AtStep(p, step) == release[p].step = step
Faulty == faults < MaxFaults /\ faults' = faults + 1

--------------------------------------------------------------------------------
\* The rest of the world.

EditFiles ==
  /\ newest < MaxContent
  /\ newest' = newest + 1 /\ local' = newest + 1
  /\ UNCHANGED <<connection, service, history, release, faults>>

EditInCloud ==
  /\ head # 0 /\ newest < MaxContent
  /\ newest' = newest + 1 /\ head' = newest + 1
  /\ UNCHANGED <<connection, history, local, workspaces, published, release, faults>>

\* A synchronization (CloudSync has the details): the files, the base and the head
\* agree.  It overtakes the commands under way.
Synchronize ==
  /\ connected # NotConnected
  /\ \E c \in {local, head} :
       local' = c /\ head' = c /\ connected' = [connected EXCEPT !.revision = c]
  /\ overtaken' = overtaken \cup Releasing
  /\ UNCHANGED <<newest, operations, journal, workspaces, published, release, faults,
                 collided, answers>>

--------------------------------------------------------------------------------
\* Create.

BeginCreate(p) ==
  /\ AtStep(p, "idle") /\ connected = NotConnected
  /\ release' = [release EXCEPT ![p] = [step |-> "snapshot", digest |-> local, op |-> 0]]
  /\ collided' = (collided \/ Releasing # {})
  /\ UNCHANGED <<contents, connection, service, faults, overtaken, answers>>

\* Mutant of ChooseOperation: each try has an operation of its own.
MutantChooseOperation(p) ==
  /\ operations < MaxOperations /\ operations' = operations + 1
  /\ journal' = [state |-> "written", digest |-> release[p].digest, op |-> operations']
  /\ release' = [release EXCEPT ![p].step = "journalled", ![p].op = operations']

\* The journal there is, if it is about the same content, or a new one.
ChooseOperation(p) ==
  \/ /\ journal.state = "written" /\ journal.digest = release[p].digest
     /\ release' = [release EXCEPT ![p].step = "journalled", ![p].op = journal.op]
     /\ UNCHANGED <<journal, operations>>
  \/ /\ journal.state = "none"
     /\ operations < MaxOperations /\ operations' = operations + 1
     /\ journal' = [state |-> "written", digest |-> release[p].digest, op |-> operations']
     /\ release' = [release EXCEPT ![p].step = "journalled", ![p].op = operations']

Journal(p) ==
  /\ AtStep(p, "snapshot")
  /\ ChooseOperation(p)
  /\ UNCHANGED <<contents, service, history, connected, faults>>

\* The journal cannot be written to the end, or is about another content: nothing is
\* uploaded, and what was written stays.
JournalFailed(p) ==
  /\ AtStep(p, "snapshot")
  /\ \/ /\ journal.state # "none" /\ journal.digest # release[p].digest
        /\ UNCHANGED <<journal, faults>>
     \/ /\ journal.state = "none" /\ Faulty
        /\ journal' = [state |-> "torn", digest |-> 0, op |-> 0]
  /\ Leaves(p)
  /\ UNCHANGED <<contents, service, history, operations, connected>>

\* CreateWorkspace: one presentation for an operation id; the answer may be lost.
Upload(p) ==
  /\ AtStep(p, "journalled")
  /\ LET o == release[p].op
     IN  /\ workspaces' = [workspaces EXCEPT ![o] = IF @ = 0 THEN release[p].digest ELSE @]
         /\ head' = IF workspaces[o] = 0 THEN release[p].digest ELSE head
  /\ \/ Steps(p, "created") /\ UNCHANGED faults
     \/ Leaves(p) /\ Faulty
  /\ UNCHANGED <<contents, connection, history, published>>

\* saveAssociation; it fails, or the journal is removed next.
SaveConnection(p) ==
  /\ AtStep(p, "created")
  /\ \/ /\ connected' = [op |-> release[p].op, revision |-> release[p].digest]
        /\ overtaken' = overtaken \cup (Releasing \ {p})
        /\ Steps(p, "connected") /\ UNCHANGED faults
     \/ Leaves(p) /\ Faulty /\ UNCHANGED <<connected, overtaken>>
  /\ UNCHANGED <<contents, service, operations, journal, collided, answers>>

RemoveJournal(p) ==
  /\ AtStep(p, "connected")
  /\ \/ journal' = NoJournalYet /\ UNCHANGED faults
     \/ Faulty /\ UNCHANGED journal
  /\ Leaves(p)
  /\ UNCHANGED <<contents, service, history, operations, connected>>

--------------------------------------------------------------------------------
\* runCloudPublish and Publish, without a revision on the command line.

ReadConnection(p) ==
  /\ AtStep(p, "idle") /\ connected # NotConnected
  /\ release' = [release EXCEPT ![p] = [step |-> "base", digest |-> connected.revision,
                                       op |-> 0]]
  /\ overtaken' = overtaken \ {p}
  /\ UNCHANGED <<contents, connection, service, faults, collided, answers>>

\* Mutant of Clean: changes in the Cloud are looked for, local ones are not.
MutantClean == head = connected.revision

\* Status, which reads the association again.
Clean == local = connected.revision /\ head = connected.revision

CheckClean(p) ==
  /\ AtStep(p, "base")
  /\ IF Clean THEN release' = [release EXCEPT ![p].step = "clean", ![p].op = local]
              ELSE Leaves(p)
  /\ UNCHANGED <<contents, connection, service, history, faults>>

Answered(p) ==
  /\ answers' = answers \cup {[revision |-> release[p].digest, looked |-> release[p].op,
                               excused |-> p \in overtaken]}
  /\ Leaves(p)

\* Publish; an ambiguous failure is looked up by the operation id.
SendPublish(p) ==
  /\ AtStep(p, "clean")
  /\ \/ published' = published \cup {release[p].digest} /\ Answered(p) /\ UNCHANGED faults
     \/ /\ Faulty /\ Steps(p, "lookup") /\ UNCHANGED answers
        /\ published' \in {published, published \cup {release[p].digest}}
  /\ UNCHANGED <<contents, connection, workspaces, head, overtaken, collided>>

LookUp(p) ==
  /\ AtStep(p, "lookup")
  /\ IF release[p].digest \in published THEN Answered(p) ELSE Leaves(p) /\ UNCHANGED answers
  /\ UNCHANGED <<contents, connection, service, faults, overtaken, collided>>

\* A command is killed between two steps.
KillRelease(p) ==
  /\ p \in Releasing /\ Faulty
  /\ Leaves(p)
  /\ UNCHANGED <<contents, connection, service, history>>

CloudReleaseNext ==
  \/ EditFiles \/ EditInCloud \/ Synchronize
  \/ \E p \in Releaser :
       \/ BeginCreate(p) \/ Journal(p) \/ JournalFailed(p) \/ Upload(p)
       \/ SaveConnection(p) \/ RemoveJournal(p)
       \/ ReadConnection(p) \/ CheckClean(p) \/ SendPublish(p) \/ LookUp(p)
       \/ KillRelease(p)

CloudReleaseSpec == CloudReleaseInit /\ [][CloudReleaseNext]_releaseVars

--------------------------------------------------------------------------------
(***************************************************************************)
(* create.go:29, "retries cannot duplicate a presentation or silently      *)
(* upload changed files under the same operation": the service holds one   *)
(* presentation of the connection, with the content of the journal,        *)
(* however often the command was repeated; two only when two commands      *)
(* overlap.                                                                *)
(***************************************************************************)
CreatedOnce ==
  /\ Cardinality({o \in 1..MaxOperations : workspaces[o] # 0}) > 1 => collided
  /\ journal.state = "written" /\ workspaces[journal.op] # 0
       => workspaces[journal.op] = journal.digest
  /\ connected # NotConnected => workspaces[connected.op] # 0

(***************************************************************************)
(* publish.go:51, "when local state is clean and unambiguous": a publish   *)
(* command that names no revision and answers has published exactly the    *)
(* files it found, and they are published once; unless a synchronization   *)
(* (or an overlapping creation) came between its readings of the           *)
(* association.                                                            *)
(***************************************************************************)
PublishedWhatWasThere ==
  \A a \in answers : /\ a.revision \in published
                     /\ a.revision = a.looked \/ a.excused

CloudReleaseTypeOK ==
  /\ local \in 1..MaxContent /\ newest \in 1..MaxContent /\ head \in 0..MaxContent
  /\ journal.state \in {"none", "torn", "written"} /\ journal.op \in 0..MaxOperations
  /\ workspaces \in [1..MaxOperations -> 0..MaxContent]
  /\ published \subseteq 1..MaxContent /\ faults \in 0..MaxFaults
================================================================================
