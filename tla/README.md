# Vessica Studio in TLA+

A formal model of the parts of Vessica Studio in which losing, duplicating or
hiding somebody's work is possible and hard to test: replacing the content of a
studio on disk, merging what several writers made of it, synchronizing studios
through the Cloud and through Git, running a coding agent on it, and what is built
around the content: the team, its decks, live pages, exports, the stage.  The
modules are translated from the Go source; `PROJECT.json` maps each definition
to the lines it stands for.  TLC checks the modules on small instances, TLAPS
proves the theorems for all values of the constants.

Shorthand: `studio/` is `internal/studio/`, `server/` is `internal/server/`,
and so on.

## 1. Inventory

Vessica Studio keeps presentations as files: `decks/D/slides/S.html` (a slide)
and `S.md` (its companion: intent, edit requests, log), `decks/D/deck.yaml`
(order of the slides, title), themes and a library.  These files are the *content
projection*.  Browsers edit them through HTTP handlers; agents edit them directly
or in a copy; a Cloud service and GitHub carry them to other machines.  A hosted
studio also has a PostgreSQL database: who is in the team and who owns which deck.

| component | state | operations | modelled by |
|---|---|---|---|
| content transaction (`studio/cloud_transaction.go`, `cloud_content.go`, `content_lock_*.go`) | the projected files; `.vstd/cloud-transaction.json` (journal); the `content` lock | read, validate, replace the projection; recover | ContentTransaction, AtomicContent |
| three-way merge (`reconcile/`) | none (pure) | merge orders, maps, elements, sections, slide pairs, snapshots | ReconcileOps and its users |
| Cloud workspace synchronization (`cloudworkspace/workspace.go`) | `.vstd/cloud-workspace.json` (base revision), `.vstd/checkpoints` | connect, sync, clone, disconnect | CloudSync (sync) |
| Cloud creation, agent worktrees (`cloudworkspace/create.go`, `branch.go`) | a creation journal, `.vstd/worktrees` | create once; begin and finish a branch | CloudRelease; AgentQueue |
| Cloud publication (`cloudpublish/`) | request keys | publish a revision, look up a lost answer | CloudRelease |
| Cloud credentials (`cloudauth/`) | keyring, lock file | login, rotate under the file lock, logout | CloudSession |
| Cloud client, incremental transfer (`cloud/`) | none | negotiate, send and resolve files by hash | CloudTransfer |
| hosted Git sync (`server/content_sync.go`) | Git worktree, generation counter, status, wake channel, debounce timer | notify, one pass, bootstrap | ContentSync |
| edit API, live events (`server/server.go`, `studio/studio.go`, `companion.go`) | files, under the content lock; event channels | save a fragment, a companion, a title; move and add slides; reload events | LiveEdit, SlideOrder |
| presenter follow (`server/follow.go`) | position with its sequence, subscribers | present, relay, announce | Follow |
| agent worker (`server/agent.go`) | the queue: "Edit requests" in the companions; goroutines, rate counter | list, take, run a pass, mark, flag, recover; guard the scope; push | AgentQueue, AgentScope |
| remote sandboxes (`server/railway_sandbox.go`) | a dispatcher process, the sandbox, hashes of the deck | copy, run, take back, destroy | Sandbox |
| collaboration store and API (`collab/`, `server/auth.go`, `collaboration.go`, `server.go`) | PostgreSQL: members, invitations, sessions, handoffs, resets, decks | statements and transactions; cookies and signed links | Team, Access, DeckFiles |
| catalogue (`catalog/`, `collab/catalog.go`, `server/catalog.go`) | folders and positions, in a file or in tables | create, rename, delete, order folders; move decks | Catalogue |
| transfers and links (`studio/transfer.go`, `fork.go`, `server/transfer_intent.go`) | files of slides, links with hashes, intents | copy, link, refresh, detach, fork | SlideTransfer, SlideLinks, DeckFiles |
| exports (`server/export_cache.go`) | pictures under fingerprints, a manifest | fingerprint, render, store, prune | ExportCache |
| library and media (`library/`, `oai/`, `video/`, `server/`) | the manifest of assets, picture requests | generate, upload, ingest | MediaLibrary |
| calls (`server/callbridge.go`) | the table of calls | dial, webhooks, media, model session, report | Calls |
| meeting brief (`server/brief.go`) | text, revision, generation | distil, clear | Brief |
| audience and inbox (`server/audiencechat.go`, `vessica.go`) | sessions, a transcript, a pulse timer | join, say, tell the stage | Audience |
| observability (`server/observability.go`, `collab/observability.go`) | a bounded queue, a table | record, flush, compute the dashboard | Observability |
| editor sessions (`server/editor_session.go`, `editor_transform.go`) | a session with a lock and an expiry | edit, snapshot, restore, transform | EditorSession |
| bundles, build, scaffold, storage, command line | little or none | layout, conversions, provisioning | see section 7 |

**How they interact.**  Everything meets in the content projection.  Handlers,
replacements, syncs and branches exclude each other with the content lock (a file
lock, released by the kernel when a process dies).  A Cloud sync releases it while
it waits for the service.  Some actors do not take it: the Git worker, the agent
worker when it rewrites markers or returns the files of a sandbox, transfers and
refreshed links, changes of a deck's visibility, generated pictures.  Handlers notify
the Git worker through a generation counter and a channel of one slot, open pages
through channels of eight, and the dashboard through a channel of 2048.  The agent
works in a copy that is merged back like a second writer.  The database and the
files of a deck are changed one after the other, with no common transaction.

**Hard behaviours, and what makes each component correct.**

* *Content transaction.*  A process dies between two files; the recovery dies too
  and runs again over its own work; a write fails.  Correct: a reader that starts
  after recovery never sees a mixture; each pending journal is resolved.
* *Merge.*  Two separate merges (the children and their order, two files of a slide)
  must agree; priorities are exchanged by swapping sides.  Correct: independent
  edits, moves, appends and deletions survive; files stay paired; what cannot be
  kept is reported.
* *Cloud sync.*  Edits during the request; an answer lost and the operation retried
  after others moved the head; a crash between replacing the content and recording
  its revision.  Correct: local work is never reverted in its own studio and always
  checkpointed before it is replaced; a base never goes back; studios converge.
* *Git sync.*  Saves and other people's pushes between any two Git commands; lost
  wake-ups; conflicts; restarts.  Correct: "synced" is true; nothing is taken off the
  branch; saves reach it or the status says why not.
* *Agent worker, its scope and sandboxes.*  A candidate list that is stale when used;
  unlocked read-modify-writes of a companion; notes left during a pass; a second writer
  in the same repository; deadlines and dispatchers that die.  Correct: a note is kept
  until it is resolved, and handled or flagged; a marker never hides a slide for ever;
  a pass commits nothing outside its scope and goes on with nothing outside changed; a
  sandbox's result replaces whole files it was computed from, and the sandbox ends.
* *Team and access.*  Single statements interleaved with two transactions; sessions,
  links and handoffs that outlive what they were made from.  Correct: a removed member
  is signed in nowhere and comes back only by an invitation; every deck has one owner,
  active; people see and edit what they may.
* *Decks and the catalogue.*  A record and a directory made in steps; a memory and a
  file.  Correct: what was created is there, whole and listed; no directory is without a
  record; the visibility in the file is the one in the table; folders stay whole, and
  what was answered is saved.
* *Pages, order, transfers, exports.*  A base loaded before an event was subscribed to; a
  position that arrives out of order; one file of several failing; a picture rendered
  after its fingerprint.  Correct: an answered edit stays unless a newer one replaces
  it; pages are told; a transfer is there whole or not at all; an export shows the deck.
* *Stage.*  Webhooks before the call is registered; five ways for a call to end; messages
  written by handlers in parallel; a brief cleared while a model is writing it.  Correct: a
  call ends once and completely; no word is lost; a cleared brief stays clear.
* *Cloud commands.*  A credential that is rotated and not saved; a lost answer to a creation
  or a publication; a file named by a hash the other side does not have.  Correct: the
  saved credential works; one presentation per creation; what is published was checked to
  be what is here; what arrives is whole.

The complete list of hazards, each at its line, is in `PROJECT.json`.

## 2. Modules

| module | what it is |
|---|---|
| `AtomicContent` | the promise: the content changes by one save, or as a whole |
| `ContentTransaction` | the journal that implements it |
| `ContentTransactionProofs` | the theorems about it |
| `ReconcileOps` | the merge algorithms as operators |
| `OrderMerge`, `ElementMerge`, `SectionMerge`, `SnapshotMerge` | the inputs of a merge of an order, an HTML element, a companion, a snapshot, and what each must preserve |
| `Reconcile` | one merge of any of the four kinds, as a system |
| `ReconcileProofs` | the theorems about them |
| `CloudSync` | several studios on one Cloud workspace; uses `ReconcileOps` |
| `ContentSync` | the hosted Git worker |
| `AgentQueue` | the agent worker and the presenters who leave notes |
| `Team`, `Access` | members, sessions and ownership; who sees and edits which deck |
| `DeckFiles`, `Catalogue` | decks as record and directory; folders |
| `LiveEdit`, `Follow` | open pages and their reload events; the audience's position |
| `SlideOrder`, `SlideTransfer`, `SlideLinks`, `ExportCache` | the slides of a deck: their order, copies, links, pictures |
| `AgentScope`, `Sandbox` | the guard around a pass; a pass in a remote sandbox |
| `MediaLibrary` | pictures, videos and the manifest they share |
| `Calls`, `Brief`, `Audience` | the stage: phone calls, meeting brief, what the audience says |
| `ContentSyncProofs`, `CloudSyncProofs`, `AgentQueueProofs` | the theorems about these three |
| `Observability` | recorded events and the dashboard |
| `CloudSession`, `CloudRelease`, `CloudTransfer`, `EditorSession` | what commands and the Cloud exchange |
| `Studio` | the twenty-one modules from `Team` on beside each other, for one run |
| `StageProofs`, `CloudProofs`, `StudioProofs` | the theorems about these twenty-one and about `Studio` |
| `MC*` | instances for TLC |

### ContentTransaction

`content` is the projection on disk (a function from paths to contents),
`journal` the journal file: absent, torn (created and not whole) or whole, with
the content before and the paths that are to be written.  `phase`, `target`,
`removing` and `writing` are the memory of the process that holds the lock, and
are lost by `Crash`.  The actions follow the code: `BeginTransaction` (up to the
exclusive creation of the journal), `WriteJournal`, one `RemoveStale` and one
`WriteIncoming` per file, `Commit`; `StartRecover`, `RecoverRemove`,
`RecoverWrite`, `FinishRecover`; and the failures `JournalFails`, `ApplyFails`
(the deferred recovery), `RecoverFails`, `Crash`.  `EngineSave` is any handler of a
running server: it takes the lock but does not look at the journal.

`visible` is what a reader gets once a whole journal is rolled back.  With it the
module implements `AtomicContent` (`AtomicReplacement`).

Abstracted: bytes and modes of a file are one value; the temporary file and rename
behind each write make it one step; validation is the set `Valid`.  A power loss
that loses writes not yet flushed is not modelled; directory flushes have no effect.

### ReconcileOps and its users

`StableKeys`, `MergeOrder` (patience sorting and re-insertion), `MergeFields`,
`Section`, `MergeSections`, `Sides`, `MergeFile` are the functions of
`merge.go`; `ElementMerge` adds the recursion of `mergeValue` on HTML (`MergeElement` on an element, `MergeObject`
on its children, `MergeFields` on the properties of a child both writers have); `SnapshotMerge` adds `Merge` itself with slide pairs (`Contested`), the
order of the slides and the list of alternatives.  A key is a model value or a
small number, an object is a function from properties (attributes, styles, text) to values, the content of a
slide file is a model value, a line of a companion is a model value
that may be a heading.  These modules have no variables: each gives a set of inputs and the
relation its merge must have to them.  `Reconcile` chooses a kind, a base and two versions (`Init`), merges
(`MergeOrders` and its like), and states the relations as invariants.  Identities of objects (`identity.go`) and HTML text
(`normalize.go`) are given.

### CloudSync

Per studio: `local` (one property only its user edits, per device, and a log all
append to), `base`, `checkpoints`, and `sync`, the sync in progress; for the Cloud:
`revs` and `ops`, the answers given to operations.  `BeginSync` checkpoints and
releases the lock; `AnswerRead`/`AnswerSubmit` are the service (external: modelled from
what the client sends and expects: an operation already done is answered as then);
`ApplyAnswer` merges what was edited meanwhile and replaces the content;
`SaveAssociation` records the base.  `FailSync` loses a request, an answer or the
process; `FailSave` is a crash between replacing and recording.  That replacing is
atomic is the theorem of `ContentTransaction`.

### ContentSync

A version is the set of changes it includes.  `work`, `head`, `fetched`, `remote` are
the worktree, HEAD, FETCH_HEAD and the branch; `generation`, `state`, `wake`,
`timer`, `phase` the worker's.  One action per Git command of `syncOnce`, each of which
may fail (`CommandFails`; a failing push may have arrived), and handlers and other
people act in between.  `Die` and `Bootstrap` are a restart.

### AgentQueue

`companion` has, per slide, the marker, the open notes, the notes on hold for an
image, and the resolved ones.  `sweep` is the set of candidates not yet worked off, taken in the order of the deck (`First`);
`used` the runs of the last hour, `pass` the goroutine of each slide with what it has
read.  Presenters leave notes in one step (`LeaveNote`) or with other steps between
reading the section and replacing it (`ReadSection`, `PutSection`); likewise the
worker's markers (`Mark`, or `ReadMark` and `WriteMark`) and the merge of a branch
(`Finish`, or `Finish` and `Replace`).  `stale` records that something read was
written back over a change.

### Team, Access

The tables `status`, `invites`, `sessions`, `players`, `resets`, `handoffs`, `owned` of
`collab/store.go`.  A statement is an action; a request that checks before it inserts is two
(`CheckInvitee`, `InsertInvitation`; `CheckPassword`, `CreateSession`; `BeginCreateDeck`,
`InsertDeck`), and so are the two transactions (`BeginRemoveMember`, `RemoveMember`; `BeginResetPassword`,
`ResetPassword`): the rows found by their statements are changed when they commit, and a row inserted in
between is marked `raced`.  `epoch` counts what should have ended the sessions of a member.

`Access` takes the members as given and looks at a deck and its viewers.  `seats` are the player
sessions, opened for one deck in one mode and looked at again with each request (`CanView`, `CanEdit`);
`qrs` and `cookies` are signed links and what a browser has of them (`ShareDeck`, `ShareQR`, `LandOnShare`,
`FollowLanding`, `ShareExpires`); decks are hidden (`ShowTo`) and change hands (`HandOver`), the
server restarts (`Reboot`).  An edit is checked (`AskEdit`) before it waits for the lock (`MakeEdit`).

### DeckFiles, Catalogue

A deck is a `dir` and a `row`.  Creating and forking go from the choice of the key over directory, `deck.yaml`,
the other files and record (`CheckDirectory`, `MakeDirectory`, `WriteMeta`, `WriteFiles`, `CreateDeck`).  A failing
write of `deck.yaml`, a failing copy and a failing record are reported and (but for the first two) rolled back
(`WriteFails`); a failing write of the other files of a new deck is not looked at, and the deck is created without
them.  Changing the visibility is a statement and a rewritten file (`SetVisibility`, `DeckByID`,
`SyncDeckVisibilityFile`), answered "ok" whether or not the record could be read back and the file written.
`unwritten` notes what such an unreported failure left out.  The owner's sign-in and a start of the server adopt
directories without a record.

The catalogue is kept in a file and in memory (`stored = "file"`: change, then `Save`, which may fail) or in
tables (`stored = "database"`: `Check`, then `Write`, whose constraints may refuse).

### LiveEdit, Follow

A `page` shows what it loaded and has a channel of `events`; it is opened before it subscribes.  A save
is `BeginSave` (reads the slide under the lock, merges with the base or compares its hash) and
`WriteFragment`; `AgentWrites` takes no lock; `Watch` is the scan for changed files.  A value is
the number of its edit, so that `answered` knows which edit should be there; `overrun` and `missed` record
the known ways to lose one.  `Follow` numbers the presenter's moves; relays arrive in any order or not at all,
`SetPresenting` keeps the newest, `Announce` happens after the unlock, and `Join` registers and reads the
position under one lock.

### SlideOrder, SlideTransfer, SlideLinks, ExportCache

`SlideOrder`: the order is computed from the names of the files and `deck.yaml` (`SlideIDs`), which is
read, truncated and filled by moves and by changes of the visibility; the agent adds and removes files.
`SlideTransfer`: a token that is good once, the choice of ids, then for each slide the attachment, which is written in
place unless it is there, and the staged files, which are renamed, one by one (`Promote`), and the roll-back.  An
attachment whose writing fails, or dies, is not among what the roll-back removes: `cut` says that the one in the deck
is cut off, and later transfers leave it as they find it.  `SlideLinks`: three files with versions; a refresh reads the source,
stages, and renames (`WriteFile`), while the source is edited or its access withdrawn, and the slide
is detached and edited.  `ExportCache`: a rendering is the content it was made of; an export takes
fingerprints, renders the ones missing, stores them and the manifest, and delivers what is stored, while slides
are changed and parked.  `mixed` records a picture stored under the fingerprint of another content.

### AgentScope, Sandbox

`AgentScope`: who wrote each path of the worktree last, what is committed and pushed.  A pass notes what
is modified (`RunPass`); what comes back from the agent (`ExecuteAgent`), in place or through its branch, which lets
`studio.yaml`, `.gitignore` and the themes through beside the decks, are any paths, inside the scope or not.
`EnforceScope` reverts what is new outside (again after the critic of the sources), each path with an error that nobody
looks at; `GitPush` commits what is inside, and `EndPush` ends a pass that only tells the content sync.  People
edit on disk at any time, but for an isolated workspace, which is nobody's but the pass's; `raced` are
the paths they changed during a pass, `unreverted` those a guard could not revert.
`Sandbox`: the dispatcher collects and hashes the deck, creates, runs and destroys the sandbox; the server's
deadline interrupts and then kills it; the result is checked file by file (`CheckChange`), then written
(`WriteChange`), while people save and other passes write.

### MediaLibrary, Calls, Brief, Audience, Observability

`MediaLibrary`: three kinds of workers read the manifest (`ReadManifest`; a read that fails may give an empty one), two
of them with a wait in between, and write it whole, by cutting the file off and filling it (`CutManifest`,
`SaveManifest`), which may be interrupted (`whole`) or overlap (`clashing`).  A picture request is paid
(`AskProvider`), its bytes kept, registered and archived; what fails after the payment (`Fail`) is archived by the
server, and left by a command to be taken and paid again.  A clip's bytes are copied, and those they replace removed
(`DropClip`) before the manifest is saved.  `Calls`: the states of
a call's line, media connection and model session, each of which may end it; `endCall` marks the call and takes it
out of the table (`Ended`), then closes the stream and the session there are at that moment (`CloseStream`,
`CloseSession`).  A stream that starts is looked up in the table and bound under two locks (`FindCall`, `StartMedia`).  `Brief`: each conversation is posted with the generation and revision its page has
seen; the model answers later, and the answer is saved if generation and revision are still these.
`Audience`: the file is read, truncated and written under a mutex (`LockInbox`, `ReadInbox`, `TruncateInbox`,
`WriteInbox`), a write may fail without anybody noticing (`LoseWords`), the pulse counts, is fired by a timer, and
broadcast after the mutex is released (`BroadcastPulse`) to a stage whose channel may be full; the server may stop in
the middle.  `Observability`: the
bounded queue, the batch of the recorder (`TakeEvent`, `TickFlush`), a statement that fails or whose answer is
lost, and the two reads of the dashboard with inserts in between.

### CloudSession, CloudRelease, CloudTransfer, EditorSession

`CloudSession`: a credential is the session and its number; the service honours the newest and ends a session
that is renewed with an older one (external: from what the client expects).  `CloudRelease`: the journal of a
creation (operation id and digest), the upload, the association, the removal of the journal; then publication with
its two readings of the association and the lookup after a lost answer.  `CloudTransfer`: a message names files the
other side has by hash, and is resolved against what is known.  `EditorSession`: requests of a gateway take the
session's lock; edits write several files, snapshots read them one by one; a session expires.

### Studio

Puts these twenty-one modules beside each other: `part` is the one that moves, the others rest in their
initial state.  They share no state in the model: each models what it needs of the files and tables, and
what is shared, the content projection, is the matter of `ContentTransaction`, `CloudSync` and
`ContentSync`.  One run of the sum of their state spaces then asks the same as twenty-one runs, where the
product would be out of reach and show nothing new.

## 3. Runs

| run | question | instance | distinct states, time |
|---|---|---|---|
| `content_transaction` | Is the replacement atomic, and every whole journal resolved? | `studio.yaml` and one slide pair, 2 contents, 2 faults | 6.6 thousand, 2 s |
| `content_torn` (violation) | Can every journal left behind be recovered from? | the same, 1 fault | |
| `reconcile` | Do the merges keep what they must? | see below | 847 thousand, 1 min |
| `element_human` (violation) | Do human edits take precedence over an agent's? | 3 children, 2 properties with 2 values each | |
| `cloud_sync` | Is a user's edit ever reverted in the own studio; are only own edits submitted; do studios converge? | 2 studios, 3 edits, a log line, 1 lost message | 989 thousand, 90 s |
| `cloud_retries` | Is everything replaced checkpointed; can a replayed operation move a base back? | 2 studios, undone edits, human and agent writers, 1 lost message, 1 crash before recording | 2.2 million, 50 s |
| `cloud_unsaved` (violation) | Is an interrupted pull undone? | 2 studios, 3 edits, 1 crash | |
| `content_sync` | Is "synced" true; does the branch only grow; do saves get there, or show as stuck? | 2 saves, 2 changes elsewhere, one conflicting pair, 1 failing command, 1 restart | 80 thousand, 15 s |
| `content_restart` (violation) | Are commits kept over a restart? | no conflicts, 1 restart | |
| `agent_queue` | Are notes kept and handled; do markers outlive their pass? | 2 slides, a note and one on hold, 2 passes, cap 1, 1 split, 1 restart | 36 thousand, 20 s |
| `agent_holds` (violation) | Does a slide on hold wait for its image? | 2 slides, 2 notes, one needs an image | |
| `studio` | Do the parts around the content keep their promises? | see below | 1.7 million, 3 min |

**What `studio` shows.**  One invariant per group of parts; each conjunct is a property of its module.

| property | parts | what it says |
|---|---|---|
| `TeamKept`, `RejoinNeedsInvitation` | Team, Access | sessions end with what entitled to them; decks of removed members have an active owner; a removed member needs a new invitation; a deck is seen by those it is shown to and edited by its owner |
| `DeckFilesKept` | DeckFiles | who was told a deck is created has it and nothing of another, listed, and whole but for the files whose failing write nobody looked at; no whole deck is orphaned; `deck.yaml` has the visibility of the table unless it could not be written |
| `CatalogueKept` | Catalogue | no two folders have one name (so there is one Trash), decks lie in folders there are; memory and file agree |
| `PagesKept` | LiveEdit, Follow | an answered edit stays until a newer one; an old page is going to be told; a member who read all sees the position |
| `SlidesKept` | SlideOrder, SlideTransfer, SlideLinks, ExportCache | every slide is shown once, moves stay; a transfer is all or nothing, but for an attachment that a failing write cut off; a linked slide is what its link says; an export shows the deck |
| `SandboxKept` | AgentScope, Sandbox | passes commit nothing outside, do not go on with what their agent did outside unless it was modified before or could not be reverted, and revert nothing a person had done before; results replace only unchanged files, all or none; sandboxes end |
| `LibraryKept` | MediaLibrary | announced pictures stay listed; what is listed has its bytes, or is being replaced; a request is paid once; up to overlaps, unreadable manifests and what fails or dies half-way (`excused`) |
| `StageKept` | Calls, Audience | a call is reported once and leaves no connection but one that was being set up as it ended; the file has every word since the last write that failed or died; the stage is told of each once, or misses it with a full channel |
| `BriefKept` | Brief | nothing from before a clear comes back; nothing answered since is missing |
| `EventsKept` | Observability | an event is stored, dropped and counted, or on its way; stored once; the dashboard agrees with itself |
| `CloudKept` | CloudSession, CloudRelease, CloudTransfer, EditorSession | the stored credential works; one presentation per creation; what was published was checked; files arrive whole; a snapshot is of whole edits |

Most of these hold up to a documented race: a history variable (`raced`, `taken`, `unwritten`, `overrun`, `missed`,
`clashed`, `crossed`, `cut`, `mixed`, `unreverted`, `excused`, `late`, `lost` ...) is set by exactly the interleaving or failure that breaks the
property, and the property says which.  Those interleavings are in the model and happen in the run; they are
listed in section 6.

**Why the bounds are enough.**  *Content transaction:* three paths make removal,
rewriting and a pair that must stay whole happen in one replacement, and two faults
interrupt a replacement and then its recovery; the theorem removes the bounds.
*Reconcile:* orders of up to four distinct keys in every order on both sides (an inversion,
an insertion behind a moved or deleted key and a longest run that is not unique need
three or four); three children that are objects of two properties, so that both writers may change one
object; documents of up to three lines with
two headings, with and without lines before the first heading; decks of up to two slides
listed in any order or none, with every deletion and change of a file.  Bases are taken
up to the naming of keys and contents, of which the algorithms only test equality.
*CloudSync:* three edits allow one before, one during and one after a sync whose answer is
lost; two studios are the interplay of one studio with "the others".  *ContentSync:* two saves
and two foreign changes let one race arrive while another is being resolved, and one pair
conflicts.  *AgentQueue:* two slides compete for a slot and for the cap; one split lets any
single read-modify-write overlap with any other steps.  The same properties were also checked
with three notes and either no restart or no cleared errors (about 0.3 million states each),
beyond the time a regular run should take.

*Studio:* two actors wherever the code has several (pages, members of an audience, transfers, refreshers, passes,
speakers, commands, gateways; three conversations, as a brief takes two to lose one), so that any two requests overlap at
any step; one guest of the team with two invitations and two sessions, and two people with two decks in `Access`,
so that a link to one is tried on the other; one key of a directory, which is what two creations must share to collide;
two folders and the Trash; three slides to order; channels of one and two instead of eight, and a queue of two instead of
2048, so that they are full; caps (calls, chats) of one and two, so that they are reached; one fault of each kind
(`MaxFaults`, `MaxLosses`, `MaxInterrupts`, `MaxStops`, `MaxOutages`; the two in the middle count failing writes too), enough as these parts, unlike the
journalled replacement, have no recovery that could fail in turn; two edits where an edit must be overtaken by another.

**Bounds named in the modules:** `MaxFaults`, `MaxEdits`, `MaxUnsaved`, `MaxRestarts`,
`MaxSplits`, `MaxClears`, `MaxCrashes`, and the constants `Max...` of the modules of `studio` (each
has its comment).  Two constants rule out behaviour on purpose: `Undo = FALSE` in `cloud_sync` and
`Stuck = {}` in `agent_queue`; section 6 says what they hide.

**Deadlock** is checked except where the system may stop: `Reconcile` makes
one merge, a server with uncommitted saves refuses to start again (`ContentSync`), and in `Studio` a
part comes to rest when nobody asks for anything more.

## 4. Fairness

* `ContentTransaction`, `CloudSync`: `vstd serve` starts a sync every two seconds
  (`cmd/vstd/main.go:578-594`), and each sync starts with the recovery; a running process
  goes on; a request is answered or times out.  Hence weak fairness of the steps, and
  none of edits, faults or crashes.
* `ContentSync`: the worker goroutine waits on a poll ticker and the debounce timer, and
  every Git command ends or fails; weak fairness of its next step, and none of saves
  or pushes.  `Notify` follows a save when the handler returns and is not fair: the
  properties speak of notified saves.
* `AgentQueue`: the loop wakes every 15 seconds, each pass has a deadline
  (`agentPassTimeout`), an hour passes, and a server that died is started again.  Nobody has
  to leave a note, clear an error or produce an image.
* `Studio` states none: its properties are safety properties.  "A page is going to be told" and "the stage was told or
  will be" are stated as what is pending (a reload in the channel, a timer that is set).

The liveness properties are `PendingJournalResolved`, `Convergence`, `SavesArePushed`,
`StuckIsShown`, `NoteIsHandled`.

## 5. Theorems

Every invariant and every action property a run checks is a theorem, for all values of the constants
that their `ASSUME`s allow; so are the refinement `AtomicReplacement` and the inductive invariants on the way.  The
assumptions say that bounds are natural numbers (positive ones where the first version, content or credential
is counted by the bound), that sets of unlike things do not overlap, and which sets are finite
(speakers, conversations, slides of a deck); the ones that say more are named below.

**How the proofs go.**  For each part there is an inductive invariant `XInv`, a lemma that it holds at first (`XStart`), one
lemma per action or group of actions that it is kept, and `XStep`, which puts these together; the theorem follows
by the temporal rule.  Nearly none of the properties is inductive itself: each invariant adds what a process in the
middle of a request knows (what it has read is still so, or the history variable says it is not).

**`ContentTransactionProofs`**: any paths, contents and valid projections, any number of faults.

* `Invariance`: `Spec => []IInv`, where

      IInv == TypeOK /\ JournalPhase /\ ApplyProgress /\ RecoverProgress

  `JournalPhase` says which journal may be there in which phase.  It is not enough for
  atomicity: when the journal is removed nothing puts the files right any more, so that
  one must know that they *are* right then.  `ApplyProgress` and `RecoverProgress` say
  so for every file already handled, while the others are covered by the journal.
* `TypeCorrect`: `Spec => []TypeOK`.
* `Atomicity`: `Spec => AtomicReplacement`, the refinement of `AtomicContent` by `visible`.  Most
  steps leave `visible` alone because the path they write is rolled back by the journal
  (`CoveredPath`) or not touched by it (`UncoveredPath`); writing the journal because rolling
  back at once restores what is there (`FreshRollback`); `Commit` is the atomic `Replace`;
  a save is the atomic `Save`, or invisible.

**`ReconcileProofs`**: orders, elements, documents and snapshots of any size, all nine properties of the run `reconcile`.
The assumptions are that orders name a key once (`OrdersAssumption`), that an element's order names its children
(`ChildrenAssumption`, `AncestorAssumption`), that a heading comes once in a document and is no text
(`DocsAssumption`, `LineAssumption`), and that a snapshot has every path, slides in pairs (`SnapshotAssumption`).
The loops of the code are folds, and the library's induction theorems cannot be used on them (they take an operator as a
parameter); so a fold is turned into a function from the number of rounds to what has been computed (`LoopExists`,
`FoldExists`, `FoldIsLoop`), and a loop invariant is proved by looking at the first round that breaks it
(`LeastNumber` from the library's `WFMin`, `CountUp`).

* `MovesAreMinimal` (`MinimumMoves`): the invariant `Piles` of patience sorting says what ranks, tails and predecessors are
  after each key; the chain read back from the last pile is in the same order on both sides (`IsChain`, `ChainFacts`); it
  is a longest one as two keys of a set in the same order never lie in one pile, so that the set injects into the piles.
* `KeysAreKept`, `MovesAreKept` (`ExactKeys`, `MovesSurvive`): `RoundInv` follows the re-insertion of the moved keys one by one: what
  is not yet moved keeps its order, and each moved key is right behind (`Behind`) the key it is to follow.
* `IndependentEditsAreKept`, `DeletionsAreNotUndone` (`EditsAreRendered`, `DeletionsSurvive`): a child is rendered where it has both a place
  and a content; `ExactKeys` for the order and `ObjectMerged` for the contents (property by property where both writers
  have the object) agree on every child.
* `AppendsAreNotLost`, `SectionsAreIndependent` (`AppendsSurvive`, `SectionsIndependent`): reading a document line by line is a loop whose
  invariant says which section it is in (`ReadRounds`, `Reads`); a section that was written is read back as it was
  (`Block`, `BlockRead`), so that each section of the merged file is what its own three versions merge to (`SectionsWritten`).
* `PairsAreKept`, `PreferenceIsSymmetric` (`SnapshotsMerge`, `PreferenceSymmetry`): path by path, with the pairs contested as a whole.

**`CloudSyncProofs`**: any studios, lines and writers, any number of edits, losses and crashes (`SyncAssumption`).

    CloudInv == CloudShape /\ (\A d : SnapshotKept(d) /\ AnswerCurrent(d)) /\ AnswersFollowBases

* `SyncTypes`: `Spec => []TypeOK`.
* `ReplacedIsCheckpointed`: `Spec => ReplacedContentIsCheckpointed`.  `SnapshotKept` carries the checkpoint from the
  start of the sync over the released lock to the replacement.
* `BaseIsMonotone`: `Spec => BaseNeverGoesBack`.  A repeated operation may be answered with an old revision;
  it is not older than the base because the operation names the base and was answered with a revision at least that new
  (`AnswersFollowBases`).  Were the base left out of the operation's hash, this would fail.
* `OwnEditsSubmitted`, `LastEditShown`: `SubmitsOwnEditsOnly`, `LocalShowsLastEdit`, where `Undo = FALSE` and writers are human, as in the run
  (section 6 has the counterexamples otherwise).  `EditsInv` and `ShownInv` say of a property only one user edits that the base,
  what is in flight and what is checkpointed are values that user gave it, in the order of the edits.

**`ContentSyncProofs`**: any saves, changes elsewhere and conflicts, any number of failing commands and restarts
(`ChangeAssumption`, `BoundAssumption`), from `SyncInv == TypeOK /\ PassProgress /\ SyncedMeansPushed`.

* `SyncTypeCorrect`, `SyncedIsPushed`: `Spec => []TypeOK`, `Spec => []SyncedMeansPushed`.  The status is
  set at the end of a pass, when what was notified has long been committed and pushed; `PassProgress`
  follows it there: notified saves are in the worktree, and, if nothing was notified since the pass
  began, in HEAD from the commit on and on the branch from the push on.
* `BranchOnlyGrows`: `Spec => RemoteOnlyGrows`.  It needs no invariant: the worker pushes without `--force`, and the branch
  takes fast-forwards only.

**`AgentQueueProofs`**: any deck, notes, limits and number of restarts (`NoteAssumption`, `OrderAssumption`: a deck has finitely many slides).

* `QueueTypes`: `Spec => []TypeOK`.
* `QueuedNotesKept`, `MarkersOwned`: `Spec => []NotesKept`, `Spec => []MarkerHasOwner`.  The invariant `QueueInv` says,
  as long as nothing that was read was written back over a change (`~stale`), what a pass carries from step to step
  (`PassFits`): a merge that has all notes of what it was computed from (`MergeKeeps`), and no marker when it ends.

**The parts of `Studio`.**  `StageProofs` (Team, Access, DeckFiles, LiveEdit, Follow, Calls, Audience, Brief, Observability),
`CloudProofs` (CloudSession, CloudRelease, CloudTransfer, EditorSession) and `StudioProofs` (the others, and `Studio`
itself).  A step of `Studio` is a step of one part, and all others rest (`WorkMoves`, `StageMoves`, `CloudMoves`), so that
`StudioSpec` implies the specification of each part, and the invariants of `Studio` follow from the parts' theorems.

| theorem | property | what the inductive invariants add |
|---|---|---|
| `TeamIsKept`, `RejoinIsInvited` | `TeamKept`, `RejoinNeedsInvitation` | `TeamInv`: a person has at most one pending invitation, and one that is not `raced` is for no member and newer than the last removal; a check still holds when the row is inserted.  `MemberInv`: rows a transaction has not seen are raced; their epoch is the member's.  `AccessInv`: links are the owner's |
| `DeckFilesAreKept` | `DeckFilesKept` | `DeckInv`: for each key that nobody else took, which maker has made how much of directory, files and record, and what the file says |
| `CatalogueIsKept` | `CatalogueKept` | `CatalogueInv`: memory and file each are whole; a checked request never names the Trash |
| `PagesAreKept` | `PagesKept` | `LiveInv`: what a page shows, its draft and its save are no newer than the file, and an old page has an event coming; `FollowInv`: the last event in a channel is the position, unless overtaken |
| `SlidesAreKept` | `SlidesKept` | `OrderInv`: what a writer has read or computed is the order agreed on; `TransferInv`: who is running has its own paths, and an attachment that is cut off is of a transfer that failed; `LinkInv`: a staged refresh is a version seen under a grant; `ExportInv`: pictures are of their fingerprint |
| `SandboxIsKept` | `SandboxKept` | `ScopeInv`: what people changed was there before each pass, or counts as raced; `SandboxInv`: a checked file is the one the result was made from |
| `StudioLibraryIsKept` | `LibraryKept` | `LibraryInv`: what a worker has read is the manifest, but for what it is known to have missed; who replaces bytes has kept the new ones |
| `StageIsKept` | `StageKept`, `BriefKept` | `CallsInv`: which connections a call has at each step, and which of them `endCall` still has to close; `AudienceInv`: the file is in the hands of who holds the mutex; `BriefInv`: an update that still fits has read the text it replaces |
| `EventsAreKept` | `EventsKept` | `ObsInv`: an event is at one place on its way (`UnderWay`), stored under its key once (`RowsKept`), and the dashboard's two reads agree (`BoardKept`) |
| `CloudIsKept` | `CloudKept` | `SessionInv`: who holds the lock has read what is stored; `ReleaseInv`: the journal's operation is the one drawn last; `ExchangeInv`: a message stands for the files it was made of; `EditorInv`: a gateway that reads has whole edits |
| `StudioTypes` | `StudioTypeOK` | what the invariants above leave out of the types: `RemovalsBounded`, `SeatsTyped`, `CatalogueBounded` and so on, each kept with its part's invariant; the versions, queues and counters stay within the bounds |

DeckFiles assumes that no user is called `"nobody"`, which stands for the owner of a record that has none; `CloudTransferAssumption` that a reference by hash
is not a file's content, as the two have different fields in the message.

**Only model-checked**: the liveness properties (`PendingJournalResolved`, `Convergence`, `SavesArePushed`, `StuckIsShown`,
`NoteIsHandled`), as fairness and `ENABLED` are outside the prover; and the five counterexamples of section 6.

## 6. Findings

Five places where the program does not do what its documents or comments say; each has
a run whose counterexample shows it.  `PROJECT.json` quotes the texts.

1. `content_torn`: the journal is created under its final name and then written.  A crash in
   between leaves a file every later sync and every start of the engine refuses.
2. `element_human`: an agent deletes an object a human edits.  The human's content is kept,
   but the agent's deletion of its key from the order is kept too, and only ordered
   objects are rendered.
3. `cloud_unsaved`: the journal is removed before the new base revision is recorded.  After a
   crash in between the pulled changes are submitted as the user's own.
4. `content_restart`: a restart resets the worktree to the branch and drops commits not yet pushed.
5. `agent_holds`: an image request made by the agent stays in its worktree, because `requests/` is
   not part of the projection that is merged back.  A slide put on hold is taken again at
   once, and each time uses up a run of the hourly cap.

Known limits without a run of their own:

* A running server saves while a journal is pending; the recovery then overwrites saves to paths
  of the journal.  (`EngineSave` is enabled; the save is invisible to `AtomicContent`.)
* `vstd cloud workspace recover` does not take the content lock; not modelled.
* An edit that is undone after its answer was lost is not an edit any more, and the lost
  answer's revision brings the undone value back (`LocalShowsLastEdit` fails with `Undo = TRUE`).
  It fails also for a studio that announces itself as an agent: its edits yield to the head.
* Repeated merges from one base can duplicate or drop a log line; `AppendsSurvive` is about one merge.
* A companion without lines before its first heading that gains some on one side only: the merge
  of the other documents is not compared there (`PrefaceAdded`).
* A slide edited while its deck is deleted makes a merged snapshot that does not validate; the
  sync then fails until somebody resolves it.
* A save after the commit makes the worktree dirty, and a rebase is refused until the next pass.
* A read-modify-write of a companion that overlaps with another write loses a note or brings back
  a marker that hides the slide until a restart: `NotesKept` and `MarkerHasOwner` hold
  only until `stale`.
* A slide listed while its pass is about to flag it is taken again and its error line removed.
* A note on hold whose image never becomes usable (`Stuck`) makes its slide a candidate at every
  sweep without ever being flagged, and can take every run from the slides behind it:
  `NoteIsHandled` fails with `Stuck = {n2}`.

Known limits of the parts in `studio`.  Most are interleavings or failures that the model reaches: they are
recorded in the history variables named, and the property holds up to them; the others were met while
modelling.  None contradicts a text of the repository except where one is quoted.

* *Team* (`raced`).  A session, a player session or a deck inserted between the statements of a removal (or of a
  password reset) and its commit survives it: `server/collaboration.go:755` says "Removing a member transfers their
  presentations to the workspace owner".  Removal revokes no handoffs and no resets; a reset does not ask whether the member
  is active.  Two overlapping invitations can leave one open for somebody who is a member.
  A resent invitation is revoked first, and nothing replaces it if the insertion is refused.
* *Access* (`meant`, `overtaken`).  A stream of events goes on after the access it was opened with ended
  (`handleEvents` looks once; not modelled).  A second, shorter link (or the 24 hours of the follow
  entrance) replaces the cookie of a longer one.  An edit that waits for the content lock is made although the deck has
  changed hands.  Without a configured secret, links end with a restart.
* *DeckFiles* (`taken`, `raced`, `unwritten`).  The errors of writing a new deck's style sheet, cover and companion are
  dropped (`scaffold.go:72-79`), so that a deck answered as created may lack them; a change of visibility is answered "ok"
  when the record cannot be read back (`collaboration.go:528`) or `deck.yaml` not be written (`:855`), where it may be
  left cut off; a fork that is cut short after its copy says its source's visibility.  Of two creations with the same key the loser's clean-up deletes the winner's
  files (`collaboration.go:500`); a sign-in of the owner between files and record adopts the directory for the owner;
  a fork whose copying failed and whose clean-up did not happen is adopted as a deck at the next start.
* *Catalogue* (`unsaved`).  A refused order leaves the positions it has already moved in memory, and the next change saves
  them (`local.go:236-246`); a save that fails leaves the memory ahead of the file.
* *LiveEdit* (`overrun`, `missed`).  A save between the loading of a page and its subscription, or into a full channel, is not
  announced to it.  A save without a base overwrites what it never saw.  The agent writes without the lock.
* *Follow* (`outrun`).  Announcements are made after the unlock (`follow.go:40`) and may arrive in the other order.
* *SlideOrder* (`clashed`).  `syncDeckVisibilityFile` (`collaboration.go:849`) rewrites `deck.yaml` without the content
  lock, and every write truncates first: overlapping with a move, either the order or the visibility is lost, and an
  empty file may be read and written back; a crash in between leaves it empty.
* *SlideTransfer* (`crossed`, `broken`).  Transfers are not under the content lock: two into one deck choose the same
  ids, and the roll-back of one removes files of the other; a crash leaves part of one.  `transfer.go:170` says that a
  transfer "removes anything it created if promotion fails", but an attachment whose write fails is noted as created only
  after the write (`:255-259`): what there is of it stays (`cut`), and the next transfer takes it as present (`:252-254`).
* *SlideLinks* (`disturbed`).  The link is written before the content; two refreshes overlap; a slide detached and edited during a
  refresh is overwritten and linked again.
* *ExportCache* (`mixed`).  The fingerprint is taken before the picture.
* *AgentScope* (`raced`, `unreverted`).  What the guard reverts in the root (`agent.go:818-849`) is not only what the agent
  brought there, in place or by its branch (`cloud_content.go:89-101`), but also what *people* changed during the pass.
  Its errors are ignored: a new directory is named by `git status` as one path, which `os.Remove` cannot remove, and
  stays; a `git status` that fails before the pass makes everything count as new, one that fails after it lets
  everything through.  A failed push waits for the next pass that commits; a commit takes in the half-done files of another pass.
* *Sandbox* (`raced`, `broken`).  A save between the check of a file and its renaming is overwritten; a rename that fails
  leaves part of a result; a killed dispatcher leaves the sandbox until its idle timeout.
* *MediaLibrary* (`excused`).  `GenerateAsset` loads the manifest (`oai.go:169`), waits up to twelve minutes, and
  saves that copy (`:246`).  The manifest is cut off and filled in place, and one that cannot be read counts as empty
  (`manifest.go:139-141`): the next registration then forgets the others; one that was cut off stops the library until
  somebody repairs it.  `Ingest` removes the replaced bytes, which another name may share, before it saves
  (`video.go:229-241`): if the save fails or dies, what is listed has no bytes.  A crash between payment and archive pays
  again, and so does `vstd` when an error follows the payment, as it leaves the request (`agent_image.go:68-71`).
* *Calls* (`late`).  The cap (`callbridge.go:18`) is looked at before the dial and exceeded by overlapping handlers.
  A hangup before the call is in the table is ignored until the duration cap.  The call of a stream is looked
  up and bound under two locks (`:282-291`), and a model session takes a while to open: what `endCall`, in between, does
  not see stays open.  `endCall` reads the session without the lock that guards it.
* *Audience* (`whole`, `missed`).  A place in the chat is never given back, not even when the greeting fails.  A write
  that fails is not noticed (`vessica.go:429`): its words are lost, and, like a crash between the truncation and the
  write, it may lose the history.  A stage whose channel is full misses a pulse (`server.go:114`).
* *Observability* (`forgotten`, `unsure`).  Nothing is flushed at a shutdown.  A timeout after the commit counts as dropped; one
  bad row fails its batch.  A list of the dashboard that is cut short by an error is shown as it is
  (`rows.Err()`, `collab/observability.go:343-353`; not modelled).  The dashboard's two reads are not in one transaction.
* *CloudRelease* (`collided`, `excused`).  Two overlapping creations make two presentations; a torn journal blocks further ones;
  `publish` reads the association twice, and a sync in between changes what is published.
* *CloudSession* (`lost`).  A rotated credential whose answer or whose save is lost ends the session.

## 7. Not modelled, and why

Layout and conversion (build, PDF, PowerPoint, charts, bundles), provisioning and storage (one command after the other, or
files written apart and renamed), prompts, and argument parsing have no control state of their own.
Of the relays to external services only those with state are modelled (calls, the brief, pictures, chat);
search, code, display, tasks, the knowledge base and the contact form pass on one request.

Within modelled components:

* content and merge: the assignment of object identities (`identity.go`) and the normalization of HTML text
  (`normalize.go`), checks on single values, objects inside objects (the same recursion once more); `Connect`, `Disconnect` and the retention of checkpoints; worktrees made by hand;
* Git sync: a `ReconcileDecks` that fails after the push (`content_sync.go:333-337`), which shows an error for a pass that
  has pushed: the status is more pessimistic than the branch, never less;
* agent: one-shot sweeps, the change of the cap at runtime; in `AgentQueue` the critic of the sources (it is in
  `AgentScope`), a second run of the agent on a slide with attachments, with the marker, the merge and the flag of the first;
* team: the audit trail, password hashing, expiry of sessions, hosts and origins, the order of recently opened decks;
* slides: the comparison of a fork with its parent, the formatting of companions;
* media: transcoding, avatars, attachments;
* Cloud: versions and limits that are negotiated, keyrings, platforms without a file lock.

Git, GitHub, PostgreSQL, the Cloud service, the carrier, the sandboxes' and the models' providers are external: they do what the
code sends them and expects of them, in any order and with the failures the code handles.

## 8. Plan

Done, in this order: ContentTransaction with its abstraction and proofs; the merge; CloudSync on top
of it; ContentSync; AgentQueue; then the parts around the content, from the team to the Cloud commands, in
`Studio`; the theorems about ContentSync, AgentQueue, CloudSync and the parts; and those about the merge.

Left, most important first:

1. **Liveness of the parts**: a sandbox ends, a pulse is told, a batch is written, under the timers the code sets.
2. **The rest of CloudSync** (connect, clone, the retention of checkpoints) and of AgentQueue (one-shot sweeps).
3. **`LastEditShown` with agents**: what a studio that announces itself as an agent is promised instead.
4. **Refinement between modules**: that `ContentSync` and `CloudSync` may take a replacement of the content for one step is
   argued from `Atomicity`, not proved of a composed module.
