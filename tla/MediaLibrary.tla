------------------------------ MODULE MediaLibrary ------------------------------
(***************************************************************************)
(* internal/library, oai.GenerateAsset, video.Ingest and the handlers that *)
(* use them: the manifest of images and videos is read, waited with and    *)
(* written whole, in place, by the server's request loop, by a command and *)
(* by the uploads; only uploads hold the content lock.  Picture requests   *)
(* are files, archived when the picture has been paid for and registered.  *)
(***************************************************************************)
EXTENDS Naturals, FiniteSets

CONSTANTS Wanted,        \* pictures requested
          Picture,       \* pictures uploaded (by hash)
          VideoId, Clip, \* names of videos, and their bytes (by hash)
          NoClip,
          OldClip,       \* the bytes the names share at first, if any
          Ingester,      \* bound: who takes videos in
          MaxIngests,    \* bound: videos taken in
          MaxInterrupts  \* bound: processes that die, and operations that fail

ASSUME MediaAssumption == /\ Wanted \cap Picture = {}
                          /\ (Clip \cup VideoId) \cap (Wanted \cup Picture) = {}
                          /\ NoClip \notin Clip \cup Wanted \cup VideoId
                          /\ OldClip \in Clip \cup {NoClip}
                          /\ Ingester \subseteq {"server", "command", "upload"}
                          /\ {MaxIngests, MaxInterrupts} \subseteq Nat

Worker == {"server", "command", "upload"}

VARIABLES manifest,   \* library/manifest.json, when it was last whole
          whole,      \* whether that file can be parsed
          media,      \* the files with their bytes
          queued,     \* requests not archived
          paid,       \* pictures the provider was asked for, of each request
          job,        \* what each worker does
          ingests, interrupts,
          announced,  \* images the user was told are in the library
          excused     \* history: what an overlapping registration, one that failed or
                      \* one that died may have undone

mediaVars ==
  <<manifest, whole, media, queued, paid, job, ingests, interrupts, announced, excused>>

Empty == [images |-> {}, videos |-> [v \in VideoId |-> NoClip]]
NoJob == [at |-> "idle", item |-> NoClip, clip |-> NoClip, seen |-> Empty, missed |-> {}]

MediaInit ==
  /\ manifest = [Empty EXCEPT !.videos = [v \in VideoId |-> OldClip]] /\ whole = TRUE
  /\ media = {OldClip} \ {NoClip}
  /\ queued = Wanted
  /\ paid = [q \in Wanted |-> 0]
  /\ job = [a \in Worker |-> NoJob]
  /\ ingests = 0 /\ interrupts = 0 /\ announced = {} /\ excused = {}

At(a, phases) == job[a].at \in phases
Free(a) == [job EXCEPT ![a] = NoJob]
Move(a, phase) == [job EXCEPT ![a].at = phase]

Fault == interrupts < MaxInterrupts /\ interrupts' = interrupts + 1

\* The names that are not in this manifest what they are in the file.
Differing(m) ==
  {q \in Wanted \cup Picture : (q \in m.images) # (q \in manifest.images)} \cup
  {v \in VideoId : m.videos[v] # manifest.videos[v]}

\* Load: a manifest that cannot be parsed is an error (its callers do not get here), one
\* that cannot be read is taken for an empty one.
ReadManifest(a, item, clip, phase) ==
  \/ /\ job' = [job EXCEPT ![a] = [at |-> phase, item |-> item, clip |-> clip,
                                   seen |-> manifest, missed |-> {}]]
     /\ UNCHANGED interrupts
  \/ /\ Fault
     /\ job' = [job EXCEPT ![a] = [at |-> phase, item |-> item, clip |-> clip,
                                   seen |-> Empty, missed |-> Differing(Empty)]]

\* Others who have read the manifest miss what changes with this one, and who has cut
\* the file off to write it does not know what is in it.
Missing(jobs, a, m) ==
  [b \in Worker |->
     IF b # a /\ At(b, {"loaded", "drawn", "kept", "ready", "dropped", "saving", "clashing"})
       THEN [jobs[b] EXCEPT !.missed = @ \cup Differing(m),
                            !.at = IF @ = "saving" THEN "clashing" ELSE @]
       ELSE jobs[b]]

--------------------------------------------------------------------------------
\* GenerateAsset, for a request: processRequests, ProcessSelectedImage.

\* The server archives a request when that fails; a command leaves it.
TakeRequest(a, q) ==
  /\ a # "upload" /\ At(a, {"idle"}) /\ q \in queued
  /\ \/ /\ whole
        /\ ReadManifest(a, q, NoClip, "loaded")
        /\ excused' = IF \E b \in Worker : job[b].item = q THEN excused \cup {q} ELSE excused
        /\ UNCHANGED queued
     \/ /\ ~whole /\ a = "server"
        /\ queued' = queued \ {q}
        /\ UNCHANGED <<job, excused, interrupts>>
  /\ UNCHANGED <<manifest, whole, media, paid, ingests, announced>>

\* The provider draws, or refuses: the server archives the request, the command ends.
AskProvider(a) ==
  /\ At(a, {"loaded"}) /\ job[a].item \in Wanted
  /\ \/ /\ job' = Move(a, "drawn")
        /\ paid' = [paid EXCEPT ![job[a].item] = @ + 1]
        /\ UNCHANGED queued
     \/ /\ job' = Free(a)
        /\ queued' = IF a = "server" THEN queued \ {job[a].item} ELSE queued
        /\ UNCHANGED paid
  /\ UNCHANGED <<manifest, whole, media, ingests, interrupts, announced, excused>>

(***************************************************************************)
(* What was drawn or taken in cannot be decoded, kept or registered.  The  *)
(* server archives the request, and may fail to; a command leaves it to be *)
(* taken, and paid, again.  The manifest is left as it is, cut off.        *)
(***************************************************************************)
Fail(a) ==
  /\ At(a, {"drawn", "dropped", "saving", "clashing"}) /\ Fault
  /\ job' = Free(a)
  /\ whole' \in IF At(a, {"clashing"}) THEN BOOLEAN ELSE {whole}
  /\ \/ /\ a = "server" /\ job[a].item \in queued
        /\ queued' = queued \ {job[a].item} /\ UNCHANGED excused
     \/ excused' = excused \cup {job[a].item} /\ UNCHANGED queued
  /\ UNCHANGED <<manifest, media, paid, ingests, announced>>

--------------------------------------------------------------------------------
\* handleImageUpload: known bytes are not registered again.

ReceivePicture(h) ==
  /\ At("upload", {"idle"}) /\ whole
  /\ \/ /\ h \in manifest.images
        /\ announced' = announced \cup {h}
        /\ UNCHANGED <<job, interrupts>>
     \/ /\ ReadManifest("upload", h, NoClip, "drawn")
        /\ h \notin job'["upload"].seen.images
        /\ UNCHANGED announced
  /\ UNCHANGED <<manifest, whole, media, queued, paid, ingests, excused>>

\* The end of GenerateAsset and of handleImageUpload.
KeepPicture(a) ==
  /\ At(a, {"drawn"})
  /\ media' = media \cup {job[a].item}
  /\ job' = Move(a, "kept")
  /\ UNCHANGED <<manifest, whole, queued, paid, ingests, interrupts, announced, excused>>

\* Manifest.Save: os.WriteFile cuts the file off ...
CutManifest(a) ==
  /\ At(a, {"kept", "dropped"})
  /\ whole' = FALSE
  /\ job' = Move(a, "saving")
  /\ UNCHANGED <<manifest, media, queued, paid, ingests, interrupts, announced, excused>>

\* Mutant of WithItem: the manifest is made anew.
MutantWithItem(a) ==
  IF job[a].clip = NoClip THEN [Empty EXCEPT !.images = {job[a].item}]
                          ELSE [Empty EXCEPT !.videos[job[a].item] = job[a].clip]

WithItem(a) ==
  IF job[a].clip = NoClip THEN [job[a].seen EXCEPT !.images = @ \cup {job[a].item}]
                          ELSE [job[a].seen EXCEPT !.videos[job[a].item] = job[a].clip]

\* ... and fills it: what its writer missed is gone; over what another has written
\* meanwhile, the rest of that may remain.
SaveManifest(a) ==
  /\ At(a, {"saving", "clashing"})
  /\ manifest' = WithItem(a)
  /\ whole' \in IF At(a, {"clashing"}) THEN BOOLEAN ELSE {TRUE}
  /\ excused' = excused \cup job[a].missed
  /\ LET asked == a # "upload" /\ job[a].clip = NoClip
         next == IF asked THEN [NoJob EXCEPT !.at = "archive", !.item = job[a].item] ELSE NoJob
     IN  job' = Missing([job EXCEPT ![a] = next], a, WithItem(a))
  /\ announced' = IF a = "upload" /\ job[a].clip = NoClip
                    THEN announced \cup {job[a].item} ELSE announced
  /\ UNCHANGED <<media, queued, paid, ingests, interrupts>>

\* Mutant of ArchiveRequest: the request stays in the queue.
MutantArchiveRequest(a) ==
  /\ At(a, {"archive"})
  /\ announced' = announced \cup {job[a].item}
  /\ job' = Free(a)
  /\ UNCHANGED <<manifest, whole, media, queued, paid, ingests, interrupts, excused>>

\* archiveRequest: an error of the renaming is ignored.
ArchiveRequest(a) ==
  /\ At(a, {"archive"})
  /\ \/ queued' = queued \ {job[a].item} /\ UNCHANGED <<excused, interrupts>>
     \/ excused' = excused \cup {job[a].item} /\ Fault /\ UNCHANGED queued
  /\ announced' = announced \cup {job[a].item}
  /\ job' = Free(a)
  /\ UNCHANGED <<manifest, whole, media, paid, ingests>>

--------------------------------------------------------------------------------
\* video.Ingest: a request, the command or an upload.

\* The names of these bytes, but for this one, and those other workers have for them.
OtherNames(a, v, c) ==
  {w \in VideoId \ {v} : manifest.videos[w] = c} \cup
  {job[b].item : b \in {b \in Worker \ {a} : job[b].clip = c}}

\* copyFile: a copy that fails leaves what the file had cut off.
KeepClip(a, v, c) ==
  /\ At(a, {"idle"}) /\ a \in Ingester /\ ingests < MaxIngests
  /\ ingests' = ingests + 1
  /\ \/ /\ media' = media \cup {c}
        /\ job' = [job EXCEPT ![a] = [NoJob EXCEPT !.at = "clip", !.item = v, !.clip = c]]
        /\ UNCHANGED <<excused, interrupts>>
     \/ /\ Fault
        /\ media' = media \ {c} /\ excused' = excused \cup OtherNames(a, NoClip, c)
        /\ UNCHANGED job
  /\ UNCHANGED <<manifest, whole, queued, paid, announced>>

LoadManifest(a) ==
  /\ At(a, {"clip"})
  /\ \/ whole /\ ReadManifest(a, job[a].item, job[a].clip, "ready")
     \/ ~whole /\ job' = Free(a) /\ UNCHANGED interrupts
  /\ UNCHANGED <<manifest, whole, media, queued, paid, ingests, announced, excused>>

\* Mutant of DropClip: the old bytes are dropped even when they are the new ones.
MutantDropClip(a) ==
  /\ At(a, {"ready"})
  /\ media' = media \ {job[a].seen.videos[job[a].item]}
  /\ job' = Move(a, "dropped")
  /\ UNCHANGED <<manifest, whole, queued, paid, ingests, interrupts, announced, excused>>

(***************************************************************************)
(* The bytes the name had before are removed, and then the manifest is     *)
(* saved; another name may have the same bytes, or get them meanwhile      *)
(* (excused).                                                              *)
(***************************************************************************)
DropClip(a) ==
  /\ At(a, {"ready"})
  /\ LET v == job[a].item
         old == job[a].seen.videos[v]
     IN  IF old \in {NoClip, job[a].clip}
           THEN UNCHANGED <<media, excused>>
           ELSE media' = media \ {old} /\ excused' = excused \cup OtherNames(a, v, old)
  /\ job' = Move(a, "dropped")
  /\ UNCHANGED <<manifest, whole, queued, paid, ingests, interrupts, announced>>

--------------------------------------------------------------------------------
\* A process dies: the server with the uploads, or the command.
Interrupt(who) ==
  /\ \E a \in who : ~At(a, {"idle"})
  /\ Fault
  /\ job' = [a \in Worker |-> IF a \in who THEN NoJob ELSE job[a]]
  /\ whole' \in IF \E a \in who : At(a, {"clashing"}) THEN BOOLEAN ELSE {whole}
  /\ excused' = excused \cup {job[a].item :
       a \in {b \in who : At(b, {"drawn", "kept", "archive", "dropped", "saving", "clashing"})}}
  /\ UNCHANGED <<manifest, media, queued, paid, ingests, announced>>

MediaNext ==
  \/ \E h \in Picture : ReceivePicture(h)
  \/ \E a \in Worker :
       \/ \E q \in Wanted : TakeRequest(a, q)
       \/ \E v \in VideoId, c \in Clip : KeepClip(a, v, c)
       \/ AskProvider(a) \/ KeepPicture(a) \/ CutManifest(a) \/ SaveManifest(a)
       \/ ArchiveRequest(a) \/ LoadManifest(a) \/ DropClip(a) \/ Fail(a)
  \/ Interrupt({"server", "upload"}) \/ Interrupt({"command"})

MediaSpec == MediaInit /\ [][MediaNext]_mediaVars

--------------------------------------------------------------------------------
\* The name is about to be registered with the bytes this worker has kept.
Replacing(a, v) ==
  job[a].item = v /\ At(a, {"dropped", "saving", "clashing"})

(***************************************************************************)
(* An image a user was told is in the library stays in the manifest,       *)
(* unless a worker that had read the manifest before, or could not read    *)
(* it, wrote it after.  What the manifest lists has its bytes, unless they *)
(* are being replaced, the name shared them with one that was, or a        *)
(* replacement failed or died half-way.  (The manifest is the last one     *)
(* that was whole; one that was cut off is nobody's to repair.)            *)
(***************************************************************************)
RegistrationsStay ==
  /\ announced \subseteq manifest.images \cup excused
  /\ manifest.images \subseteq media
  /\ \A v \in VideoId \ excused :
       manifest.videos[v] \in media \cup {NoClip} \/ \E a \in Worker : Replacing(a, v)

(***************************************************************************)
(* A request is paid once, unless its process died, two processes took it, *)
(* or a command failed after it had paid.                                  *)
(***************************************************************************)
PaidOnce == \A q \in Wanted \ excused : paid[q] <= 1

MediaTypeOK ==
  /\ manifest.images \subseteq Wanted \cup Picture
  /\ manifest.videos \in [VideoId -> Clip \cup {NoClip}]
  /\ whole \in BOOLEAN
  /\ media \subseteq Wanted \cup Picture \cup Clip
  /\ queued \subseteq Wanted /\ paid \in [Wanted -> Nat]
  /\ ingests \in 0..MaxIngests /\ interrupts \in 0..MaxInterrupts
================================================================================
