------------------------------- MODULE SlideTransfer -------------------------------
(***************************************************************************)
(* Slides copied or linked into another deck: TransferSlides of            *)
(* internal/studio/transfer.go, asked for with a token that is good once   *)
(* (internal/server/transfer_intent.go).  A transfer chooses the ids of    *)
(* its slides, stages their files and renames them into place one by one,  *)
(* and writes the attachments where they belong; nothing keeps two         *)
(* transfers into one deck apart.  The slides share an attachment.         *)
(***************************************************************************)
EXTENDS Integers, Sequences, FiniteSetsExt

CONSTANTS Transfer,    \* requests
          Slug,        \* of the slides that are transferred
          MaxSlides    \* bound: slides in the target deck

ASSUME SlideTransferAssumption == MaxSlides \in Nat

VARIABLES token,      \* of each transfer: none, open, used, or lost
          work,       \* of each transfer: its progress
          files,      \* paths of the target deck, and the transfer each is of
          cut,        \* the attachment that is in the deck is cut off
          crossed,    \* ghost: transfers that overlapped with another
          broken      \* ghost: transfers a crash interrupted

transferVars == <<token, work, files, cut, crossed, broken>>

Waiting == [step |-> "waiting"]

SlideTransferInit ==
  /\ token = [t \in Transfer |-> "none"]
  /\ work = [t \in Transfer |-> Waiting]
  /\ files = <<>> /\ cut = FALSE
  /\ crossed = {} /\ broken = {}

Path(number, slug, ext) == [number |-> number, slug |-> slug, ext |-> ext]

\* The name is the hash of the content: the same for every slide that has it.
Attachment == Path(0, "attachment", "source")

Numbers == {path.number : path \in {f \in DOMAIN files : f.ext = "html"}}
MaxPrefix == IF Numbers = {} THEN 0 ELSE Max(Numbers)

\* nextTransferIDs, and what each slide brings, in order: a link has a file more.
Paths(batch, mode) ==
  [k \in 1 .. Len(batch) * Len(mode) |->
     LET slide == ((k - 1) \div Len(mode)) + 1
         ext == mode[((k - 1) % Len(mode)) + 1]
     IN  IF ext = "source" THEN Attachment ELSE Path(MaxPrefix + slide, batch[slide], ext)]

Copy == <<"source", "html", "md">>
Link == <<"source", "html", "md", "link">>

TransferRuns(t) == work[t].step = "running"

--------------------------------------------------------------------------------
CreateIntent(t) ==
  /\ token[t] = "none"
  /\ token' = [token EXCEPT ![t] = "open"]
  /\ UNCHANGED <<work, files, cut, crossed, broken>>

\* Taken out under the lock, by whoever presents it; after five minutes it is void.
Exchange(t) ==
  /\ token[t] = "open"
  /\ token' = [token EXCEPT ![t] = "lost"] \/ token' = [token EXCEPT ![t] = "used"]
  /\ UNCHANGED <<work, files, cut, crossed, broken>>

Begin(t) ==
  /\ token[t] = "used" /\ work[t] = Waiting
  /\ \E batch \in {<<s>> : s \in Slug} \cup (Slug \X Slug),
         mode \in {Copy, Link} :
       /\ \A i, j \in DOMAIN batch : batch[i] = batch[j] => i = j
       /\ MaxPrefix + Len(batch) <= MaxSlides
       /\ work' = [work EXCEPT ![t] = [step |-> "running", paths |-> Paths(batch, mode),
                                        made |-> {}, at |-> 1]]
  /\ crossed' = IF \E u \in Transfer : TransferRuns(u)
                  THEN crossed \cup {t} \cup {u \in Transfer : TransferRuns(u)} ELSE crossed
  /\ UNCHANGED <<token, files, cut, broken>>

\* Mutant of Made: an attachment that was there counts as made.
MutantMade(t, path) == work[t].made \cup {path}

\* An attachment that is there is left alone, and not removed afterwards.
Made(t, path) ==
  IF path = Attachment /\ path \in DOMAIN files
    THEN work[t].made ELSE work[t].made \cup {path}

\* The files with one more, or another, of t.
WithOne(from, path, t) == [f \in DOMAIN from \cup {path} |-> IF f = path THEN t ELSE from[f]]

\* An attachment is written, if it is not there; the other files are renamed into place,
\* which replaces whatever has the name.
Promote(t) ==
  /\ TransferRuns(t) /\ work[t].at <= Len(work[t].paths)
  /\ LET path == work[t].paths[work[t].at]
     IN  /\ files' = IF path = Attachment /\ path \in DOMAIN files
                       THEN files ELSE WithOne(files, path, t)
         /\ work' = [work EXCEPT ![t].made = Made(t, path), ![t].at = @ + 1]
  /\ UNCHANGED <<token, cut, crossed, broken>>

Finish(t) ==
  /\ TransferRuns(t) /\ work[t].at > Len(work[t].paths)
  /\ work' = [work EXCEPT ![t].step = "done"]
  /\ UNCHANGED <<token, files, cut, crossed, broken>>

\* Mutant of Rollback: the file that could not be placed is the only one missing.
MutantRollback(t) ==
  /\ TransferRuns(t)
  /\ work' = [work EXCEPT ![t].step = "failed"]
  /\ UNCHANGED <<token, files, cut, crossed, broken>>

\* The attachment is the next to be written.
Writes(t) ==
  /\ work[t].at <= Len(work[t].paths) /\ work[t].paths[work[t].at] = Attachment
  /\ Attachment \notin DOMAIN files

(***************************************************************************)
(* An attachment cannot be written, or a file not renamed: what was made   *)
(* is removed.  An attachment counts as made when it is written, so that   *)
(* what there is of one that could not be remains.                         *)
(***************************************************************************)
Rollback(t) ==
  LET left == [f \in DOMAIN files \ work[t].made |-> files[f]]
  IN  /\ TransferRuns(t)
      /\ \/ files' = left /\ cut' = cut
         \/ Writes(t) /\ files' = WithOne(left, Attachment, t) /\ cut' = TRUE
      /\ work' = [work EXCEPT ![t].step = "failed"]
      /\ UNCHANGED <<token, crossed, broken>>

\* Tokens live in memory; the files stay as they are, also one that is being written.
TransferCrash ==
  /\ \E t \in Transfer : TransferRuns(t)
  /\ \/ UNCHANGED <<files, cut>>
     \/ \E t \in Transfer : /\ TransferRuns(t) /\ Writes(t)
                            /\ files' = WithOne(files, Attachment, t) /\ cut' = TRUE
  /\ token' = [t \in Transfer |-> IF token[t] = "open" THEN "lost" ELSE token[t]]
  /\ broken' = broken \cup {t \in Transfer : TransferRuns(t)}
  /\ work' = [t \in Transfer |->
               IF TransferRuns(t) THEN [work[t] EXCEPT !.step = "failed"] ELSE work[t]]
  /\ crossed' = crossed

SlideTransferNext ==
  \/ \E t \in Transfer : \/ CreateIntent(t) \/ Exchange(t) \/ Begin(t)
                         \/ Promote(t) \/ Finish(t) \/ Rollback(t)
  \/ TransferCrash

SlideTransferSpec == SlideTransferInit /\ [][SlideTransferNext]_transferVars

--------------------------------------------------------------------------------
\* Types of the tokens, of the progress and of the files.
SlideTransferTypeOK ==
  /\ token \in [Transfer -> {"none", "open", "used", "lost"}]
  /\ \A t \in Transfer : work[t].step \in {"waiting", "running", "done", "failed"}
  /\ \A f \in DOMAIN files : files[f] \in Transfer /\ f.number \in 0 .. MaxSlides
  /\ crossed \cup broken \subseteq Transfer /\ cut \in BOOLEAN

(***************************************************************************)
(* A transfer is all or nothing: every file of one that was answered is in *)
(* the deck, and of one that failed none, also when the two share an       *)
(* attachment; but for an attachment that a failing write cut off, which   *)
(* stays, and which no transfer that was answered has written.  (Transfers *)
(* into one deck at the same time can take the same ids, and a crash       *)
(* leaves what was renamed.)                                               *)
(***************************************************************************)
TransferAllOrNothing ==
  /\ \A t \in Transfer \ (crossed \cup broken) :
       /\ work[t].step = "done" =>
            \A i \in DOMAIN work[t].paths :
              /\ work[t].paths[i] \in DOMAIN files
              /\ work[t].paths[i] # Attachment => files[work[t].paths[i]] = t
       /\ work[t].step = "failed" =>
            \A f \in DOMAIN files : files[f] = t => f = Attachment /\ cut
  /\ cut => Attachment \in DOMAIN files /\ work[files[Attachment]].step = "failed"
================================================================================
