------------------------------- MODULE CloudTransfer -------------------------------
(***************************************************************************)
(* internal/cloud, client.go and incremental.go: a synchronization sends   *)
(* and a download receives only the files the other side does not have,    *)
(* named by path and hash.  What a client can do is negotiated before each *)
(* request; answers are lost, and may not be what they say.  A file's      *)
(* content stands for its hash too, as no two contents share one.          *)
(***************************************************************************)
EXTENDS Naturals

CONSTANTS FilePath, Bytes,  \* files and their contents
          NoFile,           \* not among the contents
          Reference         \* an entry without content

ASSUME CloudTransferAssumption == Reference \notin Bytes \cup {NoFile}

VARIABLES captured,  \* the client's snapshot
          baseFiles, \* the base revision, as the service has it
          headFiles, \* the revision the service makes or has
          speaks,    \* capabilities of the service: "full" or "incremental"
          wire,      \* the message under way: none, request or answer
          rebuilt,   \* what the service made of the request
          accepted   \* what the client made of the answer

transferringVars == <<captured, baseFiles, headFiles, speaks, wire, rebuilt, accepted>>

Files == [FilePath -> Bytes \cup {NoFile}]
Nothing == [p \in FilePath |-> NoFile]
NoMessage == [kind |-> "none", hash |-> Nothing, content |-> Nothing]

CloudTransferInit ==
  /\ captured = Nothing /\ baseFiles = Nothing /\ headFiles = Nothing
  /\ speaks = "full" /\ wire = [NoMessage EXCEPT !.kind = "unset"]
  /\ rebuilt = Nothing /\ accepted = Nothing

\* The client takes its snapshot and asks what the service can do (negotiate).
Capture ==
  /\ wire.kind = "unset"
  /\ captured' \in Files /\ baseFiles' \in Files
  /\ speaks' \in {"full", "incremental"}
  /\ wire' = NoMessage
  /\ UNCHANGED <<headFiles, rebuilt, accepted>>

\* Mutant of TransferFiles: a file that is known is not sent, whatever is in it.
MutantTransferFiles(f, known) ==
  [hash |-> f, content |-> [p \in FilePath |->
     IF f[p] = NoFile THEN NoFile ELSE IF known[p] # NoFile THEN Reference ELSE f[p]]]

\* transferFiles: the content is left out when the other side has the same.
TransferFiles(f, known) ==
  [hash |-> f, content |-> [p \in FilePath |->
     IF f[p] = NoFile THEN NoFile ELSE IF known[p] = f[p] THEN Reference ELSE f[p]]]

\* A message as the other side completes it from what it has.
Completed(message, known) ==
  [p \in FilePath |->
     IF message.content[p] = Reference THEN known[p] ELSE message.content[p]]

\* Mutant of Resolvable: a reference needs a file, and no file is hashed.
MutantResolvable(message, known) ==
  \A p \in FilePath : message.content[p] = Reference => known[p] # NoFile

\* resolveTransfer: every reference is to a file of the client, every hash is right.
Resolvable(message, known) ==
  /\ \A p \in FilePath : message.content[p] = Reference => known[p] # NoFile
  /\ Completed(message, known) = message.hash

--------------------------------------------------------------------------------
\* Sync, after negotiate: the manifest of the base, then what is missing in it.
SendSync ==
  /\ wire.kind = "none"
  /\ LET m == IF speaks = "incremental" THEN TransferFiles(captured, baseFiles)
              ELSE TransferFiles(captured, Nothing)
     IN  wire' = [kind |-> "request", hash |-> m.hash, content |-> m.content]
  /\ UNCHANGED <<captured, baseFiles, headFiles, speaks, rebuilt, accepted>>

\* The service completes the request from the base, and merges it with its head.
ServeSync ==
  /\ wire.kind = "request"
  /\ rebuilt' = Completed(wire, baseFiles)
  /\ headFiles' \in {f \in Files : \A p \in FilePath : f[p] \in {rebuilt'[p], baseFiles[p]}}
  /\ wire' = [kind |-> "serve", hash |-> Nothing, content |-> Nothing]
  /\ UNCHANGED <<captured, baseFiles, speaks, accepted>>

\* RevisionCached or Revision: a download of a revision.
SendDownload ==
  /\ wire.kind = "none"
  /\ headFiles' \in Files
  /\ wire' = [kind |-> "serve", hash |-> Nothing, content |-> Nothing]
  /\ rebuilt' = Nothing
  /\ UNCHANGED <<captured, baseFiles, speaks, accepted>>

\* The answer, complete or by reference; at most one entry of it is not what it should
\* be: a content that is another, or a reference to what the client does not have.
Answer ==
  /\ wire.kind = "serve"
  /\ LET m == IF speaks = "incremental" THEN TransferFiles(headFiles, captured)
              ELSE TransferFiles(headFiles, Nothing)
     IN  \/ wire' = [kind |-> "answer", hash |-> m.hash, content |-> m.content]
         \/ /\ speaks = "incremental"
            /\ \E p \in FilePath, b \in Bytes \cup {Reference} :
                 wire' = [kind |-> "answer", hash |-> m.hash,
                          content |-> [m.content EXCEPT ![p] = b]]
  /\ UNCHANGED <<captured, baseFiles, headFiles, speaks, rebuilt, accepted>>

AcceptAnswer ==
  /\ wire.kind = "answer"
  /\ IF Resolvable(wire, captured) THEN accepted' = Completed(wire, captured)
                                   ELSE UNCHANGED accepted
  /\ wire' = [NoMessage EXCEPT !.kind = "done"]
  /\ UNCHANGED <<captured, baseFiles, headFiles, speaks, rebuilt>>

\* A message is lost, too long or not understood: the command fails.
LoseMessage ==
  /\ wire.kind \in {"request", "answer"}
  /\ wire' = [NoMessage EXCEPT !.kind = "done"]
  /\ UNCHANGED <<captured, baseFiles, headFiles, speaks, rebuilt, accepted>>

CloudTransferNext ==
  Capture \/ SendSync \/ ServeSync \/ SendDownload \/ Answer \/ AcceptAnswer \/ LoseMessage

CloudTransferSpec == CloudTransferInit /\ [][CloudTransferNext]_transferringVars

--------------------------------------------------------------------------------
(***************************************************************************)
(* What is sent by reference arrives whole: the service rebuilds exactly   *)
(* the client's snapshot, and the client takes exactly the revision the    *)
(* service meant, or nothing.                                              *)
(***************************************************************************)
TransfersAreWhole ==
  /\ rebuilt # Nothing => rebuilt = captured
  /\ accepted # Nothing => accepted = headFiles

CloudTransferTypeOK ==
  /\ captured \in Files /\ baseFiles \in Files /\ headFiles \in Files /\ accepted \in Files
  /\ wire.kind \in {"unset", "none", "request", "serve", "answer", "done"}
================================================================================
