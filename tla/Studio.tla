--------------------------------- MODULE Studio ---------------------------------
(***************************************************************************)
(* The parts of the program around the content, beside each other: the     *)
(* team and its decks, the catalogue, the editor's pages, exports, media,  *)
(* the agents' sandboxes, the stage and its audience, the dashboard, and   *)
(* the Cloud commands.  They keep no state together (what they do share,   *)
(* the files of the content, is the matter of ContentTransaction,          *)
(* CloudSync and ContentSync), so that a behaviour is the behaviour of one *)
(* part, and the others rest.                                              *)
(***************************************************************************)
EXTENDS Team, Access, DeckFiles, Catalogue, LiveEdit, Follow, SlideOrder, SlideTransfer,
        SlideLinks, ExportCache, AgentScope, Sandbox, MediaLibrary, Calls, Brief,
        Audience, Observability, CloudSession, CloudRelease, CloudTransfer, EditorSession

VARIABLE part    \* the one that moves

Parts == {"team", "access", "decks", "catalogue", "pages", "follow", "order", "transfer",
          "links", "export", "scope", "sandbox", "media", "calls", "brief", "audience",
          "events", "session", "release", "exchange", "editor"}

studioVars == <<part, teamVars, accessVars, deckVars, catalogueVars, liveVars, followVars,
                orderVars, transferVars, linkVars, exportVars, scopeVars, sandboxVars, mediaVars,
                callVars, briefVars, audienceVars, obsVars, sessionVars, releaseVars,
                transferringVars, editorVars>>

\* The parts that start in more than one way do so when it is their turn.
StudioInit ==
  /\ part \in Parts
  /\ TeamInit
  /\ AccessInit /\ (part # "access" => configured)
  /\ \A t \in Talk : rooms[t].owner = CHOOSE p \in Person : TRUE
  /\ DeckInit /\ (part # "decks" => hosted)
  /\ CatalogueInit /\ (part # "catalogue" => stored = "file")
  /\ LiveEditInit /\ FollowInit
  /\ SlideOrderInit /\ (part # "order" => deckYaml = Emptied /\ htmls = SlideNumber \ {1})
  /\ SlideTransferInit /\ SlideLinksInit
  /\ deckNow = [s \in Slide |-> CHOOSE c \in Content : TRUE] /\ ExportCacheInit
  /\ AgentScopeInit /\ (part # "scope" => ~isolated)
  /\ disk = [p \in Tree |-> IF p = CHOOSE q \in Tree : TRUE THEN Base ELSE None]
  /\ SandboxInit /\ MediaInit
  /\ CallsInit /\ BriefInit /\ AudienceInit /\ ObservabilityInit
  /\ CloudSessionInit /\ CloudReleaseInit /\ CloudTransferInit /\ EditorInit

StudioNext ==
  /\ UNCHANGED part
  /\ IF part = "catalogue" THEN CatalogueNext ELSE UNCHANGED catalogueVars
  /\ IF part = "pages" THEN LiveEditNext ELSE UNCHANGED liveVars
  /\ IF part = "follow" THEN FollowNext ELSE UNCHANGED followVars
  /\ IF part = "links" THEN SlideLinksNext ELSE UNCHANGED linkVars
  /\ IF part = "calls" THEN CallsNext ELSE UNCHANGED callVars
  /\ IF part = "brief" THEN BriefNext ELSE UNCHANGED briefVars
  /\ IF part = "audience" THEN AudienceNext ELSE UNCHANGED audienceVars
  /\ IF part = "events" THEN ObservabilityNext ELSE UNCHANGED obsVars
  /\ IF part = "session" THEN CloudSessionNext ELSE UNCHANGED sessionVars
  /\ IF part = "exchange" THEN CloudTransferNext ELSE UNCHANGED transferringVars
  /\ IF part = "editor" THEN EditorNext ELSE UNCHANGED editorVars
  /\ IF part = "order" THEN SlideOrderNext ELSE UNCHANGED orderVars
  /\ IF part = "export" THEN ExportCacheNext ELSE UNCHANGED exportVars
  /\ IF part = "sandbox" THEN SandboxNext ELSE UNCHANGED sandboxVars
  /\ IF part = "release" THEN CloudReleaseNext ELSE UNCHANGED releaseVars
  /\ IF part = "team" THEN TeamNext ELSE UNCHANGED teamVars
  /\ IF part = "transfer" THEN SlideTransferNext ELSE UNCHANGED transferVars
  /\ IF part = "scope" THEN AgentScopeNext ELSE UNCHANGED scopeVars
  /\ IF part = "access" THEN AccessNext ELSE UNCHANGED accessVars
  /\ IF part = "decks" THEN DeckNext ELSE UNCHANGED deckVars
  /\ IF part = "media" THEN MediaNext ELSE UNCHANGED mediaVars

StudioSpec == StudioInit /\ [][StudioNext]_studioVars

--------------------------------------------------------------------------------
\* The types of the part that moves (the others are as at first).
StudioTypeOK ==
  CASE part = "team"      -> TeamTypeOK
    [] part = "access"    -> AccessTypeOK
    [] part = "decks"     -> DeckTypeOK
    [] part = "catalogue" -> CatalogueTypeOK
    [] part = "pages"     -> LiveEditTypeOK
    [] part = "follow"    -> FollowTypeOK
    [] part = "order"     -> SlideOrderTypeOK
    [] part = "transfer"  -> SlideTransferTypeOK
    [] part = "links"     -> SlideLinksTypeOK
    [] part = "export"    -> ExportCacheTypeOK
    [] part = "scope"     -> AgentScopeTypeOK
    [] part = "sandbox"   -> SandboxTypeOK
    [] part = "media"     -> MediaTypeOK
    [] part = "calls"     -> CallsTypeOK
    [] part = "brief"     -> BriefTypeOK
    [] part = "audience"  -> AudienceTypeOK
    [] part = "events"    -> ObservabilityTypeOK
    [] part = "session"   -> CloudSessionTypeOK
    [] part = "release"   -> CloudReleaseTypeOK
    [] part = "exchange"  -> CloudTransferTypeOK
    [] part = "editor"    -> EditorTypeOK

\* The team (Team.tla): sessions end with what entitles to them, every deck has an
\* owner who can open it, and (Access.tla) is seen and edited by whom it is for.
TeamKept == SessionsEnd /\ DecksKept /\ SeenByThoseItIsShownTo /\ EditedByItsOwner

\* Creation and visibility (DeckFiles.tla): a deck that was created is there and in
\* the catalogue, whole but for files that could not be written, which the program does
\* not notice; its file says to whom it is shown, unless that could not be written.
DeckFilesKept == CreatedIsKept /\ NothingOrphaned /\ VisibilityInFile

\* The catalogue (Catalogue.tla), in the file and in the tables.
CatalogueKept == FoldersWhole /\ SavedIsKept

\* The pages of editors (LiveEdit.tla) and of the audience (Follow.tla) lose no
\* edit, and are told what they no longer show.
PagesKept == AnsweredEditsStay /\ PagesAreTold /\ AudienceSeesThePosition

\* Slides are shown in the order editors gave them (SlideOrder.tla); those from
\* other decks (SlideTransfer.tla, SlideLinks.tla) come whole or not at all, but for an
\* attachment that a failing write cut off, and are what their links say; exports
\* (ExportCache.tla) show the slides there are.
SlidesKept == /\ OrderKept
              /\ TransferAllOrNothing /\ SnapshotIsWhatTheLinkSays
              /\ ExportShowsTheDeck

\* The agent's passes commit nothing outside their scope, and do not go on with what
\* their agent did outside, but where it could not be told or not be reverted
\* (AgentScope.tla); its sandboxes (Sandbox.tla) replace whole, agreed results and end.
SandboxKept == ScopeIsKept /\ ResultsFitTheTree /\ SandboxesEnd

\* The library (MediaLibrary.tla) keeps what users added and paid for, but where work
\* overlapped, the manifest could not be read, or an operation failed or died half-way.
LibraryKept == RegistrationsStay /\ PaidOnce

\* The stage (Calls.tla, Audience.tla): calls end once, with all connections but those
\* being set up; the audience's words are kept unless a write failed or died, and the
\* stage is told of each once, or misses it with a full channel.
StageKept == CallsEndOnce /\ WordsAreSafe /\ StageIsTold

\* The dashboard (Observability.tla) counts every event, once, and agrees with
\* itself.
EventsKept == EventsAccounted /\ CountedOnce /\ BoardAgrees

\* The Cloud commands (CloudSession.tla, CloudRelease.tla, CloudTransfer.tla): the
\* credential works, what was created and published is what was here; and what an
\* editor session (EditorSession.tla) gives the Cloud is whole.
CloudKept == /\ CredentialHonoured
             /\ CreatedOnce /\ PublishedWhatWasThere
             /\ TransfersAreWhole
             /\ SnapshotsAreWhole /\ DeltasAreWhole
================================================================================
