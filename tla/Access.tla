--------------------------------- MODULE Access ---------------------------------
(***************************************************************************)
(* Who sees and edits the decks of a hosted team (internal/server/auth.go, *)
(* server.go, collaboration.go; internal/collab/store.go).  A player       *)
(* session was opened for one deck in one mode, and is looked at again     *)
(* with every request; a signed link opens its deck to whoever has it;     *)
(* meanwhile the owner shows or hides the deck, removed members' decks     *)
(* change hands, links expire and the server restarts.  An edit is checked *)
(* before it waits for the content lock.                                   *)
(***************************************************************************)
EXTENDS Naturals, Sequences

CONSTANTS Person,      \* active members of the team
          Talk,        \* decks
          FollowTalk,  \* follow_deck of studio.yaml
          MaxShares,   \* bound: links made
          MaxChanges   \* bound: decks shown, hidden or handed over

ASSUME AccessAssumption ==
  /\ FollowTalk \in Talk /\ 0 \notin Talk
  /\ {MaxShares, MaxChanges} \subseteq Nat

VARIABLES configured,  \* whether the links' secret is configured, or made at each start
          rooms,       \* of each deck: its owner, and to whom it is shown
          seats,       \* of each person: the player session in the browser
          qrs,         \* links: for which deck, and whether they are still good
          cookies,     \* of each person and deck: the link followed last, or 0
          writers,     \* of each person: the edit that waits for the content lock
          changes

accessVars == <<configured, rooms, seats, qrs, cookies, writers, changes>>

NoSeat == [talk |-> 0, mode |-> "none"]
NotWriting == [talk |-> 0, overtaken |-> FALSE]

AccessInit ==
  /\ configured \in BOOLEAN
  /\ \E first \in Person : rooms = [t \in Talk |-> [owner |-> first, shown |-> "private"]]
  /\ seats = [p \in Person |-> NoSeat]
  /\ qrs = <<>>
  /\ cookies = [p \in Person |-> [t \in Talk |-> 0]]
  /\ writers = [p \in Person |-> NotWriting]
  /\ changes = 0

\* Store.Can, of a mode, which is also the action it is launched for.
Can(p, t, mode) ==
  \/ rooms[t].owner = p
  \/ rooms[t].shown = "team" /\ mode \in {"view", "present"}

\* playerSessionForDeck: the session is for that deck and may still have its mode.
Seated(p, t, modes) ==
  /\ seats[p].talk = t /\ seats[p].mode \in modes
  /\ Can(p, t, seats[p].mode)

--------------------------------------------------------------------------------
\* Links.

\* Mutant of ShareValid: the signature does not cover the deck.
MutantShareValid(t, i) == qrs[i].live

\* The signature covers the deck and the time, and is made with the secret of now.
ShareValid(t, i) == qrs[i].talk = t /\ qrs[i].live

HasShare(p, t) == cookies[p][t] # 0 /\ ShareValid(t, cookies[p][t])

\* The ghost says whether the deck's owner made it, or its follow entrance.
MintShare(t, by) ==
  /\ Len(qrs) < MaxShares
  /\ qrs' = Append(qrs, [talk |-> t, live |-> TRUE,
                         meant |-> by = rooms[t].owner \/ t = FollowTalk])

SetShareCookie(p, t, i) == cookies' = [cookies EXCEPT ![p][t] = i]

\* handleMintShare: the owner, who edits.
ShareDeck(p, t) ==
  /\ Seated(p, t, {"edit"}) /\ rooms[t].owner = p
  /\ MintShare(t, p)
  /\ UNCHANGED <<configured, rooms, seats, cookies, writers, changes>>

\* handleShareQR: also the owner who presents.
ShareQR(p, t) ==
  /\ Seated(p, t, {"present", "edit"}) /\ rooms[t].owner = p
  /\ MintShare(t, p)
  /\ UNCHANGED <<configured, rooms, seats, cookies, writers, changes>>

\* handleShareLanding: the link is checked for the deck in the address.
LandOnShare(p, t, i) ==
  /\ ShareValid(t, i)
  /\ SetShareCookie(p, t, i)
  /\ UNCHANGED <<configured, rooms, seats, qrs, writers, changes>>

\* handleFollowLanding: anybody gets a link of their own for the follow deck.
FollowLanding(p) ==
  /\ MintShare(FollowTalk, p)
  /\ SetShareCookie(p, FollowTalk, Len(qrs) + 1)
  /\ UNCHANGED <<configured, rooms, seats, writers, changes>>

ShareExpires(i) ==
  /\ qrs[i].live
  /\ qrs' = [qrs EXCEPT ![i].live = FALSE]
  /\ UNCHANGED <<configured, rooms, seats, cookies, writers, changes>>

--------------------------------------------------------------------------------
\* Decks.

\* CreateHandoff and ExchangeHandoff (in one step: see Team).
Launch(p, t, mode) ==
  /\ Can(p, t, mode)
  /\ seats' = [seats EXCEPT ![p] = [talk |-> t, mode |-> mode]]
  /\ UNCHANGED <<configured, rooms, qrs, cookies, writers, changes>>

CountChange == changes < MaxChanges /\ changes' = changes + 1

\* Store.SetVisibility, by the owner.
ShowTo(t, whom) ==
  /\ CountChange
  /\ rooms' = [rooms EXCEPT ![t].shown = whom]
  /\ UNCHANGED <<configured, seats, qrs, cookies, writers>>

\* RemoveMember: the decks of the one who goes.
HandOver(t, q) ==
  /\ CountChange
  /\ rooms[t].owner # q
  /\ rooms' = [rooms EXCEPT ![t].owner = q]
  /\ writers' = [p \in Person |-> IF writers[p].talk = t
                                    THEN [writers[p] EXCEPT !.overtaken = TRUE]
                                    ELSE writers[p]]
  /\ UNCHANGED <<configured, seats, qrs, cookies>>

\* initAuth: sessions and cookies outlive the server, requests do not, and links do
\* unless their secret was made up when it started.
Reboot ==
  /\ qrs' = [i \in DOMAIN qrs |-> [qrs[i] EXCEPT !.live = @ /\ configured]]
  /\ writers' = [p \in Person |-> NotWriting]
  /\ UNCHANGED <<configured, rooms, seats, cookies, changes>>

--------------------------------------------------------------------------------
CanView(p, t) == Seated(p, t, {"view", "present", "edit"}) \/ HasShare(p, t)

\* Mutant of CanEdit: the session may be for another deck of its owner.
MutantCanEdit(p, t) ==
  \E s \in Talk : Seated(p, s, {"edit"}) /\ Can(p, s, "edit")

CanEdit(p, t) == Seated(p, t, {"edit"}) /\ Can(p, t, "edit")

\* editOnly: checked, and then the content lock is waited for ...
AskEdit(p, t) ==
  /\ writers[p] = NotWriting
  /\ CanEdit(p, t)
  /\ writers' = [writers EXCEPT ![p].talk = t]
  /\ UNCHANGED <<configured, rooms, seats, qrs, cookies, changes>>

\* ... and the edit made, whatever has changed.
MakeEdit(p) ==
  /\ writers[p] # NotWriting
  /\ writers' = [writers EXCEPT ![p] = NotWriting]
  /\ UNCHANGED <<configured, rooms, seats, qrs, cookies, changes>>

AccessNext ==
  \/ \E p \in Person, t \in Talk :
       \/ ShareDeck(p, t) \/ ShareQR(p, t) \/ HandOver(t, p) \/ AskEdit(p, t)
       \/ \E mode \in {"view", "present", "edit"} : Launch(p, t, mode)
       \/ \E i \in DOMAIN qrs : LandOnShare(p, t, i)
  \/ \E t \in Talk, whom \in {"private", "team"} : ShowTo(t, whom)
  \/ \E p \in Person : FollowLanding(p) \/ MakeEdit(p)
  \/ \E i \in DOMAIN qrs : ShareExpires(i)
  \/ Reboot

AccessSpec == AccessInit /\ [][AccessNext]_accessVars

--------------------------------------------------------------------------------
AccessTypeOK ==
  /\ rooms \in [Talk -> [owner : Person, shown : {"private", "team"}]]
  /\ seats \in [Person -> [talk : Talk \cup {0},
                           mode : {"none", "view", "present", "edit"}]]
  /\ qrs \in Seq([talk : Talk, live : BOOLEAN, meant : BOOLEAN])
  /\ cookies \in [Person -> [Talk -> 0 .. MaxShares]]
  /\ writers \in [Person -> [talk : Talk \cup {0}, overtaken : BOOLEAN]]

(***************************************************************************)
(* A deck that was hidden, or changed hands, is seen by nobody who only    *)
(* had it open: whoever sees it is its owner, or the team it is shown to,  *)
(* or has a link to this deck its owner made (or its follow entrance),     *)
(* that has not expired.                                                   *)
(***************************************************************************)
SeenByThoseItIsShownTo ==
  \A p \in Person, t \in Talk :
    CanView(p, t) =>
      \/ rooms[t].owner = p \/ rooms[t].shown = "team"
      \/ \E i \in DOMAIN qrs : /\ i = cookies[p][t]
                               /\ qrs[i].talk = t /\ qrs[i].live /\ qrs[i].meant

\* An edit is made by who owned the deck when it was asked for, and still does
\* unless the deck changed hands while the edit waited.
EditedByItsOwner ==
  \A p \in Person : \/ writers[p] = NotWriting \/ writers[p].overtaken
                    \/ rooms[writers[p].talk].owner = p
================================================================================
