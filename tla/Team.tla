---------------------------------- MODULE Team ----------------------------------
(***************************************************************************)
(* internal/collab/store.go: members, invitations, sessions, password      *)
(* resets, handoffs to the player, and who owns the decks.  A statement is *)
(* atomic; a transaction (RemoveMember, ResetPassword) changes the rows    *)
(* its statements found and is seen when it commits, and what others       *)
(* insert in between is not among those rows.  Requests check first and    *)
(* insert later.  The owner never leaves; expiry of sessions is left out.  *)
(***************************************************************************)
EXTENDS Naturals, Sequences

CONSTANTS Guest,         \* people the owner may invite
          Owner,
          MaxInvites,    \* bound: invitations made
          MaxSessions,   \* bound: sessions started
          MaxLaunches,   \* bound: handoffs, and resets, and decks made
          MaxRemovals    \* bound: removals of each person

ASSUME TeamAssumption ==
  /\ Owner \notin Guest
  /\ {MaxInvites, MaxSessions, MaxLaunches, MaxRemovals} \subseteq Nat

VARIABLES status,      \* of each guest: none, active, inactive
          epoch,       \* of each guest: changes of membership and password
          removals,    \* of each guest
          invites, sessions, resets, handoffs, players, owned,   \* the tables
          request,     \* of each guest: requests between check and insert (0: no login)
          tx           \* the transaction that has not committed

tables == <<invites, sessions, resets, handoffs, players, owned>>
teamVars == <<status, epoch, removals, tables, request, tx>>

NoTx == [kind |-> "none"]
Idle == [invite |-> "no", login |-> 0, create |-> "no"]

TeamInit ==
  /\ status = [u \in Guest |-> "none"]
  /\ epoch = [u \in Guest |-> 0] /\ removals = [u \in Guest |-> 0]
  /\ invites = <<>> /\ sessions = <<>> /\ resets = <<>>
  /\ handoffs = <<>> /\ players = <<>> /\ owned = <<>>
  /\ request = [u \in Guest |-> Idle]
  /\ tx = NoTx

Active(u) == status[u] = "active"

\* The row of the user is locked until the transaction ends.
Locked(u) == tx.kind # "none" /\ tx.user = u

\* Session, PlayerSession: joined with an active member.
Opens(row) == row.live /\ Active(row.user)

SetState(table, rows, state) ==
  [i \in DOMAIN table |->
     IF i \in rows THEN [table[i] EXCEPT !.state = state] ELSE table[i]]

Revoked(table, rows) ==
  [i \in DOMAIN table |-> IF i \in rows THEN [table[i] EXCEPT !.live = FALSE] ELSE table[i]]

--------------------------------------------------------------------------------
\* Invitations.

Pending(u) == {i \in DOMAIN invites : /\ invites[i].user = u
                                      /\ invites[i].state \in {"open", "expired"}}

\* CreateInvitation begins by looking for an active account.
MayInvite(u) == request[u].invite = "no" /\ Len(invites) < MaxInvites /\ ~Active(u)

\* Mutant of CheckInvitee: members are invited as well.
MutantCheckInvitee(u) ==
  /\ request[u].invite = "no" /\ Len(invites) < MaxInvites
  /\ request' = [request EXCEPT ![u].invite = "checked"]
  /\ UNCHANGED <<status, epoch, removals, tables, tx>>

CheckInvitee(u) ==
  /\ MayInvite(u)
  /\ request' = [request EXCEPT ![u].invite = "checked"]
  /\ UNCHANGED <<status, epoch, removals, tables, tx>>

(***************************************************************************)
(* Expired invitations are revoked first; the index vstd_open_invite_email *)
(* allows one that is neither accepted nor revoked, else the insert fails. *)
(***************************************************************************)
InsertInvitation(u) ==
  /\ request[u].invite # "no"
  /\ LET old == {i \in Pending(u) : invites[i].state = "expired"}
         new == [user |-> u, state |-> "open", after |-> removals[u],
                 raced |-> request[u].invite = "overtaken"]
     IN  invites' = IF Pending(u) = old THEN Append(SetState(invites, old, "revoked"), new)
                    ELSE SetState(invites, old, "revoked")
  /\ request' = [request EXCEPT ![u].invite = "no"]
  /\ UNCHANGED <<status, epoch, removals, sessions, resets, handoffs, players, owned, tx>>

\* One statement; what is accepted or revoked is not found.
Revoke(i) ==
  /\ invites[i].state \in {"open", "expired"}
  /\ invites' = SetState(invites, {i}, "revoked")

\* Also when the message cannot be sent (handleCreateInvitation).
RevokeInvitation(i) ==
  /\ Revoke(i)
  /\ UNCHANGED <<status, epoch, removals, sessions, resets, handoffs, players, owned,
                 request, tx>>

\* Revoked first; for an active account nothing is then made.
ResendInvitation(i) ==
  LET u == invites[i].user
  IN  /\ Revoke(i)
      /\ MayInvite(u) \/ Active(u)
      /\ request' = IF Active(u) THEN request
                    ELSE [request EXCEPT ![u].invite = "checked"]
      /\ UNCHANGED <<status, epoch, removals, sessions, resets, handoffs, players,
                     owned, tx>>

InvitationExpires(i) ==
  /\ invites[i].state = "open"
  /\ invites' = SetState(invites, {i}, "expired")
  /\ UNCHANGED <<status, epoch, removals, sessions, resets, handoffs, players, owned,
                 request, tx>>

\* One transaction; an active account rolls everything back.
Admit(i, u) ==
  /\ invites[i].state = "open"
  /\ ~Active(u) /\ ~Locked(u)
  /\ invites' = SetState(invites, {i}, "accepted")
  /\ status' = [status EXCEPT ![u] = "active"]
  /\ epoch' = [epoch EXCEPT ![u] = @ + 1]

\* The session is started afterwards.
AcceptInvitation(i) ==
  LET u == invites[i].user
  IN  /\ request[u].login = 0
      /\ Admit(i, u)
      /\ request' = [request EXCEPT ![u].login = epoch'[u],
                                    ![u].invite = IF @ = "checked" THEN "overtaken" ELSE @]
      /\ UNCHANGED <<removals, sessions, resets, handoffs, players, owned, tx>>

--------------------------------------------------------------------------------
\* Sessions.

CheckPassword(u) ==
  /\ Active(u) /\ request[u].login = 0
  /\ Len(sessions) < MaxSessions
  /\ request' = [request EXCEPT ![u].login = epoch[u]]
  /\ UNCHANGED <<status, epoch, removals, tables, tx>>

Row(u, since) == [user |-> u, live |-> TRUE, epoch |-> epoch[u],
                  raced |-> Locked(u) \/ since # epoch[u]]

\* The token is handed out only when the session it starts opens.
CreateSession(u) ==
  /\ request[u].login # 0
  /\ sessions' = IF Active(u) /\ Len(sessions) < MaxSessions
                   THEN Append(sessions, Row(u, request[u].login)) ELSE sessions
  /\ request' = [request EXCEPT ![u].login = 0]
  /\ UNCHANGED <<status, epoch, removals, invites, resets, handoffs, players, owned, tx>>

PlayersOf(u) == {p \in DOMAIN players : players[p].user = u /\ players[p].live}

Logout(s) ==
  /\ Opens(sessions[s]) /\ ~Locked(sessions[s].user)
  /\ sessions' = Revoked(sessions, {s})
  /\ players' = Revoked(players, PlayersOf(sessions[s].user))
  /\ UNCHANGED <<status, epoch, removals, invites, resets, handoffs, owned, request, tx>>

\* For a deck the whole team may see.
CreateHandoff(u) ==
  /\ Len(handoffs) < MaxLaunches
  /\ handoffs' = Append(handoffs, [user |-> u, state |-> "open", epoch |-> epoch[u]])

LaunchDeck(s) ==
  /\ Opens(sessions[s])
  /\ CreateHandoff(sessions[s].user)
  /\ UNCHANGED <<status, epoch, removals, invites, sessions, resets, players, owned,
                 request, tx>>

\* Used by one statement; the player session is for a member only.
ExchangeHandoff(h, u) ==
  /\ handoffs[h].state = "open"
  /\ handoffs' = SetState(handoffs, {h}, "used")
  /\ players' = IF Active(u) THEN Append(players, Row(u, handoffs[h].epoch)) ELSE players

OpenPlayer(h) ==
  /\ ExchangeHandoff(h, handoffs[h].user)
  /\ UNCHANGED <<status, epoch, removals, invites, sessions, resets, owned, request, tx>>

CreatePasswordReset(u) ==
  /\ Active(u)
  /\ Len(resets) < MaxLaunches
  /\ resets' = Append(resets, [user |-> u, state |-> "open"])

ForgotPassword(u) ==
  /\ CreatePasswordReset(u)
  /\ UNCHANGED <<status, epoch, removals, invites, sessions, handoffs, players, owned,
                 request, tx>>

\* A request of the account, accepted with a session; the record comes last.
BeginCreateDeck(s) ==
  /\ Opens(sessions[s]) /\ request[sessions[s].user].create = "no"
  /\ Len(owned) < MaxLaunches
  /\ request' = [request EXCEPT ![sessions[s].user].create = "checked"]
  /\ UNCHANGED <<status, epoch, removals, tables, tx>>

InsertDeck(u) ==
  /\ request[u].create = "checked"
  /\ owned' = Append(owned, [user |-> u, raced |-> ~Active(u) \/ Locked(u)])
  /\ request' = [request EXCEPT ![u].create = "no"]
  /\ UNCHANGED <<status, epoch, removals, invites, sessions, resets, handoffs, players,
                 tx>>

--------------------------------------------------------------------------------
\* Transactions.

SessionsOf(u) == {s \in DOMAIN sessions : sessions[s].user = u /\ sessions[s].live}

Found(kind, u) ==
  [kind |-> kind, user |-> u, sessions |-> SessionsOf(u), players |-> PlayersOf(u),
   decks |-> {d \in DOMAIN owned : owned[d].user = u},
   resets |-> {r \in DOMAIN resets : resets[r].user = u}]

BeginRemoveMember(u) ==
  /\ Active(u) /\ removals[u] < MaxRemovals
  /\ tx = NoTx /\ tx' = Found("remove", u)
  /\ UNCHANGED <<status, epoch, removals, tables, request>>

BeginResetPassword(r) ==
  /\ resets[r].state = "open"
  /\ tx = NoTx /\ tx' = Found("reset", resets[r].user)
  /\ UNCHANGED <<status, epoch, removals, tables, request>>

\* Mutant of EndSessions: the player sessions go on.
MutantEndSessions ==
  /\ sessions' = Revoked(sessions, tx.sessions)
  /\ UNCHANGED players
  /\ epoch' = [epoch EXCEPT ![tx.user] = @ + 1]

EndSessions ==
  /\ sessions' = Revoked(sessions, tx.sessions)
  /\ players' = Revoked(players, tx.players)
  /\ epoch' = [epoch EXCEPT ![tx.user] = @ + 1]

\* Mutant of Transferred: the decks keep their owner.
MutantTransferred == owned

Transferred ==
  [d \in DOMAIN owned |->
     IF d \in tx.decks THEN [owned[d] EXCEPT !.user = Owner] ELSE owned[d]]

RemoveMember ==
  /\ tx.kind = "remove"
  /\ EndSessions
  /\ status' = [status EXCEPT ![tx.user] = "inactive"]
  /\ removals' = [removals EXCEPT ![tx.user] = @ + 1]
  /\ owned' = Transferred
  /\ tx' = NoTx
  /\ UNCHANGED <<invites, resets, handoffs, request>>

\* It does not ask whether the account is active.
ResetPassword ==
  /\ tx.kind = "reset"
  /\ EndSessions
  /\ resets' = SetState(resets, tx.resets, "used")
  /\ tx' = NoTx
  /\ UNCHANGED <<status, removals, invites, handoffs, owned, request>>

TransactionFails ==
  /\ tx # NoTx
  /\ tx' = NoTx
  /\ UNCHANGED <<status, epoch, removals, tables, request>>

TeamNext ==
  \/ \E u \in Guest : \/ CheckInvitee(u) \/ InsertInvitation(u)
                      \/ CheckPassword(u) \/ CreateSession(u) \/ ForgotPassword(u)
                      \/ InsertDeck(u) \/ BeginRemoveMember(u)
  \/ \E i \in DOMAIN invites : \/ RevokeInvitation(i) \/ ResendInvitation(i)
                               \/ InvitationExpires(i) \/ AcceptInvitation(i)
  \/ \E s \in DOMAIN sessions : Logout(s) \/ LaunchDeck(s) \/ BeginCreateDeck(s)
  \/ \E h \in DOMAIN handoffs : OpenPlayer(h)
  \/ \E r \in DOMAIN resets : BeginResetPassword(r)
  \/ RemoveMember \/ ResetPassword \/ TransactionFails

TeamSpec == TeamInit /\ [][TeamNext]_teamVars

--------------------------------------------------------------------------------
RowType == [user : Guest, live : BOOLEAN, epoch : Nat, raced : BOOLEAN]

\* Types of the tables and of the requests between check and insert.
TeamTypeOK ==
  /\ status \in [Guest -> {"none", "active", "inactive"}]
  /\ epoch \in [Guest -> Nat] /\ removals \in [Guest -> 0 .. MaxRemovals]
  /\ invites \in Seq([user : Guest, state : {"open", "expired", "accepted", "revoked"},
                      after : Nat, raced : BOOLEAN])
  /\ sessions \in Seq(RowType) /\ players \in Seq(RowType)
  /\ resets \in Seq([user : Guest, state : {"open", "used"}])
  /\ handoffs \in Seq([user : Guest, state : {"open", "used"}, epoch : Nat])
  /\ owned \in Seq([user : Guest \cup {Owner}, raced : BOOLEAN])
  /\ request \in [Guest -> [invite : {"no", "checked", "overtaken"}, login : Nat,
                            create : {"no", "checked"}]]
  /\ tx.kind \in {"none", "remove", "reset"} /\ (tx # NoTx => tx.user \in Guest)

(***************************************************************************)
(* Whoever resets the password or is removed ends every session and player *)
(* session there is: none opens later, even for a member who came back.    *)
(* (Not for those that raced: checked before, or inserted before the       *)
(* commit, of the change that should have ended them.)                     *)
(***************************************************************************)
SessionsEnd ==
  \A table \in {sessions, players} : \A k \in DOMAIN table :
     Opens(table[k]) /\ ~table[k].raced => table[k].epoch = epoch[table[k].user]

\* The decks of a member who is removed go to the owner: no deck belongs to
\* somebody who cannot open it (unless its creation raced with the removal).
DecksKept == \A d \in DOMAIN owned :
                owned[d].raced \/ owned[d].user = Owner \/ Active(owned[d].user)

\* A member who was removed comes back only with an invitation made after the
\* removal (unless one was made while another was being accepted).
RejoinNeedsInvitation ==
  [][\A i \in DOMAIN invites :
        invites'[i].state = "accepted" /\ invites[i].state # "accepted"
          => invites[i].raced \/ invites[i].after = removals[invites[i].user]]_teamVars
================================================================================
