------------------------------ MODULE StageProofs ------------------------------
(***************************************************************************)
(* People, their pages and the stage, for any number of them.  A member    *)
(* who was removed comes back only with an invitation made after the       *)
(* removal, has no session of before, and no deck; decks are seen and      *)
(* edited by those they are for, and those that were created are there,    *)
(* whole and listed; the pages of editors lose no edit, and those of the   *)
(* audience follow.  Phone calls end once and completely, the meeting      *)
(* brief keeps what it was told since it was last cleared and nothing      *)
(* else, no word of the audience is lost on its way, and every event is    *)
(* counted once and adds up.                                               *)
(***************************************************************************)
EXTENDS Team, Access, DeckFiles, LiveEdit, Follow, Calls, Brief, Audience, Observability,
        SequenceTheorems, FiniteSetTheorems, TLAPS

--------------------------------------------------------------------------------
\* People and their sessions, decks, pages (Team, Access, DeckFiles, LiveEdit, Follow).

Invitation == [user : Guest, state : {"open", "expired", "accepted", "revoked"},
               after : Nat, raced : BOOLEAN]

\* What TeamTypeOK says of the people, the invitations and the requests.
PeopleTypeOK ==
  /\ status \in [Guest -> {"none", "active", "inactive"}]
  /\ epoch \in [Guest -> Nat] /\ removals \in [Guest -> Nat]
  /\ request \in [Guest -> [invite : {"no", "checked", "overtaken"}, login : Nat,
                            create : {"no", "checked"}]]
  /\ invites \in Seq(Invitation)

PendingAt(i) == invites[i].state \in {"open", "expired"}

(***************************************************************************)
(* A person has one invitation that can still be accepted; if it was not   *)
(* made while another was being accepted, its person is not a member, and  *)
(* was removed no more often than when it was made.                        *)
(***************************************************************************)
OneInvitation ==
  \A i, j \in DOMAIN invites :
    PendingAt(i) /\ PendingAt(j) /\ invites[i].user = invites[j].user => i = j

InvitationsCurrent ==
  \A i \in DOMAIN invites :
    PendingAt(i) /\ ~invites[i].raced
      => ~Active(invites[i].user) /\ invites[i].after = removals[invites[i].user]

\* Whoever is being invited or removed is what the check found.
ChecksHold ==
  /\ \A u \in Guest : request[u].invite = "checked" => ~Active(u)
  /\ tx.kind = "remove" => tx.user \in Guest /\ Active(tx.user)

TeamInv == PeopleTypeOK /\ OneInvitation /\ InvitationsCurrent /\ ChecksHold

--------------------------------------------------------------------------------
\* A statement that sets the state of some invitations changes nothing else of them.
LEMMA SetStateKeeps ==
  ASSUME NEW table \in Seq(Invitation), NEW these,
         NEW s \in {"open", "expired", "accepted", "revoked"}
  PROVE  /\ SetState(table, these, s) \in Seq(Invitation)
         /\ DOMAIN SetState(table, these, s) = DOMAIN table
         /\ \A i \in DOMAIN table :
              /\ SetState(table, these, s)[i].user = table[i].user
              /\ SetState(table, these, s)[i].after = table[i].after
              /\ SetState(table, these, s)[i].raced = table[i].raced
              /\ SetState(table, these, s)[i].state = IF i \in these THEN s ELSE table[i].state
<1> DEFINE new == SetState(table, these, s)
<1>1. PICK n \in Nat : table \in [1 .. n -> Invitation]
  BY SeqDef
<1>2. DOMAIN table = 1 .. n /\ DOMAIN new = 1 .. n
  BY <1>1 DEF SetState
<1>3. \A i \in 1 .. n : new[i] = IF i \in these THEN [table[i] EXCEPT !.state = s] ELSE table[i]
  BY <1>2 DEF SetState
<1>4. \A i \in 1 .. n : table[i] \in Invitation
  BY <1>1
<1>5. ASSUME NEW i \in 1 .. n
      PROVE  /\ new[i] \in Invitation
             /\ new[i].user = table[i].user /\ new[i].after = table[i].after
             /\ new[i].raced = table[i].raced
             /\ new[i].state = IF i \in these THEN s ELSE table[i].state
  BY <1>3, <1>4, <1>5 DEF Invitation
<1>6. new = [i \in 1 .. n |-> new[i]]
  BY <1>1 DEF SetState
<1>7. new \in [1 .. n -> Invitation]
  BY <1>5, <1>6
<1>8. new \in Seq(Invitation)
  BY <1>7, SeqDef
<1> QED
  BY <1>2, <1>5, <1>8

\* An entry that is inserted is the last one.
LEMMA InsertedRow ==
  ASSUME NEW table \in Seq(Invitation), NEW entry \in Invitation
  PROVE  /\ Append(table, entry) \in Seq(Invitation)
         /\ DOMAIN Append(table, entry) = DOMAIN table \cup {Len(table) + 1}
         /\ Len(table) + 1 \notin DOMAIN table
         /\ \A i \in DOMAIN table : Append(table, entry)[i] = table[i]
         /\ Append(table, entry)[Len(table) + 1] = entry
<1>1. DOMAIN table = 1 .. Len(table) /\ Len(table) \in Nat
  BY LenProperties
<1>2. /\ Append(table, entry) \in Seq(Invitation)
      /\ Len(Append(table, entry)) = Len(table) + 1
  BY AppendProperties
<1>3. DOMAIN Append(table, entry) = 1 .. Len(table) + 1
  BY <1>2, LenProperties
<1>4. 1 .. Len(table) + 1 = (1 .. Len(table)) \cup {Len(table) + 1}
  BY <1>1
<1> QED
  BY <1>1, <1>2, <1>3, <1>4, AppendProperties

\* Initially nobody is invited.
LEMMA TeamInitInv == TeamInit => TeamInv
<1> SUFFICES ASSUME TeamInit PROVE TeamInv
  OBVIOUS
<1>1. PeopleTypeOK
  BY DEF TeamInit, PeopleTypeOK, Idle
<1>2. DOMAIN invites = {}
  BY DEF TeamInit
<1>3. ChecksHold
  BY DEF TeamInit, ChecksHold, Idle, NoTx
<1> QED
  BY <1>1, <1>2, <1>3 DEF TeamInv, OneInvitation, InvitationsCurrent

\* Nothing but the requests to sign in and to create a deck changes, or a transaction
\* that does not remove anybody begins or ends.
LEMMA RestStep ==
  ASSUME TeamInv, UNCHANGED <<status, removals, invites>>, PeopleTypeOK',
         \A u \in Guest : request'[u].invite = request[u].invite,
         tx' = tx \/ tx'.kind # "remove"
  PROVE  TeamInv'
<1>1. ChecksHold'
  BY DEF TeamInv, ChecksHold, Active
<1>2. OneInvitation'
  BY DEF TeamInv, OneInvitation, PendingAt
<1>3. InvitationsCurrent'
  BY DEF TeamInv, InvitationsCurrent, PendingAt, Active
<1> QED
  BY <1>1, <1>2, <1>3 DEF TeamInv

\* A request to sign in or to create a deck begins or ends.
LEMMA RequestStep ==
  ASSUME TeamInv, UNCHANGED <<status, epoch, removals, invites, tx>>, NEW u,
         \/ \E n \in Nat : request' = [request EXCEPT ![u].login = n]
         \/ \E c \in {"no", "checked"} : request' = [request EXCEPT ![u].create = c]
         \/ request' = request
  PROVE  TeamInv'
<1> DEFINE RequestType == [invite : {"no", "checked", "overtaken"}, login : Nat,
                        create : {"no", "checked"}]
<1>1. request \in [Guest -> RequestType]
  BY DEF TeamInv, PeopleTypeOK
<1>2. \A v \in Guest : request'[v] \in RequestType /\ request'[v].invite = request[v].invite
  <2>1. CASE \E n \in Nat : request' = [request EXCEPT ![u].login = n]
    BY <1>1, <2>1
  <2>2. CASE \E c \in {"no", "checked"} : request' = [request EXCEPT ![u].create = c]
    BY <1>1, <2>2
  <2>3. CASE request' = request
    BY <1>1, <2>3
  <2> QED
    BY <2>1, <2>2, <2>3
<1>3. request' = [v \in Guest |-> request'[v]]
  BY <1>1
<1>4. request' \in [Guest -> RequestType]
  BY <1>2, <1>3
<1>5. PeopleTypeOK'
  BY <1>4 DEF TeamInv, PeopleTypeOK
<1> QED
  BY <1>2, <1>5, RestStep

\* Invitations that are revoked or expire leave fewer, or the same, to be accepted.
LEMMA CloseStep ==
  ASSUME TeamInv, NEW these, NEW s \in {"expired", "revoked"},
         s = "expired" => \A i \in these \cap DOMAIN invites : PendingAt(i),
         invites' = SetState(invites, these, s),
         UNCHANGED <<status, removals, epoch>>
  PROVE  /\ invites' \in Seq(Invitation) /\ OneInvitation' /\ InvitationsCurrent'
         /\ DOMAIN invites' = DOMAIN invites
         /\ \A i \in DOMAIN invites : PendingAt(i)' => PendingAt(i)
<1>1. invites \in Seq(Invitation)
  BY DEF TeamInv, PeopleTypeOK
<1>2. /\ invites' \in Seq(Invitation) /\ DOMAIN invites' = DOMAIN invites
      /\ \A i \in DOMAIN invites :
           /\ invites'[i].user = invites[i].user /\ invites'[i].after = invites[i].after
           /\ invites'[i].raced = invites[i].raced
           /\ invites'[i].state = IF i \in these THEN s ELSE invites[i].state
  BY <1>1, SetStateKeeps
<1>3. \A i \in DOMAIN invites : PendingAt(i)' => PendingAt(i)
  BY <1>2 DEF PendingAt
<1>4. OneInvitation'
  BY <1>2, <1>3 DEF TeamInv, OneInvitation
<1>5. InvitationsCurrent'
  BY <1>2, <1>3 DEF TeamInv, InvitationsCurrent, Active
<1> QED
  BY <1>2, <1>3, <1>4, <1>5

\* Invitations are for people who may be invited.
LEMMA InvitationsType ==
  ASSUME PeopleTypeOK, NEW i \in DOMAIN invites
  PROVE  invites[i] \in Invitation /\ invites[i].user \in Guest
<1>1. PICK n \in Nat : invites \in [1 .. n -> Invitation]
  BY SeqDef DEF PeopleTypeOK
<1>2. invites[i] \in Invitation
  BY <1>1
<1> QED
  BY <1>2 DEF Invitation

--------------------------------------------------------------------------------
\* Whoever is invited is no member when it is checked.
LEMMA InviteStep ==
  ASSUME TeamInv, NEW u \in Guest, CheckInvitee(u)
  PROVE  TeamInv'
<1>1. PeopleTypeOK'
  BY DEF TeamInv, PeopleTypeOK, CheckInvitee, tables
<1>2. ChecksHold'
  BY DEF TeamInv, PeopleTypeOK, ChecksHold, CheckInvitee, MayInvite, Active
<1>3. UNCHANGED <<status, removals, invites>>
  BY DEF CheckInvitee, tables
<1>4. OneInvitation' /\ InvitationsCurrent'
  BY <1>3 DEF TeamInv, OneInvitation, InvitationsCurrent, PendingAt, Active
<1> QED
  BY <1>1, <1>2, <1>4 DEF TeamInv

\* A new invitation is the only one of its person, as the expired ones are revoked; and
\* the person is no member unless an invitation was accepted since the check.
LEMMA InsertStep ==
  ASSUME TeamInv, NEW u \in Guest, InsertInvitation(u)
  PROVE  TeamInv'
<1> DEFINE old  == {i \in Pending(u) : invites[i].state = "expired"}
           rest == SetState(invites, old, "revoked")
           new  == [user |-> u, state |-> "open", after |-> removals[u],
                    raced |-> request[u].invite = "overtaken"]
<1>1. /\ invites \in Seq(Invitation) /\ removals[u] \in Nat
      /\ request[u].invite \in {"checked", "overtaken"}
  BY DEF TeamInv, PeopleTypeOK, InsertInvitation
<1>2. new \in Invitation
  <2>1. (request[u].invite = "overtaken") \in BOOLEAN
    OBVIOUS
  <2> QED
    BY <1>1, <2>1 DEF Invitation
<1>3. /\ rest \in Seq(Invitation) /\ DOMAIN rest = DOMAIN invites
      /\ \A i \in DOMAIN invites :
           /\ rest[i].user = invites[i].user /\ rest[i].after = invites[i].after
           /\ rest[i].raced = invites[i].raced
           /\ rest[i].state = IF i \in old THEN "revoked" ELSE invites[i].state
  BY <1>1, SetStateKeeps
<1>4. UNCHANGED <<status, removals, epoch, tx>>
  BY DEF InsertInvitation
<1>5. ChecksHold'
  BY <1>4 DEF TeamInv, PeopleTypeOK, ChecksHold, InsertInvitation, Active
<1>6. request' \in [Guest -> [invite : {"no", "checked", "overtaken"}, login : Nat,
                              create : {"no", "checked"}]]
  BY DEF TeamInv, PeopleTypeOK, InsertInvitation
<1>7. CASE Pending(u) = old
  <2>1. invites' = Append(rest, new)
    BY <1>7 DEF InsertInvitation
  <2>2. /\ invites' \in Seq(Invitation)
        /\ DOMAIN invites' = DOMAIN invites \cup {Len(rest) + 1}
        /\ Len(rest) + 1 \notin DOMAIN invites
        /\ \A i \in DOMAIN invites : invites'[i] = rest[i]
        /\ invites'[Len(rest) + 1] = new
    <3> HIDE DEF rest, new
    <3>1. new \in Invitation /\ rest \in Seq(Invitation)
      BY <1>2, <1>3
    <3>2. DOMAIN rest = DOMAIN invites
      BY <1>3
    <3> QED
      BY <2>1, <3>1, <3>2, InsertedRow
  <2>3. \A i \in DOMAIN invites : PendingAt(i)' => PendingAt(i) /\ invites[i].user # u
    BY <1>3, <1>7, <2>2 DEF PendingAt, Pending
  <2>4. OneInvitation'
    BY <1>3, <2>2, <2>3 DEF TeamInv, OneInvitation
  <2>5. ~new.raced => ~Active(u)
    BY <1>1 DEF TeamInv, ChecksHold
  <2>6. InvitationsCurrent'
    BY <1>3, <1>4, <2>2, <2>3, <2>5 DEF TeamInv, InvitationsCurrent, Active
  <2> QED
    BY <1>4, <1>5, <1>6, <2>2, <2>4, <2>6 DEF TeamInv, PeopleTypeOK
<1>8. CASE Pending(u) # old
  <2>1. invites' = rest
    BY <1>8 DEF InsertInvitation
  <2>2. invites' \in Seq(Invitation) /\ OneInvitation' /\ InvitationsCurrent'
    BY <1>4, <2>1, CloseStep
  <2> QED
    BY <1>4, <1>5, <1>6, <2>2 DEF TeamInv, PeopleTypeOK
<1> QED
  BY <1>7, <1>8

\* Revoking and expiring; a resend also asks whether its person is a member.
LEMMA EndInvitationStep ==
  ASSUME TeamInv, NEW i \in DOMAIN invites,
         RevokeInvitation(i) \/ ResendInvitation(i) \/ InvitationExpires(i)
  PROVE  TeamInv'
<1>1. UNCHANGED <<status, removals, epoch, tx>>
  BY DEF RevokeInvitation, ResendInvitation, InvitationExpires
<1>2. invites' \in Seq(Invitation) /\ OneInvitation' /\ InvitationsCurrent'
  <2>1. CASE InvitationExpires(i)
    BY <1>1, <2>1, CloseStep DEF InvitationExpires, PendingAt
  <2>2. CASE RevokeInvitation(i) \/ ResendInvitation(i)
    BY <1>1, <2>2, CloseStep DEF RevokeInvitation, ResendInvitation, Revoke
  <2> QED
    BY <2>1, <2>2
<1>3. ChecksHold' /\ request' \in [Guest -> [invite : {"no", "checked", "overtaken"},
                                             login : Nat, create : {"no", "checked"}]]
  <2>1. CASE UNCHANGED request
    BY <1>1, <2>1 DEF TeamInv, PeopleTypeOK, ChecksHold, Active
  <2>2. CASE ~Active(invites[i].user)
             /\ request' = [request EXCEPT ![invites[i].user].invite = "checked"]
    BY <1>1, <2>2 DEF TeamInv, PeopleTypeOK, ChecksHold, Active
  <2> QED
    BY <2>1, <2>2 DEF RevokeInvitation, ResendInvitation, InvitationExpires
<1> QED
  BY <1>1, <1>2, <1>3 DEF TeamInv, PeopleTypeOK

\* Whoever is admitted had one invitation, and has none now; a check made before counts
\* as overtaken.
LEMMA AdmitStep ==
  ASSUME TeamInv, NEW i \in DOMAIN invites, AcceptInvitation(i)
  PROVE  TeamInv'
<1> DEFINE u == invites[i].user
<1>1. invites \in Seq(Invitation) /\ u \in Guest
  BY InvitationsType DEF TeamInv, PeopleTypeOK
<1>2. /\ PendingAt(i) /\ ~Active(u) /\ ~Locked(u)
      /\ invites' = SetState(invites, {i}, "accepted")
      /\ status' = [status EXCEPT ![u] = "active"]
      /\ epoch' = [epoch EXCEPT ![u] = @ + 1]
      /\ UNCHANGED <<removals, tx>>
  BY DEF AcceptInvitation, Admit, PendingAt
<1>3. /\ invites' \in Seq(Invitation) /\ DOMAIN invites' = DOMAIN invites
      /\ \A j \in DOMAIN invites :
           /\ invites'[j].user = invites[j].user /\ invites'[j].after = invites[j].after
           /\ invites'[j].raced = invites[j].raced
           /\ invites'[j].state = IF j = i THEN "accepted" ELSE invites[j].state
  BY <1>1, <1>2, SetStateKeeps
<1>4. \A j \in DOMAIN invites : PendingAt(j)' => PendingAt(j) /\ invites[j].user # u
  BY <1>2, <1>3 DEF TeamInv, OneInvitation, PendingAt
<1>5. \A v \in Guest \ {u} : status'[v] = status[v]
  BY <1>2 DEF TeamInv, PeopleTypeOK
<1>6. OneInvitation'
  BY <1>3, <1>4 DEF TeamInv, OneInvitation
<1>7. InvitationsCurrent'
  <2> SUFFICES ASSUME NEW j \in DOMAIN invites, PendingAt(j)', ~invites'[j].raced
               PROVE  (~Active(invites[j].user) /\ invites[j].after = removals[invites[j].user])'
    BY <1>3 DEF InvitationsCurrent
  <2>1. invites[j].user \in Guest \ {u} /\ PendingAt(j) /\ ~invites[j].raced
    BY <1>3, <1>4, InvitationsType DEF TeamInv
  <2>2. ~Active(invites[j].user) /\ invites[j].after = removals[invites[j].user]
    BY <2>1 DEF TeamInv, InvitationsCurrent
  <2> QED
    BY <1>2, <1>3, <1>5, <2>1, <2>2 DEF Active
<1>8. epoch' \in [Guest -> Nat] /\ epoch'[u] \in Nat
  BY <1>1, <1>2 DEF TeamInv, PeopleTypeOK
<1>9. /\ request' \in [Guest -> [invite : {"no", "checked", "overtaken"}, login : Nat,
                                 create : {"no", "checked"}]]
      /\ request'[u].invite # "checked"
      /\ \A v \in Guest \ {u} : request'[v] = request[v]
  BY <1>1, <1>8, Zenon DEF TeamInv, PeopleTypeOK, AcceptInvitation
<1>10. ChecksHold'
  BY <1>1, <1>2, <1>5, <1>9 DEF TeamInv, ChecksHold, Active, Locked
<1>11. status' \in [Guest -> {"none", "active", "inactive"}]
  BY <1>1, <1>2 DEF TeamInv, PeopleTypeOK
<1> QED
  BY <1>2, <1>3, <1>6, <1>7, <1>8, <1>9, <1>10, <1>11 DEF TeamInv, PeopleTypeOK

\* Only members are removed, and the invitations of members are spent or overtaken.
LEMMA RemoveStep ==
  ASSUME TeamInv, RemoveMember
  PROVE  TeamInv'
<1> DEFINE u == tx.user
<1>1. u \in Guest /\ Active(u) /\ tx' = NoTx
  BY DEF TeamInv, ChecksHold, RemoveMember
<1>2. /\ status' = [status EXCEPT ![u] = "inactive"]
      /\ removals' = [removals EXCEPT ![u] = @ + 1]
      /\ epoch' = [epoch EXCEPT ![u] = @ + 1]
      /\ UNCHANGED <<invites, request>>
  BY DEF RemoveMember, EndSessions
<1>3. PeopleTypeOK'
  BY <1>1, <1>2 DEF TeamInv, PeopleTypeOK
<1>4. OneInvitation'
  BY <1>2 DEF TeamInv, OneInvitation, PendingAt
<1>5. \A i \in DOMAIN invites : invites[i].user \in Guest
  BY InvitationsType DEF TeamInv
<1>6. InvitationsCurrent'
  BY <1>1, <1>2, <1>5 DEF TeamInv, PeopleTypeOK, InvitationsCurrent, PendingAt, Active
<1>7. ChecksHold'
  BY <1>1, <1>2 DEF TeamInv, PeopleTypeOK, ChecksHold, Active, NoTx
<1> QED
  BY <1>3, <1>4, <1>6, <1>7 DEF TeamInv

--------------------------------------------------------------------------------
\* No action makes an invitation of a member, or a second one of anybody.
LEMMA TeamStep == TeamInv /\ [TeamNext]_teamVars => TeamInv'
<1> SUFFICES ASSUME TeamInv, [TeamNext]_teamVars PROVE TeamInv'
  OBVIOUS
<1> USE DEF PeopleTypeOK
<1>1. ASSUME NEW u \in Guest,
             \/ CheckPassword(u) \/ CreateSession(u) \/ ForgotPassword(u)
             \/ InsertDeck(u) \/ BeginRemoveMember(u)
      PROVE  TeamInv'
  <2>1. CASE BeginRemoveMember(u)
    <3>1. /\ UNCHANGED <<status, epoch, removals, invites, request>>
          /\ Active(u) /\ tx'.user = u
      BY <2>1 DEF BeginRemoveMember, tables, Found
    <3> QED
      BY <3>1 DEF TeamInv, OneInvitation, InvitationsCurrent, ChecksHold, PendingAt, Active
  <2>2. CASE ~BeginRemoveMember(u)
    <3>1. UNCHANGED <<status, epoch, removals, invites, tx>>
      BY <1>1, <2>2 DEF CheckPassword, CreateSession, ForgotPassword, InsertDeck, tables
    <3>2. \/ \E n \in Nat : request' = [request EXCEPT ![u].login = n]
          \/ request' = [request EXCEPT ![u].create = "no"]
          \/ request' = request
      BY <1>1, <2>2 DEF TeamInv, CheckPassword, CreateSession, ForgotPassword, InsertDeck
    <3> QED
      BY <3>1, <3>2, RequestStep
  <2> QED
    BY <2>1, <2>2
<1>2. ASSUME NEW s \in DOMAIN sessions, Logout(s) \/ LaunchDeck(s) \/ BeginCreateDeck(s)
      PROVE  TeamInv'
  <2>1. UNCHANGED <<status, epoch, removals, invites, tx>>
    BY <1>2 DEF Logout, LaunchDeck, BeginCreateDeck, tables
  <2>2. \/ request' = [request EXCEPT ![sessions[s].user].create = "checked"]
        \/ request' = request
    BY <1>2 DEF Logout, LaunchDeck, BeginCreateDeck
  <2> QED
    BY <2>1, <2>2, RequestStep
<1>3. ASSUME NEW h \in DOMAIN handoffs, OpenPlayer(h)
      PROVE  TeamInv'
  <2>1. UNCHANGED <<status, epoch, removals, invites, request, tx>>
    BY <1>3 DEF OpenPlayer
  <2> QED
    BY <2>1, RestStep DEF TeamInv
<1>4. ASSUME NEW r \in DOMAIN resets, BeginResetPassword(r)
      PROVE  TeamInv'
  <2>1. UNCHANGED <<status, epoch, removals, invites, request>> /\ tx'.kind = "reset"
    BY <1>4 DEF BeginResetPassword, Found, tables
  <2> QED
    BY <2>1, RestStep DEF TeamInv
<1>5. CASE ResetPassword
  <2>1. UNCHANGED <<status, removals, invites, request>> /\ tx' = NoTx
    BY <1>5 DEF ResetPassword
  <2>2. epoch' \in [Guest -> Nat]
    <3>1. epoch' = [v \in Guest |-> IF v = tx.user THEN epoch[v] + 1 ELSE epoch[v]]
      BY <1>5 DEF TeamInv, ResetPassword, EndSessions
    <3> QED
      BY <3>1 DEF TeamInv
  <2> QED
    BY <2>1, <2>2, RestStep DEF TeamInv, NoTx
<1>6. CASE TransactionFails
  <2>1. UNCHANGED <<status, epoch, removals, invites, request>> /\ tx' = NoTx
    BY <1>6 DEF TransactionFails, tables
  <2> QED
    BY <2>1, RestStep DEF TeamInv, NoTx
<1>7. CASE UNCHANGED teamVars
  <2>1. UNCHANGED <<status, epoch, removals, invites, request, tx>>
    BY <1>7 DEF teamVars, tables
  <2> QED
    BY <2>1, RestStep DEF TeamInv
<1> QED
  BY <1>1, <1>2, <1>3, <1>4, <1>5, <1>6, <1>7, InviteStep, InsertStep, EndInvitationStep,
     AdmitStep, RemoveStep DEF TeamNext

\* The invariant holds in every reachable state.
THEOREM TeamInvariance == TeamSpec => []TeamInv
BY TeamInitInv, TeamStep, PTL DEF TeamSpec

\* Of all actions only its admission accepts an invitation.
LEMMA OnlyAdmitted ==
  ASSUME TeamInv, [TeamNext]_teamVars, NEW i \in DOMAIN invites,
         invites'[i].state = "accepted", invites[i].state # "accepted"
  PROVE  AcceptInvitation(i)
<1>1. invites \in Seq(Invitation)
  BY DEF TeamInv, PeopleTypeOK
<1>2. ASSUME NEW u \in Guest, InsertInvitation(u) PROVE FALSE
  <2> DEFINE old  == {j \in Pending(u) : invites[j].state = "expired"}
             rest == SetState(invites, old, "revoked")
             new  == [user |-> u, state |-> "open", after |-> removals[u],
                      raced |-> request[u].invite = "overtaken"]
  <2>1. rest \in Seq(Invitation) /\ DOMAIN rest = DOMAIN invites
        /\ rest[i].state \in {"revoked", invites[i].state}
    BY <1>1, SetStateKeeps
  <2>2. new \in Invitation
    <3>1. (request[u].invite = "overtaken") \in BOOLEAN
      OBVIOUS
    <3>2. removals[u] \in Nat
      BY DEF TeamInv, PeopleTypeOK
    <3> QED
      BY <3>1, <3>2 DEF Invitation
  <2>3. invites' = Append(rest, new) \/ invites' = rest
    BY <1>2 DEF InsertInvitation
  <2>4. invites'[i] = rest[i]
    <3> HIDE DEF rest, new
    <3> QED
      BY <2>1, <2>2, <2>3, InsertedRow
  <2> QED
    BY <2>1, <2>4
<1>3. ASSUME NEW j \in DOMAIN invites,
             RevokeInvitation(j) \/ ResendInvitation(j) \/ InvitationExpires(j)
      PROVE  FALSE
  <2>1. PICK s \in {"expired", "revoked"} : invites' = SetState(invites, {j}, s)
    BY <1>3 DEF RevokeInvitation, ResendInvitation, InvitationExpires, Revoke
  <2>2. invites'[i].state \in {s, invites[i].state}
    BY <1>1, <2>1, SetStateKeeps
  <2> QED
    BY <2>2
<1>4. ASSUME NEW j \in DOMAIN invites, AcceptInvitation(j) PROVE j = i
  <2>1. invites' = SetState(invites, {j}, "accepted")
    BY <1>4 DEF AcceptInvitation, Admit
  <2>2. invites'[i].state = IF i \in {j} THEN "accepted" ELSE invites[i].state
    BY <1>1, <2>1, SetStateKeeps
  <2> QED
    BY <2>2
<1>5. CASE UNCHANGED invites
  BY <1>5
<1> QED
  BY <1>2, <1>3, <1>4, <1>5
     DEF TeamNext, CheckInvitee, CheckPassword, CreateSession, ForgotPassword, InsertDeck,
         BeginRemoveMember, Logout, LaunchDeck, BeginCreateDeck, OpenPlayer,
         BeginResetPassword, RemoveMember, ResetPassword, TransactionFails, tables, teamVars

\* Whoever was removed comes back only with an invitation made after the removal, however
\* invitations, acceptances and removals interleave (unless it was made while another was
\* being accepted).
THEOREM RejoinIsInvited == TeamSpec => RejoinNeedsInvitation
<1>1. TeamInv /\ [TeamNext]_teamVars
        => \A i \in DOMAIN invites :
             invites'[i].state = "accepted" /\ invites[i].state # "accepted"
               => invites[i].raced \/ invites[i].after = removals[invites[i].user]
  <2> SUFFICES ASSUME TeamInv, [TeamNext]_teamVars, NEW i \in DOMAIN invites,
                      invites'[i].state = "accepted", invites[i].state # "accepted"
               PROVE  invites[i].raced \/ invites[i].after = removals[invites[i].user]
    OBVIOUS
  <2>1. PendingAt(i)
    BY OnlyAdmitted DEF AcceptInvitation, Admit, PendingAt
  <2> QED
    BY <2>1 DEF TeamInv, InvitationsCurrent
<1> QED
  BY <1>1, TeamInvariance, PTL DEF TeamSpec, RejoinNeedsInvitation

--------------------------------------------------------------------------------
\* Sessions and decks.

Members == {u \in Guest : Active(u)}
Changing == {u \in Guest : Locked(u)}

(***************************************************************************)
(* Rows of a table of sessions: one that is live is of a member and of     *)
(* now, and is found by the transaction that is going to end it, unless it *)
(* raced with one.                                                         *)
(***************************************************************************)
RowsFit(table, found, members, now, locked) ==
  /\ table \in Seq(RowType)
  /\ \A k \in DOMAIN table : table[k].live /\ ~table[k].raced =>
       /\ table[k].user \in members /\ table[k].epoch = now[table[k].user]
       /\ table[k].user \in locked => k \in found

DeckRow == [user : Guest \cup {Owner}, raced : BOOLEAN]

\* The same of the decks: each is the owner's or a member's.
DecksFit(table, found, members, locked) ==
  /\ table \in Seq(DeckRow)
  /\ \A d \in DOMAIN table : ~table[d].raced /\ table[d].user # Owner =>
       /\ table[d].user \in members
       /\ table[d].user \in locked => d \in found

MemberInv ==
  /\ RowsFit(sessions, tx.sessions, Members, epoch, Changing)
  /\ RowsFit(players, tx.players, Members, epoch, Changing)
  /\ DecksFit(owned, tx.decks, Members, Changing)
  /\ resets \in Seq([user : Guest, state : {"open", "used"}])
  /\ handoffs \in Seq([user : Guest, state : {"open", "used"}, epoch : Nat])
  /\ tx.kind \in {"remove", "reset"} => tx.user \in Guest
  /\ tx.kind \in {"none", "remove", "reset"}

\* What a sequence has as elements.
LEMMA RowsOf ==
  ASSUME NEW S, NEW table \in Seq(S)
  PROVE  /\ DOMAIN table = 1 .. Len(table) /\ Len(table) \in Nat
         /\ \A k \in DOMAIN table : table[k] \in S
         /\ table = [k \in DOMAIN table |-> table[k]]
BY LenProperties

\* A function on the indices of a sequence is one.
LEMMA IsTable ==
  ASSUME NEW S, NEW n \in Nat, NEW table, DOMAIN table = 1 .. n,
         table = [k \in DOMAIN table |-> table[k]], \A k \in DOMAIN table : table[k] \in S
  PROVE  table \in Seq(S)
BY SeqDef

\* An entry is inserted as the last one, in any table.
LEMMA RowInserted ==
  ASSUME NEW S, NEW table \in Seq(S), NEW entry \in S
  PROVE  /\ Append(table, entry) \in Seq(S)
         /\ \A k \in DOMAIN Append(table, entry) :
              \/ k \in DOMAIN table /\ Append(table, entry)[k] = table[k]
              \/ k \notin DOMAIN table /\ Append(table, entry)[k] = entry
<1>1. DOMAIN table = 1 .. Len(table) /\ Len(table) \in Nat
  BY LenProperties
<1>2. /\ Append(table, entry) \in Seq(S) /\ Len(Append(table, entry)) = Len(table) + 1
      /\ \A k \in 1 .. Len(table) : Append(table, entry)[k] = table[k]
      /\ Append(table, entry)[Len(table) + 1] = entry
  BY AppendProperties
<1>3. DOMAIN Append(table, entry) = 1 .. Len(table) + 1
  BY <1>2, LenProperties
<1> QED
  BY <1>1, <1>2, <1>3

\* Revoking ends some rows and leaves the others.
LEMMA RowsRevoked ==
  ASSUME NEW table \in Seq(RowType), NEW these
  PROVE  /\ Revoked(table, these) \in Seq(RowType) /\ DOMAIN Revoked(table, these) = DOMAIN table
         /\ \A k \in DOMAIN table :
              /\ Revoked(table, these)[k].user = table[k].user
              /\ Revoked(table, these)[k].epoch = table[k].epoch
              /\ Revoked(table, these)[k].raced = table[k].raced
              /\ Revoked(table, these)[k].live => table[k].live /\ k \notin these
<1> DEFINE new == Revoked(table, these)
<1>1. /\ DOMAIN table = 1 .. Len(table) /\ Len(table) \in Nat
      /\ \A k \in DOMAIN table : table[k] \in RowType
  BY RowsOf
<1>2. DOMAIN new = DOMAIN table /\ new = [k \in DOMAIN new |-> new[k]]
  BY DEF Revoked
<1>3. \A k \in DOMAIN table :
        new[k] = IF k \in these THEN [table[k] EXCEPT !.live = FALSE] ELSE table[k]
  BY DEF Revoked
<1> HIDE DEF new
<1>4. ASSUME NEW k \in DOMAIN table
      PROVE  /\ new[k] \in RowType /\ new[k].user = table[k].user
             /\ new[k].epoch = table[k].epoch /\ new[k].raced = table[k].raced
             /\ new[k].live => table[k].live /\ k \notin these
  <2>1. table[k] \in RowType
    BY <1>1
  <2>2. CASE k \in these
    BY <1>3, <2>1, <2>2 DEF RowType
  <2>3. CASE k \notin these
    BY <1>3, <2>1, <2>3
  <2> QED
    BY <2>2, <2>3
<1>5. new \in Seq(RowType)
  BY <1>1, <1>2, <1>4, IsTable
<1> QED
  BY <1>2, <1>4, <1>5 DEF new

--------------------------------------------------------------------------------
\* What keeps the rows of a table fit.

\* A session of a member, of now, is marked when it races with a transaction.
LEMMA FitInserted ==
  ASSUME NEW table, NEW found, NEW members, NEW now, NEW locked,
         RowsFit(table, found, members, now, locked), NEW entry \in RowType,
         entry.user \in members, entry.epoch = now[entry.user], entry.user \in locked => entry.raced
  PROVE  RowsFit(Append(table, entry), found, members, now, locked)
<1> DEFINE new == Append(table, entry)
<1>1. /\ table \in Seq(RowType) /\ new \in Seq(RowType)
      /\ \A k \in DOMAIN new : \/ k \in DOMAIN table /\ new[k] = table[k]
                               \/ k \notin DOMAIN table /\ new[k] = entry
  BY RowInserted DEF RowsFit
<1> HIDE DEF new
<1>2. ASSUME NEW k \in DOMAIN new, new[k].live, ~new[k].raced
      PROVE  /\ new[k].user \in members /\ new[k].epoch = now[new[k].user]
             /\ new[k].user \in locked => k \in found
  BY <1>1, <1>2 DEF RowsFit
<1>3. RowsFit(new, found, members, now, locked)
  BY <1>1, <1>2 DEF RowsFit
<1> QED
  BY <1>3 DEF new

\* Fewer are live.
LEMMA FitRevoked ==
  ASSUME NEW table, NEW found, NEW members, NEW now, NEW locked,
         RowsFit(table, found, members, now, locked), NEW these
  PROVE  RowsFit(Revoked(table, these), found, members, now, locked)
<1> DEFINE new == Revoked(table, these)
<1>1. /\ new \in Seq(RowType) /\ DOMAIN new = DOMAIN table
      /\ \A k \in DOMAIN table : /\ new[k].user = table[k].user
                                 /\ new[k].epoch = table[k].epoch
                                 /\ new[k].raced = table[k].raced
                                 /\ new[k].live => table[k].live
  BY RowsRevoked DEF RowsFit
<1> HIDE DEF new
<1>2. RowsFit(new, found, members, now, locked)
  BY <1>1 DEF RowsFit
<1> QED
  BY <1>2 DEF new

\* A transaction ends all it found, so that its person has none left that is fit for then.
LEMMA FitEnded ==
  ASSUME NEW table, NEW found, NEW members, NEW now, NEW u,
         RowsFit(table, found, members, now, {u}), NEW others, NEW then, NEW any,
         members \ {u} \subseteq others, \A v \in members \ {u} : then[v] = now[v]
  PROVE  RowsFit(Revoked(table, found), any, others, then, {})
<1> DEFINE new == Revoked(table, found)
<1>1. /\ new \in Seq(RowType) /\ DOMAIN new = DOMAIN table
      /\ \A k \in DOMAIN table : /\ new[k].user = table[k].user
                                 /\ new[k].epoch = table[k].epoch
                                 /\ new[k].raced = table[k].raced
                                 /\ new[k].live => table[k].live /\ k \notin found
  BY RowsRevoked DEF RowsFit
<1> HIDE DEF new
<1>2. ASSUME NEW k \in DOMAIN table, new[k].live, ~new[k].raced
      PROVE  new[k].user \in members \ {u} /\ new[k].epoch = now[new[k].user]
  BY <1>1, <1>2 DEF RowsFit
<1>3. RowsFit(new, any, others, then, {})
  BY <1>1, <1>2 DEF RowsFit
<1> QED
  BY <1>3 DEF new

\* Whoever is admitted has no session that is live, except one that raced.
LEMMA FitAdmitted ==
  ASSUME NEW table, NEW found, NEW members, NEW now, NEW locked,
         RowsFit(table, found, members, now, locked), NEW others, NEW then,
         members \subseteq others, \A v \in members : then[v] = now[v]
  PROVE  RowsFit(table, found, others, then, locked)
BY DEF RowsFit

\* A transaction finds what is live when it begins.
LEMMA FitFound ==
  ASSUME NEW table, NEW found, NEW members, NEW now, NEW locked,
         RowsFit(table, found, members, now, locked), NEW u, NEW these,
         {k \in DOMAIN table : table[k].user = u /\ table[k].live} \subseteq these
  PROVE  RowsFit(table, these, members, now, {u})
BY DEF RowsFit

\* A transaction that fails finds nothing.
LEMMA FitForgotten ==
  ASSUME NEW table, NEW found, NEW members, NEW now, NEW locked,
         RowsFit(table, found, members, now, locked), NEW any
  PROVE  RowsFit(table, any, members, now, {})
BY DEF RowsFit

\* A deck of a member is marked when it races with a removal.
LEMMA DeckInserted ==
  ASSUME NEW table, NEW found, NEW members, NEW locked,
         DecksFit(table, found, members, locked), NEW entry \in DeckRow,
         ~entry.raced => entry.user \in members \ locked
  PROVE  DecksFit(Append(table, entry), found, members, locked)
<1> DEFINE new == Append(table, entry)
<1>1. /\ table \in Seq(DeckRow) /\ new \in Seq(DeckRow)
      /\ \A k \in DOMAIN new : \/ k \in DOMAIN table /\ new[k] = table[k]
                               \/ k \notin DOMAIN table /\ new[k] = entry
  BY RowInserted DEF DecksFit
<1> HIDE DEF new
<1>2. DecksFit(new, found, members, locked)
  BY <1>1 DEF DecksFit
<1> QED
  BY <1>2 DEF new

\* The decks that were found go to the owner.
LEMMA DecksHandedOver ==
  ASSUME MemberInv, tx.kind = "remove", owned' = Transferred, NEW others, NEW any,
         Members \ {tx.user} \subseteq others
  PROVE  DecksFit(owned', any, others, {})
<1> DEFINE table == owned
<1>1. /\ table \in Seq(DeckRow) /\ tx.user \in Guest
      /\ DecksFit(table, tx.decks, Members, Changing)
  BY DEF MemberInv, DecksFit
<1>2. Changing = {tx.user}
  BY <1>1 DEF Changing, Locked
<1>3. /\ DOMAIN table = 1 .. Len(table) /\ Len(table) \in Nat
      /\ \A d \in DOMAIN table : table[d] \in DeckRow
  BY <1>1, RowsOf
<1>4. DOMAIN owned' = DOMAIN table /\ owned' = [d \in DOMAIN owned' |-> owned'[d]]
  BY DEF Transferred
<1>5. ASSUME NEW d \in DOMAIN table
      PROVE  /\ owned'[d] \in DeckRow /\ owned'[d].raced = table[d].raced
             /\ owned'[d].user = IF d \in tx.decks THEN Owner ELSE table[d].user
  <2>1. table[d] \in DeckRow
    BY <1>3
  <2>2. owned'[d] = IF d \in tx.decks THEN [table[d] EXCEPT !.user = Owner] ELSE table[d]
    BY <1>5 DEF Transferred
  <2> QED
    BY <2>1, <2>2 DEF DeckRow
<1>6. owned' \in Seq(DeckRow)
  BY <1>3, <1>4, <1>5, IsTable
<1> QED
  BY <1>1, <1>2, <1>4, <1>5, <1>6 DEF DecksFit

\* A statement that sets the state of some rows keeps the type of the table.
LEMMA StatesSet ==
  ASSUME NEW S, NEW table \in Seq(S), NEW these, NEW s,
         \A r \in S : [r EXCEPT !.state = s] \in S
  PROVE  SetState(table, these, s) \in Seq(S)
<1> DEFINE new == SetState(table, these, s)
<1>1. /\ DOMAIN table = 1 .. Len(table) /\ Len(table) \in Nat
      /\ \A k \in DOMAIN table : table[k] \in S
  BY RowsOf
<1>2. DOMAIN new = DOMAIN table /\ new = [k \in DOMAIN new |-> new[k]]
  BY DEF SetState
<1>3. \A k \in DOMAIN table : new[k] \in {table[k], [table[k] EXCEPT !.state = s]}
  BY DEF SetState
<1> HIDE DEF new
<1>4. \A k \in DOMAIN new : new[k] \in S
  BY <1>1, <1>2, <1>3
<1>5. new \in Seq(S)
  BY <1>1, <1>2, <1>4, IsTable
<1> QED
  BY <1>5 DEF new

--------------------------------------------------------------------------------
\* Nobody is a member at first.
LEMMA MembersStart == TeamInit => MemberInv
<1> SUFFICES ASSUME TeamInit PROVE MemberInv
  OBVIOUS
<1>1. tx.kind = "none" /\ \A t \in {sessions, players, owned} : DOMAIN t = {}
  BY DEF TeamInit, NoTx
<1>2. /\ sessions \in Seq(RowType) /\ players \in Seq(RowType) /\ owned \in Seq(DeckRow)
      /\ resets \in Seq([user : Guest, state : {"open", "used"}])
      /\ handoffs \in Seq([user : Guest, state : {"open", "used"}, epoch : Nat])
  BY DEF TeamInit
<1> QED
  BY <1>1, <1>2 DEF MemberInv, RowsFit, DecksFit

\* A session is started for a member, of now.
LEMMA SessionCreated ==
  ASSUME TeamInv, MemberInv, NEW u \in Guest, CreateSession(u)
  PROVE  MemberInv'
<1> DEFINE entry == Row(u, request[u].login)
<1>1. /\ UNCHANGED <<status, epoch, players, owned, resets, handoffs, tx>>
      /\ sessions' = sessions \/ (Active(u) /\ sessions' = Append(sessions, entry))
  BY DEF CreateSession
<1>2. UNCHANGED <<Members, Changing>>
  BY <1>1 DEF Members, Changing, Active, Locked
<1>3. CASE Active(u) /\ sessions' = Append(sessions, entry)
  <2>1. epoch[u] \in Nat
    BY DEF TeamInv, PeopleTypeOK
  <2>2. (Locked(u) \/ request[u].login # epoch[u]) \in BOOLEAN
    BY Zenon
  <2>3. entry \in RowType /\ entry.user = u /\ entry.epoch = epoch[u] /\ (Locked(u) => entry.raced)
    BY <2>1, <2>2 DEF Row, RowType
  <2> HIDE DEF entry
  <2>4. entry.user \in Members /\ (entry.user \in Changing => entry.raced)
    BY <1>3, <2>3 DEF Members, Changing
  <2>5. RowsFit(Append(sessions, entry), tx.sessions, Members, epoch, Changing)
    BY <2>3, <2>4, FitInserted DEF MemberInv
  <2> QED
    BY <1>1, <1>2, <1>3, <2>5 DEF MemberInv
<1>4. CASE sessions' = sessions
  BY <1>1, <1>2, <1>4 DEF MemberInv
<1> QED
  BY <1>1, <1>3, <1>4

\* A player session is opened for a member, of now.
LEMMA PlayerOpened ==
  ASSUME TeamInv, MemberInv, NEW h \in DOMAIN handoffs, OpenPlayer(h)
  PROVE  MemberInv'
<1> DEFINE u == handoffs[h].user
           Handoff == [user : Guest, state : {"open", "used"}, epoch : Nat]
           entry == Row(u, handoffs[h].epoch)
<1>1. /\ UNCHANGED <<status, epoch, sessions, owned, resets, tx>>
      /\ handoffs' = SetState(handoffs, {h}, "used")
      /\ players' = players \/ (Active(u) /\ players' = Append(players, entry))
  BY DEF OpenPlayer, ExchangeHandoff
<1>2. UNCHANGED <<Members, Changing>>
  BY <1>1 DEF Members, Changing, Active, Locked
<1>3. handoffs \in Seq(Handoff)
  BY DEF MemberInv
<1>4. handoffs' \in Seq(Handoff)
  BY <1>1, <1>3, StatesSet
<1>5. handoffs[h] \in Handoff
  BY <1>3, RowsOf
<1>6. u \in Guest
  BY <1>5
<1>7. CASE Active(u) /\ players' = Append(players, entry)
  <2>1. epoch[u] \in Nat
    BY <1>6 DEF TeamInv, PeopleTypeOK
  <2>2. (Locked(u) \/ handoffs[h].epoch # epoch[u]) \in BOOLEAN
    BY Zenon
  <2>3. entry \in RowType /\ entry.user = u /\ entry.epoch = epoch[u] /\ (Locked(u) => entry.raced)
    BY <1>6, <2>1, <2>2 DEF Row, RowType
  <2> HIDE DEF entry
  <2>4. entry.user \in Members /\ (entry.user \in Changing => entry.raced)
    BY <1>6, <1>7, <2>3 DEF Members, Changing
  <2>5. RowsFit(Append(players, entry), tx.players, Members, epoch, Changing)
    BY <2>3, <2>4, FitInserted DEF MemberInv
  <2> QED
    BY <1>1, <1>2, <1>4, <1>7, <2>5 DEF MemberInv
<1>8. CASE players' = players
  BY <1>1, <1>2, <1>4, <1>8 DEF MemberInv
<1> QED
  BY <1>1, <1>7, <1>8

\* A deck is entered for a member, or marked.
LEMMA DeckEntered ==
  ASSUME TeamInv, MemberInv, NEW u \in Guest, InsertDeck(u)
  PROVE  MemberInv'
<1> DEFINE entry == [user |-> u, raced |-> ~Active(u) \/ Locked(u)]
<1>1. /\ UNCHANGED <<status, epoch, sessions, players, resets, handoffs, tx>>
      /\ owned' = Append(owned, entry)
  BY DEF InsertDeck
<1>2. UNCHANGED <<Members, Changing>>
  BY <1>1 DEF Members, Changing, Active, Locked
<1>3. (~Active(u) \/ Locked(u)) \in BOOLEAN
  BY Zenon
<1>4. entry \in DeckRow /\ entry.user = u /\ (~entry.raced => Active(u) /\ ~Locked(u))
  BY <1>3 DEF DeckRow
<1> HIDE DEF entry
<1>5. ~entry.raced => entry.user \in Members \ Changing
  BY <1>4 DEF Members, Changing
<1>6. DecksFit(owned', tx.decks, Members, Changing)
  BY <1>1, <1>4, <1>5, DeckInserted DEF MemberInv
<1> QED
  BY <1>1, <1>2, <1>6 DEF MemberInv

\* Signing out ends sessions, and no transaction is in its way.
LEMMA LoggedOut ==
  ASSUME MemberInv, NEW s \in DOMAIN sessions, Logout(s)
  PROVE  MemberInv'
<1>1. /\ UNCHANGED <<status, epoch, owned, resets, handoffs, tx>>
      /\ sessions' = Revoked(sessions, {s})
      /\ players' = Revoked(players, PlayersOf(sessions[s].user))
  BY DEF Logout
<1>2. UNCHANGED <<Members, Changing>>
  BY <1>1 DEF Members, Changing, Active, Locked
<1>3. /\ RowsFit(sessions', tx.sessions, Members, epoch, Changing)
      /\ RowsFit(players', tx.players, Members, epoch, Changing)
  BY <1>1, FitRevoked DEF MemberInv
<1> QED
  BY <1>1, <1>2, <1>3 DEF MemberInv

\* Somebody who is no member becomes one.
LEMMA MemberAdmitted ==
  ASSUME TeamInv, MemberInv, NEW i \in DOMAIN invites, AcceptInvitation(i)
  PROVE  MemberInv'
<1> DEFINE u == invites[i].user
<1>1. /\ UNCHANGED <<sessions, players, owned, resets, handoffs, tx>>
      /\ ~Active(u) /\ status' = [status EXCEPT ![u] = "active"]
      /\ epoch' = [epoch EXCEPT ![u] = @ + 1]
  BY DEF AcceptInvitation, Admit
<1>2. /\ DOMAIN status = Guest /\ DOMAIN epoch = Guest
      /\ status = [v \in Guest |-> status[v]] /\ epoch = [v \in Guest |-> epoch[v]]
  BY DEF TeamInv, PeopleTypeOK
<1>3. Members \subseteq Members' /\ Changing' = Changing
  BY <1>1, <1>2 DEF Members, Changing, Active, Locked
<1>4. \A v \in Members : epoch'[v] = epoch[v]
  BY <1>1, <1>2 DEF Members
<1>5. DecksFit(owned, tx.decks, Members', Changing)
  BY <1>3 DEF MemberInv, DecksFit
<1>6. /\ RowsFit(sessions, tx.sessions, Members', epoch', Changing)
      /\ RowsFit(players, tx.players, Members', epoch', Changing)
  BY <1>3, <1>4, FitAdmitted DEF MemberInv
<1> QED
  BY <1>1, <1>3, <1>5, <1>6 DEF MemberInv

\* A transaction begins with what its statements find.
LEMMA TransactionBegins ==
  ASSUME MemberInv, NEW u \in Guest, NEW kind \in {"remove", "reset"}, tx' = Found(kind, u),
         UNCHANGED <<status, epoch, tables>>
  PROVE  MemberInv'
<1>1. /\ tx'.kind = kind /\ tx'.user = u /\ tx'.sessions = SessionsOf(u)
      /\ tx'.players = PlayersOf(u) /\ tx'.decks = {d \in DOMAIN owned : owned[d].user = u}
  BY DEF Found
<1>2. Members' = Members /\ Changing' = {u}
  BY <1>1 DEF Members, Changing, Active, Locked
<1>3. RowsFit(sessions, SessionsOf(u), Members, epoch, {u})
  BY FitFound DEF MemberInv, SessionsOf
<1>4. RowsFit(players, PlayersOf(u), Members, epoch, {u})
  BY FitFound DEF MemberInv, PlayersOf
<1>5. DecksFit(owned, tx'.decks, Members, {u})
  BY <1>1 DEF MemberInv, DecksFit
<1> QED
  BY <1>1, <1>2, <1>3, <1>4, <1>5 DEF MemberInv, tables

\* A transaction commits: all sessions end, of somebody who is removed or not.
LEMMA TransactionCommits ==
  ASSUME TeamInv, MemberInv, RemoveMember \/ ResetPassword
  PROVE  MemberInv'
<1> DEFINE u == tx.user
<1>1. /\ u \in Guest /\ tx' = NoTx /\ tx'.kind = "none" /\ Changing = {u} /\ Changing' = {}
      /\ UNCHANGED handoffs
  BY DEF MemberInv, RemoveMember, ResetPassword, NoTx, Changing, Locked
<1>2. /\ sessions' = Revoked(sessions, tx.sessions) /\ players' = Revoked(players, tx.players)
      /\ epoch' = [epoch EXCEPT ![u] = @ + 1]
  BY DEF RemoveMember, ResetPassword, EndSessions
<1>3. Members \ {u} \subseteq Members'
  <2>1. status' = status \/ status' = [status EXCEPT ![u] = "inactive"]
    BY DEF RemoveMember, ResetPassword
  <2>2. DOMAIN status = Guest
    BY DEF TeamInv, PeopleTypeOK
  <2> QED
    BY <2>1, <2>2 DEF Members, Active
<1>4. \A v \in Members \ {u} : epoch'[v] = epoch[v]
  BY <1>2 DEF TeamInv, PeopleTypeOK, Members
<1>5. /\ RowsFit(sessions', tx'.sessions, Members', epoch', {})
      /\ RowsFit(players', tx'.players, Members', epoch', {})
  <2>1. /\ RowsFit(sessions, tx.sessions, Members, epoch, {u})
        /\ RowsFit(players, tx.players, Members, epoch, {u})
    BY <1>1 DEF MemberInv
  <2> HIDE DEF u
  <2>2. RowsFit(Revoked(sessions, tx.sessions), tx'.sessions, Members', epoch', {})
    BY <1>3, <1>4, <2>1, FitEnded
  <2>3. RowsFit(Revoked(players, tx.players), tx'.players, Members', epoch', {})
    BY <1>3, <1>4, <2>1, FitEnded
  <2> QED
    BY <1>2, <2>2, <2>3
<1>6. DecksFit(owned', tx'.decks, Members', {})
  <2>1. CASE RemoveMember
    <3>1. tx.kind = "remove" /\ owned' = Transferred
      BY <2>1 DEF RemoveMember
    <3> QED
      BY <1>3, <3>1, DecksHandedOver
  <2>2. CASE ResetPassword
    <3>1. owned' = owned /\ Members' = Members
      BY <2>2 DEF ResetPassword, Members, Active
    <3> QED
      BY <3>1 DEF MemberInv, DecksFit
  <2> QED
    BY <2>1, <2>2
<1>7. resets' \in Seq([user : Guest, state : {"open", "used"}])
  <2> DEFINE Reset == [user : Guest, state : {"open", "used"}]
  <2>1. resets \in Seq(Reset) /\ \A r \in Reset : [r EXCEPT !.state = "used"] \in Reset
    BY DEF MemberInv
  <2>2. resets' = resets \/ resets' = SetState(resets, tx.resets, "used")
    BY DEF RemoveMember, ResetPassword
  <2> HIDE DEF Reset
  <2>3. resets' \in Seq(Reset)
    BY <2>1, <2>2, StatesSet
  <2> QED
    BY <2>3 DEF Reset
<1> QED
  BY <1>1, <1>5, <1>6, <1>7 DEF MemberInv

\* A step that leaves members, sessions and decks alone; rows of the other tables keep
\* their type.
LEMMA MembersRest ==
  ASSUME MemberInv, UNCHANGED <<status, epoch, sessions, players, owned, tx>>,
         resets' \in Seq([user : Guest, state : {"open", "used"}]),
         handoffs' \in Seq([user : Guest, state : {"open", "used"}, epoch : Nat])
  PROVE  MemberInv'
<1>1. UNCHANGED <<Members, Changing>>
  BY DEF Members, Changing, Active, Locked
<1> QED
  BY <1>1 DEF MemberInv

\* No step leaves a session that opens after what should have ended it, or a deck with
\* somebody who cannot open it.
LEMMA MemberStep == TeamInv /\ MemberInv /\ [TeamNext]_teamVars => MemberInv'
<1> SUFFICES ASSUME TeamInv, MemberInv, [TeamNext]_teamVars PROVE MemberInv'
  OBVIOUS
<1> DEFINE Reset == [user : Guest, state : {"open", "used"}]
           Handoff == [user : Guest, state : {"open", "used"}, epoch : Nat]
<1>1. resets \in Seq(Reset) /\ handoffs \in Seq(Handoff)
  BY DEF MemberInv
<1>2. \A s \in DOMAIN sessions : sessions[s].user \in Guest
  <2>1. sessions \in Seq(RowType)
    BY DEF MemberInv, RowsFit
  <2>2. \A s \in DOMAIN sessions : sessions[s] \in RowType
    BY <2>1, RowsOf
  <2> QED
    BY <2>2 DEF RowType
<1>3. ASSUME NEW u \in Guest,
             CheckInvitee(u) \/ InsertInvitation(u) \/ CheckPassword(u)
      PROVE  MemberInv'
  <2>1. UNCHANGED <<status, epoch, sessions, players, owned, tx, resets, handoffs>>
    BY <1>3 DEF CheckInvitee, InsertInvitation, CheckPassword, tables
  <2> QED
    BY <1>1, <2>1, MembersRest
<1>4. ASSUME NEW u \in Guest, ForgotPassword(u)
      PROVE  MemberInv'
  <2> DEFINE new == [user |-> u, state |-> "open"]
  <2>1. /\ UNCHANGED <<status, epoch, sessions, players, owned, tx, handoffs>>
        /\ resets' = Append(resets, new)
    BY <1>4 DEF ForgotPassword, CreatePasswordReset
  <2>2. new \in Reset
    OBVIOUS
  <2> HIDE DEF new, Reset
  <2>3. resets' \in Seq(Reset)
    BY <1>1, <2>1, <2>2, RowInserted
  <2> QED
    BY <1>1, <2>1, <2>3, MembersRest DEF Reset
<1>5. ASSUME NEW u \in Guest, BeginRemoveMember(u)
      PROVE  MemberInv'
  BY <1>5, TransactionBegins DEF BeginRemoveMember
<1>6. ASSUME NEW i \in DOMAIN invites,
             RevokeInvitation(i) \/ ResendInvitation(i) \/ InvitationExpires(i)
      PROVE  MemberInv'
  <2>1. UNCHANGED <<status, epoch, sessions, players, owned, tx, resets, handoffs>>
    BY <1>6 DEF RevokeInvitation, ResendInvitation, InvitationExpires
  <2> QED
    BY <1>1, <2>1, MembersRest
<1>7. ASSUME NEW s \in DOMAIN sessions, LaunchDeck(s)
      PROVE  MemberInv'
  <2> DEFINE u == sessions[s].user
             new == [user |-> u, state |-> "open", epoch |-> epoch[u]]
  <2>1. /\ UNCHANGED <<status, epoch, sessions, players, owned, tx, resets>>
        /\ handoffs' = Append(handoffs, new)
    BY <1>7 DEF LaunchDeck, CreateHandoff
  <2>2. new \in Handoff
    BY <1>2 DEF TeamInv, PeopleTypeOK
  <2> HIDE DEF new, Handoff
  <2>3. handoffs' \in Seq(Handoff)
    BY <1>1, <2>1, <2>2, RowInserted
  <2> QED
    BY <1>1, <2>1, <2>3, MembersRest DEF Handoff
<1>8. ASSUME NEW s \in DOMAIN sessions, BeginCreateDeck(s)
      PROVE  MemberInv'
  <2>1. UNCHANGED <<status, epoch, sessions, players, owned, tx, resets, handoffs>>
    BY <1>8 DEF BeginCreateDeck, tables
  <2> QED
    BY <1>1, <2>1, MembersRest
<1>9. ASSUME NEW r \in DOMAIN resets, BeginResetPassword(r)
      PROVE  MemberInv'
  <2>1. resets[r].user \in Guest
    <3>1. resets[r] \in Reset
      BY <1>1, RowsOf
    <3> QED
      BY <3>1
  <2> QED
    BY <1>9, <2>1, TransactionBegins DEF BeginResetPassword
<1>10. CASE TransactionFails
  <2>1. UNCHANGED <<status, epoch, tables>> /\ tx' = NoTx /\ tx'.kind = "none"
    BY <1>10 DEF TransactionFails, NoTx
  <2>2. Members' = Members /\ Changing' = {}
    BY <2>1 DEF Members, Changing, Active, Locked
  <2>3. /\ RowsFit(sessions, tx'.sessions, Members, epoch, {})
        /\ RowsFit(players, tx'.players, Members, epoch, {})
    BY FitForgotten DEF MemberInv
  <2>4. DecksFit(owned, tx'.decks, Members, {})
    BY DEF MemberInv, DecksFit
  <2> QED
    BY <1>1, <2>1, <2>2, <2>3, <2>4 DEF MemberInv, tables
<1>11. CASE UNCHANGED teamVars
  <2>1. UNCHANGED <<status, epoch, sessions, players, owned, tx, resets, handoffs>>
    BY <1>11 DEF teamVars, tables
  <2> QED
    BY <1>1, <2>1, MembersRest
<1> QED
  BY <1>3, <1>4, <1>5, <1>6, <1>7, <1>8, <1>9, <1>10, <1>11, SessionCreated, PlayerOpened,
     DeckEntered, LoggedOut, MemberAdmitted, TransactionCommits, Zenon DEF TeamNext

(***************************************************************************)
(* Whoever resets the password or is removed ends the sessions there are,  *)
(* and no deck belongs to somebody who cannot open it, however requests    *)
(* and transactions interleave, but for the rows that raced.               *)
(***************************************************************************)
THEOREM MembersKept == TeamSpec => [](SessionsEnd /\ DecksKept)
<1>1. TeamInv /\ MemberInv => SessionsEnd /\ DecksKept
  <2> SUFFICES ASSUME MemberInv PROVE SessionsEnd /\ DecksKept
    OBVIOUS
  <2>1. SessionsEnd
    <3>1. ASSUME NEW table \in {sessions, players}
          PROVE  \E found : RowsFit(table, found, Members, epoch, Changing)
      BY <3>1 DEF MemberInv
    <3> QED
      BY <3>1 DEF SessionsEnd, RowsFit, Opens
  <2>2. DecksKept
    BY DEF MemberInv, DecksKept, DecksFit, Members
  <2> QED
    BY <2>1, <2>2
<1> QED
  BY <1>1, TeamInvariance, MembersStart, MemberStep, PTL DEF TeamSpec

--------------------------------------------------------------------------------
\* Who sees and edits the decks (Access).

QrLink == [talk : Talk, live : BOOLEAN, meant : BOOLEAN]
WaitingEdit == [talk : Talk \cup {0}, overtaken : BOOLEAN]

AccessTyped ==
  /\ rooms \in [Talk -> [owner : Person, shown : {"private", "team"}]]
  /\ qrs \in Seq(QrLink)
  /\ cookies \in [Person -> [Talk -> 0 .. Len(qrs)]]
  /\ writers \in [Person -> WaitingEdit]

\* Links are made by the owner or for the follow deck; edits are asked for by the owner.
AccessInv ==
  /\ AccessTyped
  /\ \A i \in DOMAIN qrs : qrs[i].meant
  /\ EditedByItsOwner

\* At first there are no links and no edits.
LEMMA AccessStart == AccessInit => AccessInv
<1> SUFFICES ASSUME AccessInit PROVE AccessInv
  OBVIOUS
<1>1. PICK first \in Person :
        rooms = [t \in Talk |-> [owner |-> first, shown |-> "private"]]
  BY DEF AccessInit
<1>2. qrs = <<>> /\ Len(qrs) = 0 /\ DOMAIN qrs = {} /\ qrs \in Seq(QrLink)
  BY DEF AccessInit
<1>3. \A p \in Person : writers[p] = NotWriting
  BY DEF AccessInit
<1>4. cookies \in [Person -> [Talk -> 0 .. Len(qrs)]]
  BY <1>2 DEF AccessInit
<1>5. writers \in [Person -> WaitingEdit]
  BY DEF AccessInit, NotWriting, WaitingEdit
<1> QED
  BY <1>1, <1>2, <1>3, <1>4, <1>5 DEF AccessInv, AccessTyped, EditedByItsOwner

\* A link that is made is the last one, and meant.
LEMMA MintedLink ==
  ASSUME AccessInv, NEW t \in Talk, NEW by, by = rooms[t].owner \/ t = FollowTalk,
         MintShare(t, by)
  PROVE  /\ qrs' \in Seq(QrLink) /\ Len(qrs') = Len(qrs) + 1 /\ Len(qrs) \in Nat
         /\ \A i \in DOMAIN qrs' : qrs'[i].meant
         /\ cookies \in [Person -> [Talk -> 0 .. Len(qrs')]]
<1> DEFINE new == [talk |-> t, live |-> TRUE, meant |-> by = rooms[t].owner \/ t = FollowTalk]
<1>1. new \in QrLink /\ new.meant
  BY Zenon DEF QrLink
<1>2. qrs' = Append(qrs, new) /\ qrs \in Seq(QrLink)
  BY DEF MintShare, AccessInv, AccessTyped
<1> HIDE DEF new
<1>3. /\ qrs' \in Seq(QrLink) /\ Len(qrs') = Len(qrs) + 1 /\ Len(qrs) \in Nat
      /\ \A i \in 1 .. Len(qrs) : qrs'[i] = qrs[i]
      /\ qrs'[Len(qrs) + 1] = new
  BY <1>1, <1>2
<1>4. DOMAIN qrs = 1 .. Len(qrs) /\ DOMAIN qrs' = 1 .. Len(qrs')
  BY <1>2, <1>3
<1>5. \A i \in DOMAIN qrs' : qrs'[i].meant
  BY <1>1, <1>3, <1>4 DEF AccessInv
<1>6. 0 .. Len(qrs) \subseteq 0 .. Len(qrs')
  BY <1>3
<1>7. cookies \in [Person -> [Talk -> 0 .. Len(qrs')]]
  BY <1>6 DEF AccessInv, AccessTyped
<1> QED
  BY <1>3, <1>5, <1>7

\* A cookie names one of the links.
LEMMA CookieSet ==
  ASSUME NEW n \in Nat, cookies \in [Person -> [Talk -> 0 .. n]],
         NEW p \in Person, NEW t \in Talk, NEW i \in 1 .. n, SetShareCookie(p, t, i)
  PROVE  cookies' \in [Person -> [Talk -> 0 .. n]]
BY DEF SetShareCookie

\* The links' lives end, and nothing else of them changes.
LEMMA LinksEnd ==
  ASSUME AccessInv, NEW live \in [DOMAIN qrs -> BOOLEAN],
         qrs' = [i \in DOMAIN qrs |-> [qrs[i] EXCEPT !.live = live[i]]]
  PROVE  /\ qrs' \in Seq(QrLink) /\ Len(qrs') = Len(qrs) /\ \A i \in DOMAIN qrs' : qrs'[i].meant
<1>1. qrs \in Seq(QrLink) /\ Len(qrs) \in Nat /\ DOMAIN qrs = 1 .. Len(qrs)
  BY DEF AccessInv, AccessTyped
<1>2. DOMAIN qrs' = 1 .. Len(qrs) /\ qrs' = [i \in 1 .. Len(qrs) |-> qrs'[i]]
  BY <1>1
<1>3. ASSUME NEW i \in 1 .. Len(qrs) PROVE qrs'[i] \in QrLink /\ qrs'[i].meant
  <2>1. qrs[i] \in QrLink /\ qrs[i].meant /\ live[i] \in BOOLEAN
    BY <1>1 DEF AccessInv
  <2>2. qrs'[i] = [qrs[i] EXCEPT !.live = live[i]]
    BY <1>1
  <2> QED
    BY <2>1, <2>2 DEF QrLink
<1>4. qrs' \in [1 .. Len(qrs) -> QrLink]
  BY <1>2, <1>3
<1>5. qrs' \in Seq(QrLink)
  BY <1>1, <1>4
<1>6. Len(qrs') = Len(qrs)
  BY <1>1, <1>2, <1>5
<1> QED
  BY <1>2, <1>3, <1>5, <1>6

\* An edit that waits when its deck changes hands is overtaken.
LEMMA HandedOver ==
  ASSUME AccessInv, NEW t \in Talk, NEW q \in Person, HandOver(t, q)
  PROVE  AccessInv'
<1>1. UNCHANGED <<qrs, cookies>> /\ rooms' = [rooms EXCEPT ![t].owner = q]
  BY DEF HandOver
<1>2. /\ rooms' \in [Talk -> [owner : Person, shown : {"private", "team"}]]
      /\ \A s \in Talk \ {t} : rooms'[s].owner = rooms[s].owner
  BY <1>1 DEF AccessInv, AccessTyped
<1>3. ASSUME NEW p \in Person
      PROVE  /\ writers'[p] \in WaitingEdit
             /\ \/ writers'[p] = writers[p] /\ writers[p].talk # t
                \/ writers'[p].overtaken
  <2>1. writers[p] \in WaitingEdit
    BY DEF AccessInv, AccessTyped
  <2>2. writers'[p] = IF writers[p].talk = t THEN [writers[p] EXCEPT !.overtaken = TRUE]
                                             ELSE writers[p]
    BY DEF HandOver
  <2> QED
    BY <2>1, <2>2 DEF WaitingEdit
<1>4. writers' = [p \in Person |-> writers'[p]]
  BY DEF HandOver
<1>5. writers' \in [Person -> WaitingEdit]
  BY <1>3, <1>4
<1>6. ASSUME NEW p \in Person
      PROVE  \/ writers'[p] = NotWriting \/ writers'[p].overtaken
             \/ rooms'[writers'[p].talk].owner = p
  <2> SUFFICES ASSUME writers'[p] # NotWriting, ~writers'[p].overtaken
               PROVE  rooms'[writers'[p].talk].owner = p
    OBVIOUS
  <2>1. /\ writers'[p] = writers[p] /\ writers[p].talk # t /\ writers[p] \in WaitingEdit
        /\ rooms[writers[p].talk].owner = p
    BY <1>3 DEF AccessInv, EditedByItsOwner
  <2>2. CASE writers[p].talk \in Talk
    BY <1>2, <2>1, <2>2
  <2>3. CASE writers[p].talk = 0
    <3>1. rooms' = rooms \/ rooms'[0] = rooms[0]
      BY <1>1, AccessAssumption DEF AccessInv, AccessTyped
    <3> QED
      BY <2>1, <2>3, <3>1
  <2> QED
    BY <2>1, <2>2, <2>3 DEF WaitingEdit
<1> QED
  BY <1>1, <1>2, <1>5, <1>6 DEF AccessInv, AccessTyped, EditedByItsOwner

\* No step makes a link for another deck, or an edit of somebody else's.
LEMMA AccessStep == AccessInv /\ [AccessNext]_accessVars => AccessInv'
<1> SUFFICES ASSUME AccessInv, [AccessNext]_accessVars PROVE AccessInv'
  OBVIOUS
<1>1. AccessTyped /\ EditedByItsOwner /\ \A i \in DOMAIN qrs : qrs[i].meant
  BY DEF AccessInv
<1>2. ASSUME NEW p \in Person, NEW t \in Talk, ShareDeck(p, t) \/ ShareQR(p, t)
      PROVE  AccessInv'
  <2>1. rooms[t].owner = p /\ MintShare(t, p) /\ UNCHANGED <<rooms, cookies, writers>>
    BY <1>2 DEF ShareDeck, ShareQR
  <2> QED
    BY <1>1, <2>1, MintedLink DEF AccessInv, AccessTyped, EditedByItsOwner
<1>3. ASSUME NEW p \in Person, FollowLanding(p)
      PROVE  AccessInv'
  <2>1. /\ MintShare(FollowTalk, p) /\ SetShareCookie(p, FollowTalk, Len(qrs) + 1)
        /\ UNCHANGED <<rooms, writers>> /\ FollowTalk \in Talk
    BY <1>3, AccessAssumption DEF FollowLanding
  <2>2. /\ qrs' \in Seq(QrLink) /\ Len(qrs') = Len(qrs) + 1 /\ Len(qrs) \in Nat
        /\ \A i \in DOMAIN qrs' : qrs'[i].meant
        /\ cookies \in [Person -> [Talk -> 0 .. Len(qrs')]]
    BY <2>1, MintedLink
  <2>3. Len(qrs') \in Nat /\ Len(qrs) + 1 \in 1 .. Len(qrs')
    BY <2>2
  <2>4. cookies' \in [Person -> [Talk -> 0 .. Len(qrs')]]
    BY <2>1, <2>2, <2>3, CookieSet
  <2> QED
    BY <1>1, <2>1, <2>2, <2>4 DEF AccessInv, AccessTyped, EditedByItsOwner
<1>4. ASSUME NEW p \in Person, NEW t \in Talk, NEW i \in DOMAIN qrs, LandOnShare(p, t, i)
      PROVE  AccessInv'
  <2>1. SetShareCookie(p, t, i) /\ UNCHANGED <<rooms, qrs, writers>>
    BY <1>4 DEF LandOnShare
  <2>2. Len(qrs) \in Nat /\ i \in 1 .. Len(qrs)
    BY <1>1 DEF AccessTyped
  <2>3. cookies' \in [Person -> [Talk -> 0 .. Len(qrs)]]
    BY <1>1, <2>1, <2>2, CookieSet DEF AccessTyped
  <2> QED
    BY <1>1, <2>1, <2>3 DEF AccessInv, AccessTyped, EditedByItsOwner
<1>5. ASSUME NEW i \in DOMAIN qrs, ShareExpires(i)
      PROVE  AccessInv'
  <2> DEFINE live == [j \in DOMAIN qrs |-> IF j = i THEN FALSE ELSE qrs[j].live]
  <2>1. \A j \in DOMAIN qrs : qrs[j] \in QrLink
    BY <1>1 DEF AccessTyped
  <2>2. live \in [DOMAIN qrs -> BOOLEAN]
    BY <2>1 DEF QrLink
  <2>3. UNCHANGED <<rooms, cookies, writers>> /\ qrs' = [qrs EXCEPT ![i].live = FALSE]
    BY <1>5 DEF ShareExpires
  <2>4. /\ DOMAIN qrs' = DOMAIN qrs /\ qrs' = [j \in DOMAIN qrs |-> qrs'[j]]
        /\ \A j \in DOMAIN qrs : qrs'[j] = [qrs[j] EXCEPT !.live = live[j]]
    <3>1. qrs = [j \in DOMAIN qrs |-> qrs[j]]
      BY <1>1 DEF AccessTyped
    <3>2. \A j \in DOMAIN qrs : [qrs[j] EXCEPT !.live = qrs[j].live] = qrs[j]
      BY <2>1 DEF QrLink
    <3> QED
      BY <2>3, <3>1, <3>2
  <2>5. qrs' = [j \in DOMAIN qrs |-> [qrs[j] EXCEPT !.live = live[j]]]
    BY <2>4
  <2> HIDE DEF live
  <2>6. qrs' \in Seq(QrLink) /\ Len(qrs') = Len(qrs) /\ \A j \in DOMAIN qrs' : qrs'[j].meant
    BY <2>2, <2>5, LinksEnd
  <2> QED
    BY <1>1, <2>3, <2>6 DEF AccessInv, AccessTyped, EditedByItsOwner
<1>6. CASE Reboot
  <2> DEFINE live == [j \in DOMAIN qrs |-> qrs[j].live /\ configured]
  <2>1. live \in [DOMAIN qrs -> BOOLEAN]
    OBVIOUS
  <2>2. qrs' = [j \in DOMAIN qrs |-> [qrs[j] EXCEPT !.live = live[j]]]
    BY <1>6 DEF Reboot
  <2> HIDE DEF live
  <2>3. qrs' \in Seq(QrLink) /\ Len(qrs') = Len(qrs) /\ \A j \in DOMAIN qrs' : qrs'[j].meant
    BY <2>1, <2>2, LinksEnd
  <2>4. /\ UNCHANGED <<rooms, cookies>> /\ writers' = [p \in Person |-> NotWriting]
    BY <1>6 DEF Reboot
  <2>5. writers' \in [Person -> WaitingEdit]
    BY <2>4 DEF NotWriting, WaitingEdit
  <2> QED
    BY <1>1, <2>3, <2>4, <2>5 DEF AccessInv, AccessTyped, EditedByItsOwner
<1>7. ASSUME NEW p \in Person, NEW t \in Talk, NEW mode, Launch(p, t, mode)
      PROVE  AccessInv'
  BY <1>1, <1>7 DEF Launch, AccessInv, AccessTyped, EditedByItsOwner
<1>8. ASSUME NEW t \in Talk, NEW whom \in {"private", "team"}, ShowTo(t, whom)
      PROVE  AccessInv'
  <2>1. UNCHANGED <<qrs, cookies, writers>> /\ rooms' = [rooms EXCEPT ![t].shown = whom]
    BY <1>8 DEF ShowTo
  <2>2. /\ rooms' \in [Talk -> [owner : Person, shown : {"private", "team"}]]
        /\ \A s \in Talk : rooms'[s].owner = rooms[s].owner
    BY <1>1, <2>1 DEF AccessTyped
  <2>3. ASSUME NEW p \in Person, writers[p] # NotWriting, ~writers[p].overtaken
        PROVE  writers[p].talk \in Talk
    <3>1. writers[p] \in WaitingEdit
      BY <1>1 DEF AccessTyped
    <3> QED
      BY <2>3, <3>1 DEF WaitingEdit, NotWriting
  <2> QED
    BY <1>1, <2>1, <2>2, <2>3 DEF AccessInv, AccessTyped, EditedByItsOwner
<1>9. ASSUME NEW p \in Person, NEW t \in Talk, AskEdit(p, t)
      PROVE  AccessInv'
  <2>1. /\ UNCHANGED <<rooms, qrs, cookies>> /\ writers' = [writers EXCEPT ![p].talk = t]
        /\ rooms[t].owner = p
    BY <1>9 DEF AskEdit, CanEdit, Can
  <2>2. writers' \in [Person -> WaitingEdit] /\ writers'[p].talk = t
        /\ \A q \in Person \ {p} : writers'[q] = writers[q]
    BY <1>1, <2>1 DEF AccessTyped, WaitingEdit
  <2> QED
    BY <1>1, <2>1, <2>2 DEF AccessInv, AccessTyped, EditedByItsOwner
<1>10. ASSUME NEW p \in Person, MakeEdit(p)
       PROVE  AccessInv'
  <2>1. UNCHANGED <<rooms, qrs, cookies>> /\ writers' = [writers EXCEPT ![p] = NotWriting]
    BY <1>10 DEF MakeEdit
  <2>2. /\ writers' \in [Person -> WaitingEdit] /\ writers'[p] = NotWriting
        /\ \A q \in Person \ {p} : writers'[q] = writers[q]
    BY <1>1, <2>1 DEF AccessTyped, WaitingEdit, NotWriting
  <2> QED
    BY <1>1, <2>1, <2>2 DEF AccessInv, AccessTyped, EditedByItsOwner
<1>11. CASE UNCHANGED accessVars
  BY <1>1, <1>11 DEF accessVars, AccessInv, AccessTyped, EditedByItsOwner
<1>12. ASSUME NEW p \in Person, NEW t \in Talk, HandOver(t, p)
       PROVE  AccessInv'
  BY <1>12, HandedOver
<1> QED
  BY <1>2, <1>3, <1>4, <1>5, <1>6, <1>7, <1>8, <1>9, <1>10, <1>11, <1>12, Zenon DEF AccessNext

(***************************************************************************)
(* A deck is seen by those it is shown to, or by a link that was meant     *)
(* for it, and edited by its owner: for every set of people and decks, any *)
(* number of links, changes of hands and restarts.                         *)
(***************************************************************************)
THEOREM AccessIsKept == AccessSpec => [](SeenByThoseItIsShownTo /\ EditedByItsOwner)
<1>1. AccessSpec => []AccessInv
  BY AccessStart, AccessStep, PTL DEF AccessSpec
<1>2. AccessInv => SeenByThoseItIsShownTo /\ EditedByItsOwner
  <2> SUFFICES ASSUME AccessInv, NEW p \in Person, NEW t \in Talk, CanView(p, t)
               PROVE  \/ rooms[t].owner = p \/ rooms[t].shown = "team"
                      \/ \E i \in DOMAIN qrs : /\ i = cookies[p][t]
                                               /\ qrs[i].talk = t /\ qrs[i].live /\ qrs[i].meant
    BY DEF AccessInv, SeenByThoseItIsShownTo
  <2>1. CASE HasShare(p, t)
    <3>1. cookies[p][t] # 0 /\ cookies[p][t] \in 0 .. Len(qrs) /\ DOMAIN qrs = 1 .. Len(qrs)
      BY <2>1 DEF HasShare, AccessInv, AccessTyped
    <3>2. cookies[p][t] \in DOMAIN qrs
      BY <3>1
    <3> QED
      BY <2>1, <3>2 DEF HasShare, ShareValid, AccessInv
  <2>2. CASE Seated(p, t, {"view", "present", "edit"})
    BY <2>2 DEF Seated, Can
  <2> QED
    BY <2>1, <2>2 DEF CanView
<1> QED
  BY <1>1, <1>2, PTL

--------------------------------------------------------------------------------
\* Creation and visibility (DeckFiles).

Visibility == {"private", "team"}
Says == Visibility \cup {"torn"}
Making == [step : {"chosen", "clear", "writing", "listed", "written"}, key : Key, fork : BOOLEAN]
Directory == [has : {"none", "bare", "part", "whole"}, of : SUBSET Maker, shown : Says]
DeckListing == [owner : Maker \cup {Boss, "nobody"}, visibility : Visibility]
Toggling(t) == t \in [id : {t.id}, key : Key, step : {"set", "read", "done"}, to : Visibility,
                      raced : BOOLEAN]

DeckTyped ==
  /\ hosted \in BOOLEAN
  /\ making \in [Maker -> Making \cup {NoRequest}]
  /\ dir \in [Key -> Directory]
  /\ row \in [Key -> DeckListing \cup {NoRow}]
  /\ \A t \in toggle : Toggling(t)
  /\ signin \in [step : {"read"}, found : SUBSET Key] \cup {NotSigning}
  /\ taken \subseteq Key /\ served \subseteq Maker \X Key
  /\ starts \in 0 .. MaxStarts
  /\ unwritten \subseteq Key \X {"files", "visibility"}

Held(p, k) == making[p].step # "none" /\ making[p].key = k

\* The files of a deck are there, but for those nobody was told of.
FilesAre(k) ==
  /\ dir[k].has \in {"part", "whole"}
  /\ <<k, "files">> \notin unwritten => dir[k].has = "whole"

\* Who makes a deck is alone, at the step that its directory shows, and has no record yet.
MadeByOne(k) ==
  /\ \A p, q \in Maker : Held(p, k) /\ Held(q, k) => p = q
  /\ \A p \in Maker :
       Held(p, k) => /\ row[k] = NoRow
                     /\ making[p].step = "clear" => dir[k].has = "none"
                     /\ making[p].step = "writing" => dir[k].has = "bare" /\ dir[k].of = {p}
                     /\ making[p].step = "listed" => dir[k].has = "part" /\ dir[k].of = {p}
                     /\ making[p].step = "written" =>
                          /\ hosted /\ dir[k].of = {p} /\ dir[k].shown = "private"
                          /\ FilesAre(k)

\* A deck has a record, or is being made, and a record has a deck.
FilesAndRecord(k) ==
  /\ dir[k].has = "none" => dir[k].of = {}
  /\ hosted /\ dir[k].has = "whole" /\ row[k] = NoRow =>
       \E p \in Maker : Held(p, k) /\ making[p].step = "written"
  /\ row[k] = NoRow => /\ <<k, "visibility">> \in unwritten \/ dir[k].shown = "private"
                       /\ \A t \in toggle : t.key # k
  /\ row[k] # NoRow => hosted /\ dir[k].has \in {"part", "whole"}

\* One request that did not race another is on its way, or the file says what the record
\* does unless it could not be written.
ShownAsRecorded(k) ==
  row[k] # NoRow /\ (\A t \in toggle : t.key = k => ~t.raced) =>
    /\ \A t, u \in toggle :
         t.key = k /\ u.key = k /\ t.step # "done" /\ u.step # "done" => t = u
    /\ \A t \in toggle : t.key = k /\ t.step = "read" => t.to = row[k].visibility
    /\ /\ \A t \in toggle : t.key = k => t.step = "done"
       /\ <<k, "visibility">> \notin unwritten
       => dir[k].shown = row[k].visibility

ServedIsWhole(k) ==
  \A p \in Maker :
    <<p, k>> \in served => /\ FilesAre(k) /\ dir[k].of = {p}
                           /\ hosted => row[k] # NoRow /\ row[k].owner = p
                           /\ \A q \in Maker : ~Held(q, k)

DeckKeyInv(k) ==
  MadeByOne(k) /\ FilesAndRecord(k) /\ ShownAsRecorded(k) /\ ServedIsWhole(k)

DeckInv ==
  /\ DeckTyped
  /\ \A t \in toggle : row[t.key] # NoRow
  /\ \A k \in Key \ taken : DeckKeyInv(k)

\* A key on which nothing happens but that it may become doubtful.
KeyRests(k) ==
  /\ hosted' = hosted /\ taken \subseteq taken' /\ dir'[k] = dir[k] /\ row'[k] = row[k]
  /\ {t \in toggle' : t.key = k} = {t \in toggle : t.key = k}
  /\ \A p \in Maker : \/ making'[p] = making[p]
                      \/ ~Held(p, k) /\ ~Held(p, k)'
  /\ \A p \in Maker : <<p, k>> \in served' => <<p, k>> \in served
  /\ \A w : <<k, w>> \in unwritten' <=> <<k, w>> \in unwritten

\* Such a key keeps its invariant.
LEMMA RestingKey ==
  ASSUME NEW k \in Key, DeckKeyInv(k), KeyRests(k)
  PROVE  DeckKeyInv(k)'
<1> USE DEF KeyRests, Held
<1>1. \A t : t \in toggle' /\ t.key = k <=> t \in toggle /\ t.key = k
  OBVIOUS
<1>2. MadeByOne(k)'
  BY DEF DeckKeyInv, MadeByOne, FilesAre
<1>3. FilesAndRecord(k)'
  <2>1. /\ dir'[k].has = "none" => dir'[k].of = {}
        /\ row'[k] # NoRow => hosted' /\ dir'[k].has \in {"part", "whole"}
        /\ row'[k] = NoRow => /\ <<k, "visibility">> \in unwritten' \/ dir'[k].shown = "private"
                              /\ \A t \in toggle' : t.key # k
    BY <1>1 DEF DeckKeyInv, FilesAndRecord
  <2>2. hosted' /\ dir'[k].has = "whole" /\ row'[k] = NoRow =>
          \E p \in Maker : Held(p, k)' /\ making'[p].step = "written"
    BY DEF DeckKeyInv, FilesAndRecord
  <2> QED
    BY <2>1, <2>2 DEF FilesAndRecord
<1>4. ShownAsRecorded(k)'
  BY <1>1 DEF DeckKeyInv, ShownAsRecorded
<1>5. ServedIsWhole(k)'
  BY DEF DeckKeyInv, ServedIsWhole, FilesAre
<1> QED
  BY <1>2, <1>3, <1>4, <1>5 DEF DeckKeyInv

\* At first there is nothing.
LEMMA DeckStart == DeckInit => DeckInv
<1> SUFFICES ASSUME DeckInit PROVE DeckInv
  OBVIOUS
<1>1. DeckTyped
  BY DeckFilesAssumption
     DEF DeckInit, DeckTyped, NoDir, Directory, Says, Visibility, NotSigning, NoRequest
<1>2. ASSUME NEW k \in Key PROVE DeckKeyInv(k)
  BY DEF DeckInit, DeckKeyInv, MadeByOne, FilesAndRecord, ShownAsRecorded, ServedIsWhole, Held,
         NoDir, NoRequest
<1> QED
  BY <1>1, <1>2 DEF DeckInv, DeckInit

\* A request of somebody who makes a deck: the steps it may go to.
LEMMA RequestGoes ==
  ASSUME DeckTyped, NEW p \in Maker, making[p].step # "none"
  PROVE  /\ making[p] \in Making /\ making[p].key \in Key /\ Held(p, making[p].key)
         /\ EndRequest(p) => /\ making' \in [Maker -> Making \cup {NoRequest}]
                             /\ making'[p].step = "none"
                             /\ \A q \in Maker \ {p} : making'[q] = making[q]
         /\ \A step \in {"clear", "writing", "listed", "written"} :
              GoTo(p, step) => /\ making' \in [Maker -> Making \cup {NoRequest}]
                               /\ making'[p].step = step
                               /\ making'[p].key = making[p].key
                               /\ \A q \in Maker \ {p} : making'[q] = making[q]
<1>1. making[p] \in Making /\ making[p].key \in Key
  BY DEF DeckTyped, NoRequest, Making
<1>2. EndRequest(p) => /\ making' \in [Maker -> Making \cup {NoRequest}]
                       /\ making'[p].step = "none"
                       /\ \A q \in Maker \ {p} : making'[q] = making[q]
  BY DEF DeckTyped, EndRequest, NoRequest
<1>3. ASSUME NEW step \in {"clear", "writing", "listed", "written"}, GoTo(p, step)
      PROVE  /\ making' \in [Maker -> Making \cup {NoRequest}]
             /\ making'[p].step = step
             /\ making'[p].key = making[p].key
             /\ \A q \in Maker \ {p} : making'[q] = making[q]
  <2> DEFINE next == [making[p] EXCEPT !.step = step]
  <2>1. next \in Making /\ next.step = step /\ next.key = making[p].key
    BY <1>1 DEF Making
  <2>2. making' = [making EXCEPT ![p] = next]
    BY <1>3 DEF GoTo
  <2> HIDE DEF next
  <2> QED
    BY <2>1, <2>2 DEF DeckTyped
<1> QED
  BY <1>1, <1>2, <1>3 DEF Held

\* The keys but the one somebody works on rest.
LEMMA OthersRest ==
  ASSUME DeckInv, NEW p \in Maker, making[p].step # "none", making'[p].step = "none"
                                                     \/ making'[p].key = making[p].key,
         \A q \in Maker \ {p} : making'[q] = making[q],
         hosted' = hosted, taken' = taken, toggle' = toggle,
         \A k \in Key \ {making[p].key} : dir'[k] = dir[k] /\ row'[k] = row[k],
         \A q \in Maker, k \in Key :
           <<q, k>> \in served' => <<q, k>> \in served \/ k = making[p].key,
         \A k \in Key \ {making[p].key} : \A w :
           <<k, w>> \in unwritten' <=> <<k, w>> \in unwritten
  PROVE  \A k \in Key \ taken' : k # making[p].key => DeckKeyInv(k)'
<1> SUFFICES ASSUME NEW k \in Key \ taken', k # making[p].key PROVE DeckKeyInv(k)'
  OBVIOUS
<1>1. ~Held(p, k) /\ ~Held(p, k)'
  BY DEF Held
<1>2. KeyRests(k)
  BY <1>1 DEF KeyRests
<1> QED
  BY <1>2, RestingKey DEF DeckInv

\* Who asks for a key that somebody has makes it doubtful.
LEMMA KeyChosen ==
  ASSUME DeckInv, NEW p \in Maker, NEW key \in Key, UniqueStorageKey(p, key)
  PROVE  DeckInv'
<1>1. PICK fork \in BOOLEAN :
        making' = [making EXCEPT ![p] = [step |-> "chosen", key |-> key, fork |-> fork]]
  BY DEF UniqueStorageKey
<1> DEFINE new == [step |-> "chosen", key |-> key, fork |-> fork]
<1>2. new \in Making /\ new.step = "chosen" /\ new.key = key
  BY DEF Making
<1>3. making' = [making EXCEPT ![p] = new]
  BY <1>1
<1> HIDE DEF new
<1>4. making'[p] = new /\ \A q \in Maker \ {p} : making'[q] = making[q]
  BY <1>3 DEF DeckInv, DeckTyped
<1>5. DeckTyped'
  BY <1>2, <1>3 DEF UniqueStorageKey, DeckInv, DeckTyped, MakersOf, Toggling
<1>6. ASSUME NEW k \in Key \ taken' PROVE DeckKeyInv(k)'
  <2>1. k \in Key \ taken /\ making[p].step = "none" /\ ~Held(p, k) /\ DeckKeyInv(k)
        /\ UNCHANGED <<hosted, dir, row, toggle, served, unwritten>>
    BY DEF UniqueStorageKey, Held, DeckInv
  <2>2. CASE k # key
    <3>1. KeyRests(k)
      BY <1>2, <1>4, <2>1, <2>2 DEF KeyRests, Held, UniqueStorageKey
    <3> QED
      BY <2>1, <3>1, RestingKey
  <2>3. CASE k = key
    <3>1. \A q \in Maker : ~Held(q, k)
      BY <2>1, <2>3 DEF UniqueStorageKey, MakersOf, Held
    <3>2. \A q \in Maker : Held(q, k)' => q = p
      BY <1>4, <3>1 DEF Held
    <3>3. row[k] = NoRow
      BY <2>1, <2>3 DEF UniqueStorageKey, DeckKeyInv, FilesAndRecord
    <3>4. MadeByOne(k)'
      BY <1>2, <1>4, <2>1, <3>2, <3>3 DEF MadeByOne
    <3>5. FilesAndRecord(k)'
      BY <2>1, <3>1 DEF DeckKeyInv, FilesAndRecord
    <3>6. ShownAsRecorded(k)'
      BY <2>1 DEF DeckKeyInv, ShownAsRecorded
    <3>7. ServedIsWhole(k)'
      <4>1. \A q \in Maker : <<q, k>> \notin served
        BY <2>1, <2>3, <3>3 DEF DeckKeyInv, ServedIsWhole, FilesAre, UniqueStorageKey
      <4> QED
        BY <2>1, <4>1 DEF ServedIsWhole
    <3> QED
      BY <3>4, <3>5, <3>6, <3>7 DEF DeckKeyInv
  <2> QED
    BY <2>2, <2>3
<1> QED
  BY <1>5, <1>6 DEF DeckInv, UniqueStorageKey

\* A deck is made: each of the steps of who makes it.
LEMMA MakingStep ==
  ASSUME DeckInv, NEW p \in Maker,
         \/ CheckDirectory(p) \/ MakeDirectory(p) \/ WriteMeta(p)
         \/ WriteFiles(p) \/ WriteFails(p) \/ CreateDeck(p)
  PROVE  DeckInv'
<1>1. /\ making[p].step # "none" /\ UNCHANGED <<hosted, taken, toggle, signin, starts>>
      /\ bound' = bound
  BY DEF CheckDirectory, MakeDirectory, WriteMeta, WriteFiles, WriteFails, CreateDeck
<1>2. PICK k \in Key : k = making[p].key /\ making[p] \in Making /\ Held(p, k)
  BY <1>1, RequestGoes DEF DeckInv
<1>3. dir[k] \in Directory /\ row[k] \in DeckListing \cup {NoRow}
  BY <1>2 DEF DeckInv, DeckTyped
<1>4. \/ EndRequest(p)
      \/ \E step \in {"clear", "writing", "listed", "written"} : GoTo(p, step)
  BY DEF CheckDirectory, MakeDirectory, WriteMeta, WriteFiles, WriteFails, CreateDeck
<1>5. /\ making' \in [Maker -> Making \cup {NoRequest}]
      /\ making'[p].step = "none" \/ making'[p].key = k
      /\ \A q \in Maker \ {p} : making'[q] = making[q]
  BY <1>2, <1>1, <1>4, RequestGoes DEF DeckInv
<1>6. k \notin taken =>
        /\ DeckKeyInv(k) /\ row[k] = NoRow /\ \A q \in Maker : Held(q, k) => q = p
        /\ \A q \in Maker : <<q, k>> \notin served
  BY <1>2, Zenon DEF DeckInv, DeckKeyInv, MadeByOne, ServedIsWhole
<1>7. k \notin taken => \A q \in Maker \ {p} : ~Held(q, k)'
  BY <1>2, <1>5, <1>6 DEF Held
<1>8. SUFFICES /\ dir' \in [Key -> Directory] /\ row' \in [Key -> DeckListing \cup {NoRow}]
               /\ \A j \in Key \ {k} : dir'[j] = dir[j] /\ row'[j] = row[j]
               /\ row'[k] = row[k] \/ row'[k] # NoRow
               /\ served' \subseteq served \cup {<<p, k>>}
               /\ unwritten' \subseteq unwritten \cup ({k} \X {"files", "visibility"})
               /\ unwritten \subseteq unwritten' \cup ({k} \X {"files", "visibility"})
               /\ k \notin taken => DeckKeyInv(k)'
  <2>1. \A q \in Maker, j \in Key : <<q, j>> \in served' => <<q, j>> \in served \/ j = k
    BY <1>8
  <2>2. \A j \in Key \ {k} : \A w : <<j, w>> \in unwritten' <=> <<j, w>> \in unwritten
    BY <1>8
  <2>3. \A j \in Key \ taken' : j # k => DeckKeyInv(j)'
    BY <1>2, <1>1, <1>5, <1>8, <2>1, <2>2, OthersRest
  <2>4. \A j \in Key \ taken' : DeckKeyInv(j)'
    BY <1>1, <1>8, <2>3
  <2>5. DeckTyped'
    BY <1>1, <1>2, <1>5, <1>8 DEF DeckInv, DeckTyped, Toggling
  <2>6. \A t \in toggle' : row'[t.key] # NoRow
    BY <1>1, <1>2, <1>8 DEF DeckInv, DeckTyped, Toggling
  <2> QED
    BY <2>4, <2>5, <2>6 DEF DeckInv
<1>9. /\ dir \in [Key -> Directory] /\ row \in [Key -> DeckListing \cup {NoRow}]
  BY DEF DeckInv, DeckTyped
<1>10. CASE CheckDirectory(p)
  <2>1. /\ making[p].step = "chosen" /\ UNCHANGED <<dir, row, served, unwritten>>
        /\ IF dir[k].has = "none" THEN GoTo(p, "clear") ELSE EndRequest(p)
    BY <1>2, <1>10 DEF CheckDirectory
  <2>2. \/ dir[k].has = "none" /\ making'[p].step = "clear" /\ making'[p].key = k
        \/ making'[p].step = "none"
    BY <1>2, <1>1, <2>1, RequestGoes DEF DeckInv
  <2>3. ASSUME k \notin taken PROVE DeckKeyInv(k)'
    <3>1. MadeByOne(k)'
      BY <1>1, <1>6, <1>7, <2>1, <2>2, <2>3 DEF MadeByOne
    <3>2. FilesAndRecord(k)'
      <4>1. ~(hosted /\ dir[k].has = "whole")
        BY <1>6, <2>1, <2>3 DEF DeckKeyInv, FilesAndRecord
      <4> QED
        BY <1>1, <1>6, <2>1, <2>3, <4>1 DEF DeckKeyInv, FilesAndRecord
    <3>3. ShownAsRecorded(k)' /\ ServedIsWhole(k)'
      BY <1>1, <1>6, <2>1, <2>3 DEF ShownAsRecorded, ServedIsWhole
    <3> QED
      BY <3>1, <3>2, <3>3 DEF DeckKeyInv
  <2> QED
    BY <1>9, <2>1, <2>3
<1>11. CASE MakeDirectory(p)
  <2> DEFINE new == [has |-> IF dir[k].has = "none" THEN "bare" ELSE dir[k].has,
                     of |-> dir[k].of \cup {p}, shown |-> dir[k].shown]
  <2>1. /\ making[p].step = "clear" /\ UNCHANGED <<row, served, unwritten>> /\ GoTo(p, "writing")
        /\ dir' = [dir EXCEPT ![k] = new]
    BY <1>2, <1>11 DEF MakeDirectory
  <2>2. new \in Directory
    BY <1>3 DEF Directory
  <2>3. /\ new.has = IF dir[k].has = "none" THEN "bare" ELSE dir[k].has
        /\ new.of = dir[k].of \cup {p} /\ new.shown = dir[k].shown
    OBVIOUS
  <2> HIDE DEF new
  <2>4. dir' \in [Key -> Directory] /\ dir'[k] = new /\ \A j \in Key \ {k} : dir'[j] = dir[j]
    BY <1>2, <1>9, <2>1, <2>2
  <2>5. making'[p].step = "writing"
    BY <1>1, <2>1, RequestGoes DEF DeckInv
  <2>6. ASSUME k \notin taken PROVE DeckKeyInv(k)'
    <3>1. dir[k].has = "none" /\ dir[k].of = {}
      BY <1>2, <1>6, <2>1, <2>6 DEF DeckKeyInv, MadeByOne, FilesAndRecord
    <3>2. dir'[k].has = "bare" /\ dir'[k].of = {p} /\ dir'[k].shown = dir[k].shown
      BY <2>3, <2>4, <3>1
    <3>3. MadeByOne(k)'
      BY <1>1, <1>6, <1>7, <2>1, <2>5, <2>6, <3>2 DEF MadeByOne
    <3>4. FilesAndRecord(k)' /\ ShownAsRecorded(k)' /\ ServedIsWhole(k)'
      BY <1>1, <1>6, <2>1, <2>6, <3>2
         DEF DeckKeyInv, FilesAndRecord, ShownAsRecorded, ServedIsWhole
    <3> QED
      BY <3>3, <3>4 DEF DeckKeyInv
  <2> QED
    BY <1>9, <2>1, <2>4, <2>6
<1>12. CASE WriteMeta(p)
  <2>1. PICK word \in FirstSays(p) :
          dir' = [dir EXCEPT ![k] = [has |-> IF @.has = "whole" THEN "whole" ELSE "part",
                                     of |-> @.of \cup {p}, shown |-> word]]
    BY <1>2, <1>12 DEF WriteMeta
  <2> DEFINE new == [has |-> IF dir[k].has = "whole" THEN "whole" ELSE "part",
                     of |-> dir[k].of \cup {p}, shown |-> word]
  <2>2. /\ making[p].step = "writing" /\ UNCHANGED <<row, served>> /\ GoTo(p, "listed")
        /\ dir' = [dir EXCEPT ![k] = new]
        /\ unwritten' = IF making[p].fork THEN unwritten \cup {<<k, "visibility">>}
                                          ELSE unwritten \ {<<k, "visibility">>}
    BY <1>2, <1>12, <2>1 DEF WriteMeta
  <2>3. /\ new \in Directory /\ new.of = dir[k].of \cup {p} /\ new.shown = word
        /\ new.has = IF dir[k].has = "whole" THEN "whole" ELSE "part"
        /\ word = "private" \/ making[p].fork
    BY <1>3 DEF Directory, Says, Visibility, FirstSays
  <2> HIDE DEF new
  <2>4. dir' \in [Key -> Directory] /\ dir'[k] = new /\ \A j \in Key \ {k} : dir'[j] = dir[j]
    BY <1>2, <1>9, <2>2, <2>3
  <2>5. making'[p].step = "listed"
    BY <1>1, <2>2, RequestGoes DEF DeckInv
  <2>6. ASSUME k \notin taken PROVE DeckKeyInv(k)'
    <3>1. dir[k].has = "bare" /\ dir[k].of = {p}
      BY <1>2, <1>6, <2>2, <2>6 DEF DeckKeyInv, MadeByOne
    <3>2. /\ dir'[k].has = "part" /\ dir'[k].of = {p}
          /\ <<k, "visibility">> \in unwritten' \/ dir'[k].shown = "private"
      BY <2>2, <2>3, <2>4, <3>1
    <3>3. MadeByOne(k)'
      BY <1>1, <1>6, <1>7, <2>2, <2>5, <2>6, <3>2 DEF MadeByOne
    <3>4. FilesAndRecord(k)' /\ ShownAsRecorded(k)' /\ ServedIsWhole(k)'
      BY <1>1, <1>6, <2>2, <2>6, <3>2
         DEF DeckKeyInv, FilesAndRecord, ShownAsRecorded, ServedIsWhole
    <3> QED
      BY <3>3, <3>4 DEF DeckKeyInv
  <2> QED
    BY <1>9, <2>2, <2>4, <2>6
<1>13. CASE WriteFiles(p)
  <2>1. PICK has \in IF making[p].fork THEN {"whole"} ELSE {"part", "whole"} :
          /\ dir' = [dir EXCEPT ![k] = [has |-> has, of |-> @.of \cup {p},
                                         shown |-> "private"]]
          /\ unwritten' = IF has = "whole" THEN unwritten \ {<<k, "files">>, <<k, "visibility">>}
                           ELSE unwritten \cup {<<k, "files">>}
    BY <1>2, <1>13 DEF WriteFiles
  <2> DEFINE new == [has |-> has, of |-> dir[k].of \cup {p}, shown |-> "private"]
  <2>2. /\ making[p].step = "listed" /\ row' = row /\ dir' = [dir EXCEPT ![k] = new]
        /\ IF hosted THEN GoTo(p, "written") /\ served' = served
           ELSE EndRequest(p) /\ served' = served \cup {<<p, k>>}
    BY <1>2, <1>13, <2>1 DEF WriteFiles
  <2>3. /\ new \in Directory /\ new.has = has /\ new.of = dir[k].of \cup {p}
        /\ new.shown = "private" /\ has \in {"part", "whole"}
    BY <1>3, <2>1 DEF Directory, Says, Visibility
  <2> HIDE DEF new
  <2>4. dir' \in [Key -> Directory] /\ dir'[k] = new /\ \A j \in Key \ {k} : dir'[j] = dir[j]
    BY <1>2, <1>9, <2>2, <2>3
  <2>5. \/ hosted /\ making'[p].step = "written" /\ served' = served
        \/ ~hosted /\ making'[p].step = "none" /\ served' = served \cup {<<p, k>>}
    BY <1>1, <2>2, RequestGoes DEF DeckInv
  <2>6. ASSUME k \notin taken PROVE DeckKeyInv(k)'
    <3>1. dir[k].of = {p}
      BY <1>2, <1>6, <2>2, <2>6 DEF DeckKeyInv, MadeByOne
    <3>2. dir'[k].of = {p} /\ dir'[k].shown = "private" /\ dir'[k].has \in {"part", "whole"}
      BY <2>3, <2>4, <3>1
    <3>3. FilesAre(k)'
      BY <2>1, <2>3, <2>4 DEF FilesAre
    <3>4. MadeByOne(k)'
      BY <1>1, <1>6, <1>7, <2>2, <2>5, <2>6, <3>2, <3>3 DEF MadeByOne
    <3>5. FilesAndRecord(k)'
      <4>1. hosted' => Held(p, k)' /\ making'[p].step = "written"
        BY <1>1, <1>5, <2>5 DEF Held
      <4> QED
        BY <1>1, <1>6, <2>2, <2>6, <3>2, <4>1 DEF DeckKeyInv, FilesAndRecord
    <3>6. ShownAsRecorded(k)'
      BY <1>6, <2>2, <2>6 DEF ShownAsRecorded
    <3>7. ServedIsWhole(k)'
      <4>1. served' # served => ~hosted' /\ \A q \in Maker : ~Held(q, k)'
        BY <1>1, <1>7, <2>5, <2>6 DEF Held
      <4> QED
        BY <1>6, <2>5, <2>6, <3>2, <3>3, <4>1 DEF ServedIsWhole
    <3> QED
      BY <3>4, <3>5, <3>6, <3>7 DEF DeckKeyInv
  <2> QED
    BY <1>9, <2>1, <2>2, <2>4, <2>5, <2>6
<1>14. CASE WriteFails(p)
  <2> DEFINE cut == [has : {"part"}, of : {dir[k].of}, shown : FirstSays(p) \cup {"torn"}]
  <2>1. PICK left : /\ dir' = [dir EXCEPT ![k] = left]
                    /\ \/ /\ making[p].step = "writing" /\ left \in cut \cup {dir[k]}
                          /\ unwritten' = unwritten \cup {<<k, "visibility">>}
                       \/ /\ making[p].step = "listed" /\ left = NoDir
                          /\ unwritten' = unwritten
    BY <1>2, <1>14 DEF WriteFails
  <2>2. UNCHANGED <<row, served>> /\ EndRequest(p)
    BY <1>14 DEF WriteFails
  <2>3. /\ left \in Directory
        /\ \/ left = dir[k] \/ left = NoDir
           \/ left.has = "part" /\ left.of = dir[k].of
    BY <1>3, <2>1 DEF Directory, NoDir, Says, Visibility, FirstSays
  <2> HIDE DEF cut
  <2>4. dir' \in [Key -> Directory] /\ dir'[k] = left /\ \A j \in Key \ {k} : dir'[j] = dir[j]
    BY <1>2, <1>9, <2>1, <2>3
  <2>5. making'[p].step = "none"
    BY <1>1, <2>2, RequestGoes DEF DeckInv
  <2>6. ASSUME k \notin taken PROVE DeckKeyInv(k)'
    <3>1. dir[k].of = {p} /\ dir[k].has # "whole" /\ dir[k].has # "none"
      BY <1>2, <1>6, <2>1, <2>6 DEF DeckKeyInv, MadeByOne, FilesAndRecord
    <3>2. /\ dir'[k].has # "whole"
          /\ dir'[k].shown = "private" \/ <<k, "visibility">> \in unwritten'
          /\ dir'[k].has = "none" => dir'[k].of = {}
      BY <2>1, <2>3, <2>4, <3>1 DEF NoDir
    <3>3. MadeByOne(k)'
      BY <1>7, <2>5, <2>6 DEF MadeByOne, Held
    <3>4. FilesAndRecord(k)' /\ ShownAsRecorded(k)' /\ ServedIsWhole(k)'
      BY <1>1, <1>6, <2>2, <2>6, <3>2
         DEF DeckKeyInv, FilesAndRecord, ShownAsRecorded, ServedIsWhole
    <3> QED
      BY <3>3, <3>4 DEF DeckKeyInv
  <2> QED
    BY <1>9, <2>1, <2>2, <2>4, <2>6
<1>15. CASE CreateDeck(p)
  <2>1. making[p].step = "written" /\ EndRequest(p) /\ unwritten' = unwritten
    BY <1>15 DEF CreateDeck
  <2>2. making'[p].step = "none"
    BY <1>1, <2>1, RequestGoes DEF DeckInv
  <2>3. MadeByOne(k)' \/ k \in taken
    BY <1>7, <2>2 DEF MadeByOne, Held
  <2>4. CASE row[k] = NoRow /\ row' = [row EXCEPT ![k] = Record(p)]
             /\ served' = served \cup {<<p, k>>} /\ dir' = dir
    <3>1. Record(p) \in DeckListing /\ Record(p) # NoRow /\ Record(p).visibility = "private"
          /\ Record(p).owner = p
      BY DEF Record, DeckListing, NoRow, Visibility
    <3>2. /\ row' \in [Key -> DeckListing \cup {NoRow}] /\ row'[k] = Record(p)
          /\ \A j \in Key \ {k} : row'[j] = row[j]
      BY <1>2, <1>9, <2>4, <3>1
    <3>3. ASSUME k \notin taken PROVE DeckKeyInv(k)'
      <4>1. hosted /\ dir[k].of = {p} /\ dir[k].shown = "private" /\ FilesAre(k)
        BY <1>2, <1>6, <2>1, <3>3 DEF DeckKeyInv, MadeByOne
      <4>2. \A t \in toggle : t.key # k
        BY <1>6, <3>3 DEF DeckKeyInv, FilesAndRecord
      <4>3. FilesAndRecord(k)' /\ ShownAsRecorded(k)'
        BY <1>1, <2>4, <3>1, <3>2, <4>1, <4>2 DEF FilesAndRecord, ShownAsRecorded, FilesAre
      <4>4. ServedIsWhole(k)'
        <5>1. \A q \in Maker : ~Held(q, k)'
          BY <1>7, <2>2, <3>3 DEF Held
        <5> QED
          BY <1>6, <2>1, <2>4, <3>1, <3>2, <3>3, <4>1, <5>1 DEF ServedIsWhole, FilesAre
      <4> QED
        BY <2>3, <3>3, <4>3, <4>4 DEF DeckKeyInv
    <3> QED
      BY <1>9, <2>1, <2>4, <3>2, <3>3
  <2>5. CASE dir' = [dir EXCEPT ![k] = NoDir] /\ UNCHANGED <<row, served>>
    <3>1. /\ dir' \in [Key -> Directory] /\ dir'[k] = NoDir
          /\ \A j \in Key \ {k} : dir'[j] = dir[j]
      BY <1>2, <1>9, <2>5 DEF NoDir, Directory, Says, Visibility
    <3>2. ASSUME k \notin taken PROVE DeckKeyInv(k)'
      <4>1. FilesAndRecord(k)' /\ ShownAsRecorded(k)' /\ ServedIsWhole(k)'
        BY <1>1, <1>6, <2>5, <3>1, <3>2
           DEF DeckKeyInv, FilesAndRecord, ShownAsRecorded, ServedIsWhole, NoDir
      <4> QED
        BY <2>3, <3>2, <4>1 DEF DeckKeyInv
    <3> QED
      BY <1>9, <2>1, <2>5, <3>1, <3>2
  <2> QED
    BY <1>2, <1>15, <2>4, <2>5 DEF CreateDeck
<1> QED
  BY <1>10, <1>11, <1>12, <1>13, <1>14, <1>15

\* A request for the visibility goes on; another of its fields may change with its step.
LEMMA ToggleGoes ==
  ASSUME NEW t, Toggling(t), NEW step \in {"set", "read", "done"}, NEW v \in Visibility,
         NEW is \in BOOLEAN
  PROVE  /\ Toggling([t EXCEPT !.step = step]) /\ Toggling([t EXCEPT !.step = step, !.to = v])
         /\ Toggling([t EXCEPT !.step = step, !.raced = is])
         /\ [t EXCEPT !.step = step] =
              [id |-> t.id, key |-> t.key, step |-> step, to |-> t.to, raced |-> t.raced]
         /\ [t EXCEPT !.step = step, !.to = v] =
              [id |-> t.id, key |-> t.key, step |-> step, to |-> v, raced |-> t.raced]
         /\ [t EXCEPT !.step = step, !.raced = is] =
              [id |-> t.id, key |-> t.key, step |-> step, to |-> t.to, raced |-> is]
<1>1. /\ t = [id |-> t.id, key |-> t.key, step |-> t.step, to |-> t.to, raced |-> t.raced]
      /\ t.key \in Key /\ t.to \in Visibility /\ t.raced \in BOOLEAN
  BY DEF Toggling
<1> DEFINE next == [id |-> t.id, key |-> t.key, step |-> step, to |-> t.to, raced |-> t.raced]
<1>2. [t EXCEPT !.step = step] = next
  BY <1>1
<1>3. [next EXCEPT !.to = v] =
        [id |-> t.id, key |-> t.key, step |-> step, to |-> v, raced |-> t.raced]
  OBVIOUS
<1>4. [next EXCEPT !.raced = is] =
        [id |-> t.id, key |-> t.key, step |-> step, to |-> t.to, raced |-> is]
  OBVIOUS
<1> HIDE DEF next
<1>5. /\ [t EXCEPT !.step = step, !.to = v] = [next EXCEPT !.to = v]
      /\ [t EXCEPT !.step = step, !.raced = is] = [next EXCEPT !.raced = is]
  BY <1>2
<1> USE DEF next
<1>6. Toggling([t EXCEPT !.step = step])
  BY <1>1, <1>2 DEF Toggling
<1>7. Toggling([t EXCEPT !.step = step, !.to = v])
  BY <1>1, <1>3, <1>5 DEF Toggling
<1>8. Toggling([t EXCEPT !.step = step, !.raced = is])
  BY <1>1, <1>4, <1>5 DEF Toggling
<1> QED
  BY <1>2, <1>3, <1>4, <1>5, <1>6, <1>7, <1>8

\* What changes of the requests, of one deck's record and of its file when its
\* visibility changes.
VisibilityMoves(k) ==
  /\ UNCHANGED <<hosted, making, signin, starts, taken, served>>
  /\ dir' \in [Key -> Directory] /\ row' \in [Key -> DeckListing \cup {NoRow}]
  /\ row[k] # NoRow /\ row'[k] # NoRow /\ row'[k].owner = row[k].owner
  /\ dir'[k].of = dir[k].of
  /\ \/ dir'[k].has = dir[k].has
     \/ /\ dir[k].has \in {"part", "whole"} /\ dir'[k].has = "part"
        /\ <<k, "files">> \in unwritten'
  /\ <<k, "files">> \in unwritten => <<k, "files">> \in unwritten'
  /\ unwritten' \subseteq Key \X {"files", "visibility"}
  /\ \A j \in Key \ {k} : \A w : <<j, w>> \in unwritten' <=> <<j, w>> \in unwritten
  /\ \A j \in Key \ {k} : /\ dir'[j] = dir[j] /\ row'[j] = row[j]
                          /\ {t \in toggle' : t.key = j} = {t \in toggle : t.key = j}

\* The rest of the invariant does not mind.
LEMMA VisibilityStep ==
  ASSUME DeckInv, NEW k \in Key, VisibilityMoves(k),
         \A t \in toggle' : Toggling(t) /\ row'[t.key] # NoRow,
         k \notin taken => ShownAsRecorded(k)'
  PROVE  DeckInv'
<1> USE DEF VisibilityMoves
<1>1. DeckTyped'
  BY DEF DeckInv, DeckTyped
<1>2. ASSUME NEW j \in Key \ taken' PROVE DeckKeyInv(j)'
  <2>1. CASE j # k
    <3>1. KeyRests(j)
      BY <2>1 DEF KeyRests
    <3> QED
      BY <3>1, RestingKey DEF DeckInv
  <2>2. CASE j = k
    <3>1. DeckKeyInv(k) /\ k \notin taken
      BY <2>2 DEF DeckInv
    <3>2. \A p \in Maker : ~Held(p, k)
      BY <3>1 DEF DeckKeyInv, MadeByOne
    <3>3. \A p \in Maker : ~Held(p, k)'
      BY <3>2 DEF Held
    <3>4. MadeByOne(k)'
      BY <3>3 DEF MadeByOne
    <3>5. FilesAndRecord(k)'
      BY <3>1 DEF DeckKeyInv, FilesAndRecord
    <3>6. ServedIsWhole(k)'
      BY <3>1, <3>3 DEF DeckKeyInv, ServedIsWhole, FilesAre
    <3> QED
      BY <2>2, <3>1, <3>4, <3>5, <3>6 DEF DeckKeyInv
  <2> QED
    BY <2>1, <2>2
<1> QED
  BY <1>1, <1>2 DEF DeckInv

\* A change of visibility: the record, then the record read again, then the file.
LEMMA ToggleStep ==
  ASSUME DeckInv,
         \/ \E k \in Key, v \in Visibility : SetVisibility(k, v)
         \/ \E t \in toggle : DeckByID(t) \/ SyncDeckVisibilityFile(t)
  PROVE  DeckInv'
<1>1. /\ dir \in [Key -> Directory] /\ row \in [Key -> DeckListing \cup {NoRow}]
      /\ (\A t \in toggle : Toggling(t)) /\ unwritten \subseteq Key \X {"files", "visibility"}
  BY DEF DeckInv, DeckTyped
<1>2. ASSUME NEW k \in Key, NEW v \in Visibility, SetVisibility(k, v) PROVE DeckInv'
  <2> DEFINE race == \E t \in toggle : t.key = k /\ t.step # "done"
             new == [id |-> Cardinality(toggle) + 1, key |-> k, step |-> "set", to |-> v,
                     raced |-> race]
             changed == [owner |-> row[k].owner, visibility |-> v]
  <2>1. row[k] \in DeckListing /\ row[k] # NoRow
    BY <1>1, <1>2 DEF SetVisibility
  <2>2. changed \in DeckListing /\ changed # NoRow /\ changed = [row[k] EXCEPT !.visibility = v]
    BY <2>1 DEF DeckListing, NoRow
  <2>3. /\ changed.owner = row[k].owner /\ changed.visibility = v /\ Toggling(new)
        /\ new.key = k /\ new.step = "set" /\ (new.raced <=> race)
    BY DEF Toggling
  <2>4. /\ row' = [row EXCEPT ![k] = changed] /\ toggle' = toggle \cup {new}
        /\ UNCHANGED <<hosted, dir, making, signin, starts, taken, served, unwritten>>
    BY <2>2, <1>2 DEF SetVisibility
  <2> HIDE DEF new, changed, race
  <2>5. /\ row' \in [Key -> DeckListing \cup {NoRow}] /\ row'[k] = changed
        /\ \A j \in Key \ {k} : row'[j] = row[j]
    BY <1>1, <2>2, <2>4
  <2>6. VisibilityMoves(k)
    BY <1>1, <2>1, <2>2, <2>3, <2>4, <2>5 DEF VisibilityMoves
  <2>7. ASSUME k \notin taken PROVE ShownAsRecorded(k)'
    <3> SUFFICES ASSUME \A t \in toggle' : t.key = k => ~t.raced
                 PROVE  \A t \in toggle' : t.key = k /\ t.step # "done" => t = new
      BY <2>3, <2>4, <2>5 DEF ShownAsRecorded
    <3> QED
      BY <2>3, <2>4 DEF race
  <2> QED
    BY <1>1, <2>2, <2>3, <2>4, <2>5, <2>6, <2>7, VisibilityStep DEF DeckInv, Toggling
<1>3. ASSUME NEW t \in toggle, DeckByID(t) PROVE DeckInv'
  <2> DEFINE k == t.key
             read == [t EXCEPT !.step = "read", !.to = row[k].visibility]
             over == [t EXCEPT !.step = "done"]
  <2>1. k \in Key /\ row[k] \in DeckListing /\ row[k] # NoRow /\ t.step = "set" /\ Toggling(t)
    BY <1>1, <1>3 DEF DeckByID, Toggling, DeckInv
  <2>2. row[k].visibility \in Visibility
    BY <2>1 DEF DeckListing
  <2>3. /\ Toggling(read) /\ read.key = k /\ read.step = "read" /\ (read.raced <=> t.raced)
        /\ read.to = row[k].visibility
    <3>1. /\ Toggling(read)
          /\ read = [id |-> t.id, key |-> k, step |-> "read", to |-> row[k].visibility,
                     raced |-> t.raced]
      BY <2>1, <2>2, ToggleGoes
    <3> HIDE DEF read
    <3> QED
      BY <3>1
  <2>4. Toggling(over) /\ over.key = k /\ over.step = "done" /\ (over.raced <=> t.raced)
    <3>1. /\ Toggling(over)
          /\ over = [id |-> t.id, key |-> k, step |-> "done", to |-> t.to, raced |-> t.raced]
      BY <2>1, <2>2, ToggleGoes
    <3> HIDE DEF over
    <3> QED
      BY <3>1
  <2>5. /\ UNCHANGED <<hosted, dir, row, making, signin, starts, taken, served>>
        /\ \/ toggle' = (toggle \ {t}) \cup {read} /\ unwritten' = unwritten
           \/ /\ toggle' = (toggle \ {t}) \cup {over}
              /\ unwritten' = unwritten \cup {<<k, "visibility">>}
    BY <1>3 DEF DeckByID
  <2> HIDE DEF read, over
  <2>6. VisibilityMoves(k)
    <3>1. \A j \in Key \ {k} : {u \in toggle' : u.key = j} = {u \in toggle : u.key = j}
      BY <2>3, <2>4, <2>5
    <3>2. /\ unwritten' \subseteq Key \X {"files", "visibility"} /\ unwritten \subseteq unwritten'
          /\ \A j \in Key \ {k} : \A w : <<j, w>> \in unwritten' <=> <<j, w>> \in unwritten
      BY <1>1, <2>1, <2>5
    <3> QED
      BY <1>1, <2>1, <2>5, <3>1, <3>2 DEF VisibilityMoves
  <2>7. ASSUME k \notin taken PROVE ShownAsRecorded(k)'
    BY <2>1, <2>3, <2>4, <2>5, <2>7 DEF DeckInv, DeckKeyInv, ShownAsRecorded
  <2>8. \A u \in toggle' : Toggling(u) /\ row'[u.key] # NoRow
    BY <1>1, <2>1, <2>3, <2>4, <2>5 DEF DeckInv
  <2> QED
    BY <2>1, <2>6, <2>7, <2>8, VisibilityStep
<1>4. ASSUME NEW t \in toggle, SyncDeckVisibilityFile(t) PROVE DeckInv'
  <2> DEFINE k == t.key
             new == [t EXCEPT !.step = "done"]
             saved == [has |-> dir[k].has, of |-> dir[k].of, shown |-> t.to]
             torn == [has |-> "part", of |-> dir[k].of, shown |-> "torn"]
  <2>1. /\ k \in Key /\ row[k] # NoRow /\ t.step = "read" /\ t.to \in Visibility
        /\ dir[k] \in Directory
    BY <1>1, <1>4 DEF SyncDeckVisibilityFile, Toggling, DeckInv
  <2>2. Toggling(new) /\ new.key = k /\ new.step = "done" /\ (new.raced <=> t.raced)
    <3>1. Toggling(t) /\ t.raced \in BOOLEAN
      BY <1>1 DEF Toggling
    <3>2. /\ Toggling(new)
          /\ new = [id |-> t.id, key |-> k, step |-> "done", to |-> t.to, raced |-> t.raced]
      BY <2>1, <3>1, ToggleGoes
    <3> HIDE DEF new
    <3> QED
      BY <3>2
  <2>3. /\ toggle' = (toggle \ {t}) \cup {new}
        /\ UNCHANGED <<hosted, row, making, signin, starts, taken, served>>
        /\ \/ /\ k \in Listed /\ dir' = [dir EXCEPT ![k] = saved]
              /\ unwritten' = unwritten \ {<<k, "visibility">>}
           \/ dir' = dir /\ unwritten' = unwritten \cup {<<k, "visibility">>}
           \/ /\ k \in Listed /\ dir' = [dir EXCEPT ![k] = torn]
              /\ unwritten' = unwritten \cup {<<k, "files">>, <<k, "visibility">>}
    BY <1>4 DEF SyncDeckVisibilityFile
  <2>4. /\ saved \in Directory /\ saved.has = dir[k].has /\ saved.of = dir[k].of
        /\ saved.shown = t.to
        /\ torn \in Directory /\ torn.has = "part" /\ torn.of = dir[k].of
    BY <2>1 DEF Directory, Says
  <2> HIDE DEF new, saved, torn
  <2>5. /\ dir' \in [Key -> Directory] /\ \A j \in Key \ {k} : dir'[j] = dir[j]
        /\ dir'[k].of = dir[k].of
        /\ \/ /\ dir'[k].has = dir[k].has
              /\ dir'[k].shown = t.to \/ <<k, "visibility">> \in unwritten'
           \/ /\ dir[k].has \in {"part", "whole"} /\ dir'[k].has = "part"
              /\ <<k, "files">> \in unwritten' /\ <<k, "visibility">> \in unwritten'
    BY <1>1, <2>1, <2>3, <2>4 DEF Listed
  <2>6. VisibilityMoves(k)
    <3>1. \A j \in Key \ {k} : {u \in toggle' : u.key = j} = {u \in toggle : u.key = j}
      BY <2>2, <2>3
    <3>2. /\ unwritten' \subseteq Key \X {"files", "visibility"}
          /\ <<k, "files">> \in unwritten => <<k, "files">> \in unwritten'
          /\ \A j \in Key \ {k} : \A w : <<j, w>> \in unwritten' <=> <<j, w>> \in unwritten
      BY <1>1, <2>1, <2>3
    <3> QED
      BY <1>1, <2>1, <2>3, <2>5, <3>1, <3>2 DEF VisibilityMoves
  <2>7. ASSUME k \notin taken PROVE ShownAsRecorded(k)'
    <3>1. ShownAsRecorded(k)
      BY <2>1, <2>7 DEF DeckInv, DeckKeyInv
    <3> QED
      BY <2>1, <2>2, <2>3, <2>5, <3>1 DEF ShownAsRecorded
  <2>8. \A u \in toggle' : Toggling(u) /\ row'[u.key] # NoRow
    BY <1>1, <2>1, <2>2, <2>3 DEF DeckInv
  <2> QED
    BY <2>1, <2>6, <2>7, <2>8, VisibilityStep
<1> QED
  BY <1>2, <1>3, <1>4

\* The owner signs in: what was found and had no record is the owner's, and doubtful.
LEMMA SignInStep ==
  ASSUME DeckInv, ReadDecks \/ BootstrapGitHub
  PROVE  DeckInv'
<1>1. CASE ReadDecks
  <2>1. /\ UNCHANGED <<hosted, dir, row, making, toggle, starts, taken, served, unwritten>>
        /\ signin' = [step |-> "read", found |-> Listed] /\ Listed \in SUBSET Key
    BY <1>1 DEF ReadDecks, Listed
  <2>2. DeckTyped'
    BY <2>1 DEF DeckInv, DeckTyped, Toggling
  <2> QED
    BY <2>1, <2>2 DEF DeckInv, DeckKeyInv, MadeByOne, FilesAndRecord, ShownAsRecorded,
                      ServedIsWhole, FilesAre, Held
<1>2. CASE BootstrapGitHub
  <2>1. /\ UNCHANGED <<hosted, dir, making, toggle, starts, served, unwritten>>
        /\ signin' = NotSigning
        /\ row' = [k \in Key |-> Adopted(k, signin.found, Boss)]
        /\ taken' = taken \cup {k \in signin.found : row[k] = NoRow}
    BY <1>2 DEF BootstrapGitHub
  <2>2. signin.found \subseteq Key
    BY <1>2 DEF BootstrapGitHub, DeckInv, DeckTyped, NotSigning
  <2>3. ASSUME NEW k \in Key
        PROVE  /\ row'[k] \in DeckListing \cup {NoRow}
               /\ row[k] # NoRow => /\ row'[k] # NoRow /\ row'[k].visibility = row[k].visibility
                                    /\ row[k].owner # "nobody" => row'[k].owner = row[k].owner
               /\ k \notin taken' /\ row[k] = NoRow => row'[k] = NoRow
    <3>1. row[k] \in DeckListing \cup {NoRow} /\ row'[k] = Adopted(k, signin.found, Boss)
      BY <2>1 DEF DeckInv, DeckTyped
    <3>2. Record(Boss) \in DeckListing /\ Record(Boss) # NoRow
      BY DEF Record, DeckListing, NoRow, Visibility
    <3>3. CASE row[k] = NoRow
      BY <2>1, <3>1, <3>2, <3>3 DEF Adopted
    <3>4. CASE row[k] # NoRow
      <4>1. /\ [row[k] EXCEPT !.owner = Boss] =
                 [owner |-> Boss, visibility |-> row[k].visibility]
            /\ row[k].visibility \in Visibility /\ row[k] \in DeckListing
        BY <3>1, <3>4 DEF DeckListing
      <4>2. [owner |-> Boss, visibility |-> row[k].visibility] \in DeckListing \ {NoRow}
        BY <4>1 DEF DeckListing, NoRow
      <4> QED
        BY <3>1, <3>4, <4>1, <4>2 DEF Adopted
    <3> QED
      BY <3>3, <3>4
  <2>4. DeckTyped'
    BY <2>1, <2>2, <2>3 DEF DeckInv, DeckTyped, Toggling
  <2>5. ASSUME NEW k \in Key \ taken' PROVE DeckKeyInv(k)'
    <3>1. DeckKeyInv(k) /\ (row[k] = NoRow <=> row'[k] = NoRow)
      BY <2>1, <2>3, <2>5 DEF DeckInv
    <3>2. MadeByOne(k)' /\ FilesAndRecord(k)'
      BY <2>1, <3>1 DEF DeckKeyInv, MadeByOne, FilesAndRecord, FilesAre, Held
    <3>3. ShownAsRecorded(k)'
      BY <2>1, <2>3, <3>1 DEF DeckKeyInv, ShownAsRecorded
    <3>4. ServedIsWhole(k)'
      BY <2>1, <2>3, <3>1, DeckFilesAssumption DEF DeckKeyInv, ServedIsWhole, FilesAre, Held
    <3> QED
      BY <3>2, <3>3, <3>4 DEF DeckKeyInv
  <2>6. \A t \in toggle' : row'[t.key] # NoRow
    BY <2>1, <2>3 DEF DeckInv, DeckTyped, Toggling
  <2> QED
    BY <2>4, <2>5, <2>6 DEF DeckInv
<1> QED
  BY <1>1, <1>2

\* The server starts: nobody makes a deck, what is there has a record, and what changed the
\* visibility is over, and raced the stop.
LEMMA StartStep ==
  ASSUME DeckInv, Start
  PROVE  DeckInv'
<1> DEFINE over(t) == [t EXCEPT !.step = "done", !.raced = @ \/ t.step # "done"]
           who == IF bound THEN Boss ELSE "nobody"
<1>1. /\ UNCHANGED <<hosted, dir, taken, served, unwritten>> /\ signin' = NotSigning
      /\ making' = [p \in Maker |-> NoRequest]
      /\ toggle' = {over(t) : t \in toggle}
      /\ row' = [k \in Key |-> IF hosted /\ row[k] = NoRow /\ k \in Listed
                                  THEN Record(who) ELSE row[k]]
  BY DEF Start
<1>2. starts' \in 0 .. MaxStarts
  <2>1. starts \in 0 .. MaxStarts /\ MaxStarts \in Nat /\ starts < MaxStarts
        /\ starts' = starts + 1
    BY DeckFilesAssumption DEF Start, DeckInv, DeckTyped
  <2> QED
    BY <2>1
<1>3. ASSUME NEW t \in toggle
      PROVE  /\ Toggling(over(t)) /\ over(t).key = t.key /\ over(t).step = "done"
             /\ ~over(t).raced => t.step = "done" /\ ~t.raced
  <2> DEFINE is == t.raced \/ t.step # "done"
  <2>1. Toggling(t) /\ is \in BOOLEAN /\ t.to \in Visibility
    BY DEF DeckInv, DeckTyped, Toggling
  <2>2. over(t) = [t EXCEPT !.step = "done", !.raced = is]
    OBVIOUS
  <2>3. (~is) => t.step = "done" /\ ~t.raced
    OBVIOUS
  <2> HIDE DEF is, over
  <2>a. /\ Toggling([t EXCEPT !.step = "done", !.raced = is])
        /\ [t EXCEPT !.step = "done", !.raced = is] =
             [id |-> t.id, key |-> t.key, step |-> "done", to |-> t.to, raced |-> is]
    BY <2>1, ToggleGoes, Zenon
  <2>4. /\ Toggling(over(t))
        /\ over(t) = [id |-> t.id, key |-> t.key, step |-> "done", to |-> t.to, raced |-> is]
    BY <2>2, <2>a, Zenon
  <2> QED
    BY <2>3, <2>4
<1> HIDE DEF over
<1>4. Record(who) \in DeckListing /\ Record(who) # NoRow /\ Record(who).visibility = "private"
  BY DEF Record, DeckListing, NoRow, Visibility
<1> HIDE DEF who
<1>5. ASSUME NEW k \in Key
      PROVE  /\ row'[k] \in DeckListing \cup {NoRow}
             /\ row[k] # NoRow => row'[k] = row[k]
             /\ row[k] = NoRow =>
                  \/ row'[k] = NoRow /\ ~(hosted /\ k \in Listed)
                  \/ row'[k] = Record(who) /\ hosted /\ k \in Listed
  BY <1>1, <1>4 DEF DeckInv, DeckTyped
<1>6. DeckTyped'
  <2>1. \A t \in toggle' : Toggling(t)
    BY <1>1, <1>3
  <2> QED
    BY <1>1, <1>2, <1>5, <2>1 DEF DeckInv, DeckTyped
<1>7. \A t \in toggle' : row'[t.key] # NoRow
  BY <1>1, <1>3, <1>5 DEF DeckInv, DeckTyped, Toggling
<1>8. ASSUME NEW k \in Key \ taken' PROVE DeckKeyInv(k)'
  <2>1. DeckKeyInv(k) /\ \A p \in Maker : ~Held(p, k)'
    BY <1>1 DEF DeckInv, Held, NoRequest
  <2>2. MadeByOne(k)'
    BY <2>1 DEF MadeByOne
  <2>3. \A t \in toggle' : t.step = "done" /\ \E u \in toggle : t.key = u.key
    BY <1>1, <1>3
  <2>4. ASSUME NEW u \in toggle, u.key = k, \A t \in toggle' : t.key = k => ~t.raced
        PROVE  u.step = "done" /\ ~u.raced
    <3>1. over(u) \in toggle'
      BY <1>1
    <3>2. ~over(u).raced
      BY <1>3, <2>4, <3>1
    <3> QED
      BY <1>3, <3>2
  <2>5. FilesAndRecord(k)'
    BY <1>1, <1>4, <1>5, <2>1, <2>3 DEF DeckKeyInv, FilesAndRecord, Listed
  <2>6. ShownAsRecorded(k)'
    <3>1. CASE row[k] = NoRow
      BY <1>1, <1>4, <1>5, <2>1, <2>3, <3>1 DEF DeckKeyInv, FilesAndRecord, ShownAsRecorded
    <3>2. CASE row[k] # NoRow
      <4> SUFFICES ASSUME \A t \in toggle' : t.key = k => ~t.raced
                   PROVE  <<k, "visibility">> \notin unwritten'
                            => dir'[k].shown = row'[k].visibility
        BY <2>3 DEF ShownAsRecorded
      <4>1. ASSUME NEW u \in toggle, u.key = k PROVE u.step = "done" /\ ~u.raced
        BY <2>4, <4>1, Zenon
      <4> QED
        BY <1>1, <1>5, <2>1, <3>2, <4>1 DEF DeckKeyInv, ShownAsRecorded
    <3> QED
      BY <3>1, <3>2
  <2>7. ServedIsWhole(k)'
    BY <1>1, <1>5, <2>1 DEF DeckKeyInv, ServedIsWhole, FilesAre
  <2> QED
    BY <2>1, <2>2, <2>5, <2>6, <2>7 DEF DeckKeyInv
<1> QED
  BY <1>6, <1>7, <1>8 DEF DeckInv

\* Every step keeps the invariant.
LEMMA DeckStep == DeckInv /\ [DeckNext]_deckVars => DeckInv'
<1> SUFFICES ASSUME DeckInv, [DeckNext]_deckVars PROVE DeckInv'
  OBVIOUS
<1>1. CASE UNCHANGED deckVars
  BY <1>1 DEF deckVars, DeckInv, DeckTyped, DeckKeyInv, MadeByOne, FilesAndRecord,
              ShownAsRecorded, ServedIsWhole, FilesAre, Held, Toggling
<1>2. CASE DeckNext
  BY <1>2, KeyChosen, MakingStep, ToggleStep, SignInStep, StartStep, Zenon
     DEF DeckNext, Visibility
<1> QED
  BY <1>1, <1>2

(***************************************************************************)
(* A deck that was created is there and in the catalogue, whole but for    *)
(* the files nobody was told could not be written; none is left without a  *)
(* record; and its file shows it to those its record does unless it could  *)
(* not be written: for any number of people, keys, requests, changes and   *)
(* starts, whatever step of a creation or of a change fails.               *)
(***************************************************************************)
THEOREM DecksAreKept == DeckSpec => [](CreatedIsKept /\ NothingOrphaned /\ VisibilityInFile)
<1>1. DeckSpec => []DeckInv
  BY DeckStart, DeckStep, PTL DEF DeckSpec
<1>2. DeckInv => CreatedIsKept
  <2> SUFFICES ASSUME DeckInv, NEW pk \in served, pk[2] \notin taken
               PROVE  /\ dir[pk[2]].of = {pk[1]} /\ pk[2] \in Listed
                      /\ <<pk[2], "files">> \notin unwritten => dir[pk[2]].has = "whole"
                      /\ hosted => row[pk[2]] # NoRow /\ row[pk[2]].owner = pk[1]
    BY DEF CreatedIsKept
  <2>1. pk[1] \in Maker /\ pk[2] \in Key \ taken /\ pk = <<pk[1], pk[2]>>
    BY DEF DeckInv, DeckTyped
  <2> QED
    BY <2>1 DEF DeckInv, DeckKeyInv, ServedIsWhole, FilesAre, Listed
<1>3. DeckInv => NothingOrphaned
  BY DEF DeckInv, DeckKeyInv, FilesAndRecord, NothingOrphaned, Recorded, MakersOf, Held
<1>4. DeckInv => VisibilityInFile
  BY DEF DeckInv, DeckKeyInv, ShownAsRecorded, VisibilityInFile, Recorded
<1> QED
  BY <1>1, <1>2, <1>3, <1>4, PTL

--------------------------------------------------------------------------------
\* The pages of the editors (LiveEdit).

PageEvent == {"reload", "other", "closed"}
OpenedPage(n) == [shows : [Element -> 0 .. n],
                  draft : UNION {[S -> 1 .. n] : S \in SUBSET Element},
                  save : {"no", "merge", "hash", "plain", "part"},
                  read : [Element -> 0 .. n]]

\* What a page changed is newer than all it shows; one that saves has changed something.
PageFits(p) ==
  /\ page[p] \in OpenedPage(edits)
  /\ \A e \in DOMAIN page[p].draft : page[p].shows[e] < page[p].draft[e]
  /\ page[p].save # "no" => page[p].draft # NoDraft
  /\ page[p].save = "hash" => page[p].read = page[p].shows

LiveInv ==
  /\ edits \in Nat /\ slide \in [Element -> 0 .. edits] /\ answered \in [Element -> 0 .. edits]
  /\ DOMAIN page = Page /\ \A p \in Page : PageFits(p)
  /\ events \in [Page -> Seq(PageEvent)] /\ touched \in BOOLEAN
  /\ AnsweredEditsStay /\ PagesAreTold

\* What an event that is told does to the channel of a page that is open.
LEMMA PageIsTold ==
  ASSUME events \in [Page -> Seq(PageEvent)], NEW event \in {"reload", "other"}, Broadcast(event)
  PROVE  /\ events' \in [Page -> Seq(PageEvent)]
         /\ \A p \in Page \ missed' :
              events'[p] # Closed =>
                /\ events[p] # Closed /\ p \notin missed
                /\ "reload" \in ToSet(events[p]) => "reload" \in ToSet(events'[p])
                /\ event = "reload" => "reload" \in ToSet(events'[p])
<1> DEFINE full(p) == Len(events[p]) >= QueueSize
           untold == {p \in Page : /\ events[p] # Closed /\ full(p)
                                   /\ "reload" \notin ToSet(events[p])}
<1>1. /\ events' = [p \in Page |-> IF events[p] # Closed /\ ~full(p)
                                     THEN Append(events[p], event) ELSE events[p]]
      /\ missed' = IF event = "reload" THEN missed \cup untold ELSE missed
  BY Zenon DEF Broadcast
<1>2. event \in PageEvent
  BY DEF PageEvent
<1>3. events' \in [Page -> Seq(PageEvent)]
  BY <1>1, <1>2
<1>4. ASSUME NEW p \in Page \ missed', events'[p] # Closed
      PROVE  /\ events[p] # Closed /\ p \notin missed
             /\ "reload" \in ToSet(events[p]) => "reload" \in ToSet(events'[p])
             /\ event = "reload" => "reload" \in ToSet(events'[p])
  <2>1. events[p] # Closed /\ p \notin missed
    BY <1>1, <1>4
  <2>2. CASE full(p)
    BY <1>1, <1>4, <2>1, <2>2
  <2>3. CASE ~full(p)
    <3>1. events'[p] = Append(events[p], event) /\ events[p] \in Seq(PageEvent)
      BY <1>1, <2>1, <2>3
    <3>2. ToSet(events'[p]) = ToSet(events[p]) \cup {event}
      BY <1>2, <3>1 DEF ToSet
    <3> QED
      BY <2>1, <3>2
  <2> QED
    BY <2>2, <2>3
<1> QED
  BY <1>3, <1>4

\* At first every page shows the slide there is.
LEMMA LiveStart == LiveEditInit => LiveInv
<1> SUFFICES ASSUME LiveEditInit PROVE LiveInv
  OBVIOUS
<1>1. /\ Blank \in [Element -> 0 .. 0] /\ NoDraft \in [{} -> 1 .. 0] /\ DOMAIN NoDraft = {}
  BY DEF Blank, NoDraft
<1>2. NoDraft \in UNION {[S -> 1 .. 0] : S \in SUBSET Element}
  <2>1. {} \in SUBSET Element
    OBVIOUS
  <2> QED
    BY <1>1, <2>1, Zenon
<1>3. Showing(Blank) \in OpenedPage(0)
  BY <1>1, <1>2 DEF Showing, OpenedPage
<1>4. Closed \in Seq(PageEvent)
  BY DEF Closed, PageEvent
<1>5. \A p \in Page : PageFits(p)
  BY <1>1, <1>3 DEF LiveEditInit, PageFits, Showing
<1>6. /\ edits \in Nat /\ slide \in [Element -> 0 .. edits] /\ answered \in [Element -> 0 .. edits]
      /\ DOMAIN page = Page /\ events \in [Page -> Seq(PageEvent)] /\ touched \in BOOLEAN
  BY <1>1, <1>4 DEF LiveEditInit
<1>7. AnsweredEditsStay /\ PagesAreTold
  BY DEF LiveEditInit, AnsweredEditsStay, PagesAreTold
<1> QED
  BY <1>5, <1>6, <1>7 DEF LiveInv

\* Pages may count on more edits than there were.
LEMMA MoreEdits ==
  ASSUME NEW n \in Nat, NEW m \in Nat, n <= m
  PROVE  OpenedPage(n) \subseteq OpenedPage(m) /\ [Element -> 0 .. n] \subseteq [Element -> 0 .. m]
<1>1. 0 .. n \subseteq 0 .. m /\ 1 .. n \subseteq 1 .. m
  OBVIOUS
<1>2. [Element -> 0 .. n] \subseteq [Element -> 0 .. m]
  BY <1>1
<1>3. \A S \in SUBSET Element : [S -> 1 .. n] \subseteq [S -> 1 .. m]
  BY <1>1
<1>4. UNION {[S -> 1 .. n] : S \in SUBSET Element} \subseteq
        UNION {[S -> 1 .. m] : S \in SUBSET Element}
  <2> SUFFICES ASSUME NEW d \in UNION {[S -> 1 .. n] : S \in SUBSET Element}
               PROVE  d \in UNION {[S -> 1 .. m] : S \in SUBSET Element}
    OBVIOUS
  <2>1. PICK S \in SUBSET Element : d \in [S -> 1 .. n]
    BY Zenon
  <2>2. d \in [S -> 1 .. m]
    BY <1>3, <2>1
  <2> QED
    BY <2>2, Zenon
<1> QED
  BY <1>2, <1>4 DEF OpenedPage

\* A page that shows the slide with no change of its own fits.
LEMMA FreshPage ==
  ASSUME NEW n \in Nat, NEW content \in [Element -> 0 .. n]
  PROVE  /\ Showing(content) \in OpenedPage(n) /\ DOMAIN Showing(content).draft = {}
         /\ Showing(content).save = "no" /\ Showing(content).shows = content
<1>1. NoDraft \in [{} -> 1 .. n] /\ DOMAIN NoDraft = {} /\ Blank \in [Element -> 0 .. n]
  BY DEF NoDraft, Blank
<1>2. NoDraft \in UNION {[S -> 1 .. n] : S \in SUBSET Element}
  <2>1. {} \in SUBSET Element
    OBVIOUS
  <2> QED
    BY <1>1, <2>1, Zenon
<1> QED
  BY <1>1, <1>2 DEF Showing, OpenedPage

(***************************************************************************)
(* What a save writes: the page's own changes, and of the rest what there  *)
(* was when it read the slide, unless it saves without a base.             *)
(***************************************************************************)
LEMMA BodyHas ==
  ASSUME NEW p \in Page, PageFits(p), edits \in Nat, page[p].save # "no"
  PROVE  /\ Body(p) \in [Element -> 0 .. edits]
         /\ \A e \in DOMAIN page[p].draft : Body(p)[e] = page[p].draft[e]
         /\ page[p].save # "plain" =>
              \A e \in Element \ DOMAIN page[p].draft : Body(p)[e] = page[p].read[e]
<1> DEFINE base == page[p].shows
           draft == page[p].draft
           current == page[p].read
           incoming == With(base, draft)
<1>1. /\ base \in [Element -> 0 .. edits] /\ current \in [Element -> 0 .. edits]
      /\ draft \in UNION {[S -> 1 .. edits] : S \in SUBSET Element}
      /\ page[p].save \in {"merge", "hash", "plain", "part"}
  BY DEF PageFits, OpenedPage
<1>2. PICK S \in SUBSET Element : draft \in [S -> 1 .. edits]
  BY <1>1, Zenon
<1>3. /\ DOMAIN draft \subseteq Element
      /\ \A e \in DOMAIN draft : draft[e] \in 1 .. edits /\ base[e] < draft[e] /\ base[e] # draft[e]
  BY <1>1, <1>2 DEF PageFits
<1>4. ASSUME NEW content \in [Element -> 0 .. edits]
      PROVE  /\ With(content, draft) \in [Element -> 0 .. edits]
             /\ \A e \in DOMAIN draft : With(content, draft)[e] = draft[e]
             /\ \A e \in Element \ DOMAIN draft : With(content, draft)[e] = content[e]
  BY <1>3 DEF With
<1> HIDE DEF base, draft, current
<1>5. CASE page[p].save = "part"
  <2>1. Body(p) = With(current, draft)
    BY <1>5 DEF Body, current, draft
  <2> QED
    BY <1>1, <1>4, <2>1 DEF current, draft
<1>6. CASE page[p].save \in {"hash", "plain"}
  <2>1. Body(p) = incoming
    BY <1>6 DEF Body, current, draft, base
  <2>2. page[p].save = "hash" => current = base
    BY DEF PageFits, current, base
  <2> QED
    BY <1>1, <1>4, <1>6, <2>1, <2>2 DEF current, draft
<1>7. CASE page[p].save = "merge"
  <2>1. Body(p) = MergeFile(base, incoming, current, MergeFields(base, incoming, current))
    BY <1>7 DEF Body, current, draft, base
  <2>2. /\ incoming \in [Element -> 0 .. edits] /\ \A e \in DOMAIN draft : incoming[e] = draft[e]
        /\ \A e \in Element \ DOMAIN draft : incoming[e] = base[e]
    BY <1>1, <1>4
  <2> HIDE DEF incoming
  <2>3. CASE incoming = base
    <3>1. DOMAIN draft = {}
      BY <1>3, <2>2, <2>3
    <3> QED
      BY <1>1, <2>1, <2>3, <3>1 DEF MergeFile, current, draft
  <2>4. CASE incoming # base /\ (current = base \/ incoming = current)
    <3>1. Body(p) = incoming
      BY <2>1, <2>4 DEF MergeFile
    <3> QED
      BY <1>1, <2>2, <2>4, <3>1 DEF current, draft
  <2>5. CASE incoming # base /\ current # base /\ incoming # current
    <3>1. Body(p) = [e \in Element |-> IF incoming[e] = base[e] THEN current[e] ELSE incoming[e]]
      BY <1>1, <2>1, <2>5 DEF MergeFile, MergeFields
    <3>2. Body(p) \in [Element -> 0 .. edits]
      BY <1>1, <2>2, <3>1
    <3> QED
      BY <1>3, <2>2, <3>1, <3>2 DEF current, draft
  <2> QED
    BY <2>3, <2>4, <2>5
<1> QED
  BY <1>1, <1>5, <1>6, <1>7

\* Pages that are told of what changes, and of their own changes only what they made.
LEMMA PagesStep == LiveInv /\ [LiveEditNext]_liveVars => LiveInv'
<1> SUFFICES ASSUME LiveInv, [LiveEditNext]_liveVars PROVE LiveInv'
  OBVIOUS
<1> USE LiveEditAssumption
<1>1. /\ edits \in Nat /\ slide \in [Element -> 0 .. edits] /\ answered \in [Element -> 0 .. edits]
      /\ DOMAIN page = Page /\ \A p \in Page : PageFits(p)
      /\ events \in [Page -> Seq(PageEvent)] /\ touched \in BOOLEAN
      /\ AnsweredEditsStay /\ PagesAreTold
  BY DEF LiveInv
<1>2. CASE UNCHANGED liveVars
  BY <1>1, <1>2 DEF liveVars, LiveInv, PageFits, AnsweredEditsStay, PagesAreTold
<1>3. ASSUME NEW p \in Page, OpenPage(p) PROVE LiveInv'
  <2>1. /\ UNCHANGED <<slide, touched, edits, answered, overrun>> /\ missed' = missed \ {p}
        /\ page' = [page EXCEPT ![p] = Showing(slide)]
        /\ events' = [events EXCEPT ![p] = Closed]
    BY <1>3 DEF OpenPage
  <2>2. /\ Showing(slide) \in OpenedPage(edits) /\ DOMAIN Showing(slide).draft = {}
        /\ Showing(slide).save = "no" /\ Showing(slide).shows = slide
    BY <1>1, FreshPage
  <2>3. /\ DOMAIN page' = Page /\ page'[p] = Showing(slide)
        /\ \A q \in Page \ {p} : page'[q] = page[q] /\ events'[q] = events[q]
        /\ events'[p] = Closed /\ events' \in [Page -> Seq(PageEvent)]
    BY <1>1, <2>1 DEF Closed, PageEvent
  <2>4. ASSUME NEW q \in Page PROVE PageFits(q)'
    BY <1>1, <2>1, <2>2, <2>3 DEF PageFits
  <2>5. PagesAreTold'
    BY <1>1, <2>1, <2>3 DEF PagesAreTold
  <2> QED
    BY <1>1, <2>1, <2>3, <2>4, <2>5 DEF LiveInv, AnsweredEditsStay
<1>4. ASSUME NEW p \in Page, Subscribe(p) PROVE LiveInv'
  <2>1. /\ UNCHANGED <<slide, touched, edits, page, answered, overrun>>
        /\ events' = [events EXCEPT ![p] = <<>>]
        /\ missed' = IF page[p].shows = slide THEN missed ELSE missed \cup {p}
    BY <1>4 DEF Subscribe
  <2>2. /\ \A q \in Page \ {p} : events'[q] = events[q]
        /\ events' \in [Page -> Seq(PageEvent)]
    BY <1>1, <2>1
  <2>3. PagesAreTold'
    BY <1>1, <2>1, <2>2 DEF PagesAreTold
  <2> QED
    BY <1>1, <2>1, <2>2, <2>3 DEF LiveInv, AnsweredEditsStay, PageFits
<1>5. ASSUME NEW p \in Page, Receive(p) PROVE LiveInv'
  <2> DEFINE event == Head(events[p])
             new == [page[p] EXCEPT !.shows = slide]
  <2>1. /\ UNCHANGED <<slide, touched, edits, answered, overrun>>
        /\ events[p] \notin {Closed, <<>>}
        /\ event = "reload" => page[p].draft = NoDraft
        /\ events' = [events EXCEPT ![p] = Tail(events[p])]
        /\ page' = IF event = "reload" THEN [page EXCEPT ![p] = new] ELSE page
        /\ missed' = IF event = "reload" THEN missed \ {p} ELSE missed
    BY <1>5 DEF Receive
  <2>2. /\ events[p] \in Seq(PageEvent) /\ Tail(events[p]) \in Seq(PageEvent)
        /\ ToSet(events[p]) = ToSet(Tail(events[p])) \cup {event}
    <3>1. events[p] \in Seq(PageEvent) /\ events[p] # <<>>
      BY <1>1, <2>1
    <3>2. /\ Len(events[p]) \in Nat \ {0} /\ DOMAIN events[p] = 1 .. Len(events[p])
          /\ Tail(events[p]) \in Seq(PageEvent) /\ event = events[p][1]
          /\ DOMAIN Tail(events[p]) = 1 .. Len(events[p]) - 1
          /\ \A i \in 1 .. Len(events[p]) - 1 : Tail(events[p])[i] = events[p][i + 1]
      BY <3>1
    <3>3. \A i \in 1 .. Len(events[p]) : i = 1 \/ i - 1 \in 1 .. Len(events[p]) - 1
      BY <3>2
    <3>4. \A i \in 1 .. Len(events[p]) - 1 : i + 1 \in 1 .. Len(events[p])
      BY <3>2
    <3>5. ASSUME NEW x \in ToSet(events[p]) PROVE x \in ToSet(Tail(events[p])) \cup {event}
      <4>1. PICK i \in 1 .. Len(events[p]) : x = events[p][i]
        BY <3>2 DEF ToSet
      <4>2. CASE i = 1
        BY <3>2, <4>1, <4>2
      <4>3. CASE i # 1
        <5>1. i - 1 \in 1 .. Len(events[p]) - 1 /\ Tail(events[p])[i - 1] = events[p][i]
          BY <3>2, <3>3, <4>3
        <5> QED
          BY <3>2, <4>1, <5>1 DEF ToSet
      <4> QED
        BY <4>2, <4>3
    <3>6. ASSUME NEW x \in ToSet(Tail(events[p])) PROVE x \in ToSet(events[p])
      BY <3>2, <3>4 DEF ToSet
    <3>7. event \in ToSet(events[p])
      BY <3>2 DEF ToSet
    <3> QED
      BY <3>2, <3>5, <3>6, <3>7
  <2>3. /\ events' \in [Page -> Seq(PageEvent)] /\ events'[p] = Tail(events[p])
        /\ \A q \in Page \ {p} : events'[q] = events[q]
    BY <1>1, <2>1, <2>2
  <2>4. page[p].draft = NoDraft =>
          new \in OpenedPage(edits) /\ new.shows = slide /\ DOMAIN new.draft = {}
            /\ new.draft = page[p].draft /\ page[p].save = "no" /\ new.save = page[p].save
    BY <1>1 DEF PageFits, OpenedPage, NoDraft
  <2> HIDE DEF new
  <2>5. /\ DOMAIN page' = Page /\ \A q \in Page \ {p} : page'[q] = page[q]
        /\ page'[p] = IF event = "reload" THEN new ELSE page[p]
    BY <1>1, <2>1
  <2> HIDE DEF event
  <2>6. ASSUME NEW q \in Page PROVE PageFits(q)'
    BY <1>1, <2>1, <2>4, <2>5 DEF PageFits
  <2>7. PagesAreTold'
    <3> SUFFICES ASSUME NEW q \in Page \ missed', events'[q] # Closed, page'[q].shows # slide'
                 PROVE  touched' \/ "reload" \in ToSet(events'[q])
      BY DEF PagesAreTold
    <3>1. CASE q = p
      <4>1. event # "reload" /\ q \notin missed /\ page[q].shows # slide
        BY <2>1, <2>4, <2>5, <3>1
      <4> QED
        BY <1>1, <2>1, <2>2, <2>3, <3>1, <4>1 DEF PagesAreTold
    <3>2. CASE q # p
      BY <1>1, <2>1, <2>3, <2>5, <3>2 DEF PagesAreTold
    <3> QED
      BY <3>1, <3>2
  <2> QED
    BY <1>1, <2>1, <2>3, <2>5, <2>6, <2>7 DEF LiveInv, AnsweredEditsStay
<1>6. ASSUME NEW p \in Page, NEW e \in Element, Edit(p, e) PROVE LiveInv'
  <2> DEFINE draft == [d \in DOMAIN page[p].draft \cup {e} |->
                         IF d = e THEN edits + 1 ELSE page[p].draft[d]]
             new == [page[p] EXCEPT !.draft = draft]
  <2>1. /\ UNCHANGED <<slide, touched, events, missed, answered, overrun>>
        /\ page[p].save = "no" /\ edits' = edits + 1 /\ page' = [page EXCEPT ![p] = new]
    BY <1>6 DEF Edit
  <2>2. OpenedPage(edits) \subseteq OpenedPage(edits') /\ edits' \in Nat
        /\ [Element -> 0 .. edits] \subseteq [Element -> 0 .. edits']
    BY <1>1, <2>1, MoreEdits
  <2>3. /\ page[p] \in OpenedPage(edits) /\ page[p] \in OpenedPage(edits')
    BY <1>1, <2>2 DEF PageFits
  <2>4. PICK S \in SUBSET Element : page[p].draft \in [S -> 1 .. edits]
    BY <2>3, Zenon DEF OpenedPage
  <2>5. /\ draft \in [S \cup {e} -> 1 .. edits'] /\ S \cup {e} \in SUBSET Element
        /\ page[p].shows \in [Element -> 0 .. edits]
    BY <1>1, <2>1, <2>3, <2>4 DEF OpenedPage
  <2>6. \A d \in DOMAIN draft : page[p].shows[d] < draft[d]
    BY <1>1, <2>4, <2>5 DEF PageFits
  <2>7. draft \in UNION {[T -> 1 .. edits'] : T \in SUBSET Element}
    BY <2>5, Zenon
  <2> HIDE DEF draft
  <2>8. /\ new \in OpenedPage(edits') /\ new.shows = page[p].shows /\ new.draft = draft
        /\ new.save = "no" /\ new.read = page[p].read
    BY <2>1, <2>3, <2>7 DEF OpenedPage
  <2> HIDE DEF new
  <2>9. /\ DOMAIN page' = Page /\ page'[p] = new /\ \A q \in Page \ {p} : page'[q] = page[q]
    BY <1>1, <2>1
  <2>10. ASSUME NEW q \in Page PROVE PageFits(q)'
    BY <1>1, <2>2, <2>6, <2>8, <2>9 DEF PageFits
  <2>11. PagesAreTold'
    BY <1>1, <2>1, <2>8, <2>9 DEF PagesAreTold
  <2> QED
    BY <1>1, <2>1, <2>2, <2>9, <2>10, <2>11 DEF LiveInv, AnsweredEditsStay
<1>7. ASSUME NEW p \in Page, NEW way \in {"merge", "hash", "plain", "part"}, BeginSave(p, way)
      PROVE  LiveInv'
  <2> DEFINE new == IF Refused(p, way) THEN [page[p] EXCEPT !.draft = NoDraft, !.shows = slide]
                                       ELSE [page[p] EXCEPT !.save = way, !.read = slide]
  <2>1. /\ UNCHANGED <<slide, touched, edits, events, missed, answered, overrun>>
        /\ page[p].draft # NoDraft /\ page[p].save = "no"
        /\ IF Refused(p, way)
             THEN page' = [page EXCEPT ![p].draft = NoDraft, ![p].shows = slide]
             ELSE page' = [page EXCEPT ![p].save = way, ![p].read = slide]
    BY <1>7 DEF BeginSave, Unlocked
  <2>2. page' = [page EXCEPT ![p] = new]
    BY <1>1, <2>1
  <2>3. /\ page[p] \in OpenedPage(edits)
        /\ page[p] = [shows |-> page[p].shows, draft |-> page[p].draft, save |-> page[p].save,
                      read |-> page[p].read]
    BY <1>1 DEF PageFits, OpenedPage
  <2>4. NoDraft \in UNION {[S -> 1 .. edits] : S \in SUBSET Element} /\ DOMAIN NoDraft = {}
    <3>1. {} \in SUBSET Element /\ NoDraft \in [{} -> 1 .. edits] /\ DOMAIN NoDraft = {}
      BY DEF NoDraft
    <3> QED
      BY <3>1, Zenon
  <2>5. new = IF Refused(p, way)
                THEN [shows |-> slide, draft |-> NoDraft, save |-> "no", read |-> page[p].read]
                ELSE [shows |-> page[p].shows, draft |-> page[p].draft, save |-> way,
                      read |-> slide]
    <3> DEFINE r == page[p]
               one == [r EXCEPT !.draft = NoDraft]
               two == [r EXCEPT !.save = way]
    <3>1. /\ one = [shows |-> r.shows, draft |-> NoDraft, save |-> "no", read |-> r.read]
          /\ two = [shows |-> r.shows, draft |-> r.draft, save |-> way, read |-> r.read]
      BY <2>1, <2>3
    <3>2. new = IF Refused(p, way) THEN [one EXCEPT !.shows = slide]
                                   ELSE [two EXCEPT !.read = slide]
      OBVIOUS
    <3> HIDE DEF one, two, new
    <3>3. /\ [one EXCEPT !.shows = slide] =
               [shows |-> slide, draft |-> NoDraft, save |-> "no", read |-> r.read]
          /\ [two EXCEPT !.read = slide] =
               [shows |-> r.shows, draft |-> r.draft, save |-> way, read |-> slide]
      BY <3>1
    <3> QED
      BY <3>2, <3>3
  <2> HIDE DEF new
  <2>6. new \in OpenedPage(edits)
    BY <1>1, <2>3, <2>4, <2>5 DEF OpenedPage
  <2>7. /\ DOMAIN page' = Page /\ page'[p] = new /\ \A q \in Page \ {p} : page'[q] = page[q]
    BY <1>1, <2>2
  <2>8. PageFits(p)'
    <3>1. CASE Refused(p, way)
      BY <2>1, <2>4, <2>5, <2>6, <2>7, <3>1 DEF PageFits
    <3>2. CASE ~Refused(p, way)
      BY <1>1, <2>1, <2>5, <2>6, <2>7, <3>2 DEF PageFits, Refused
    <3> QED
      BY <3>1, <3>2
  <2>9. \A q \in Page : PageFits(q)'
    BY <1>1, <2>1, <2>7, <2>8 DEF PageFits
  <2>10. PagesAreTold'
    <3>1. page'[p].shows = page[p].shows \/ page'[p].shows = slide
      BY <2>5, <2>7
    <3> QED
      BY <1>1, <2>1, <2>7, <3>1 DEF PagesAreTold
  <2> QED
    BY <1>1, <2>1, <2>7, <2>9, <2>10 DEF LiveInv, AnsweredEditsStay
<1>8. ASSUME NEW p \in Page, WriteFragment(p) PROVE LiveInv'
  <2>1. /\ page[p].save # "no" /\ slide' = Body(p) /\ touched' = TRUE /\ edits' = edits
        /\ answered' = With(answered, page[p].draft) /\ page' = [page EXCEPT ![p] = Showing(slide')]
        /\ overrun' = (overrun \ DOMAIN page[p].draft)
                        \cup IF page[p].save = "plain" \/ page[p].read # slide
                               THEN Overwritten(p) ELSE {}
        /\ Broadcast("reload")
    BY <1>8 DEF WriteFragment
  <2>2. /\ Body(p) \in [Element -> 0 .. edits]
        /\ \A e \in DOMAIN page[p].draft : Body(p)[e] = page[p].draft[e]
        /\ page[p].save # "plain" =>
             \A e \in Element \ DOMAIN page[p].draft : Body(p)[e] = page[p].read[e]
    BY <1>1, <2>1, BodyHas
  <2>3. /\ Showing(slide') \in OpenedPage(edits) /\ DOMAIN Showing(slide').draft = {}
        /\ Showing(slide').save = "no" /\ Showing(slide').shows = slide'
    BY <1>1, <2>1, <2>2, FreshPage
  <2>4. /\ DOMAIN page' = Page /\ page'[p] = Showing(slide')
        /\ \A q \in Page \ {p} : page'[q] = page[q]
    BY <1>1, <2>1
  <2>5. ASSUME NEW q \in Page PROVE PageFits(q)'
    BY <1>1, <2>1, <2>3, <2>4 DEF PageFits
  <2>6. events' \in [Page -> Seq(PageEvent)]
    BY <1>1, <2>1, PageIsTold
  <2>7. PICK S \in SUBSET Element : page[p].draft \in [S -> 1 .. edits]
    <3>1. page[p].draft \in UNION {[S -> 1 .. edits] : S \in SUBSET Element}
      BY <1>1 DEF PageFits, OpenedPage
    <3> QED
      BY <3>1, Zenon
  <2>8. /\ answered' \in [Element -> 0 .. edits]
        /\ \A e \in S : answered'[e] = page[p].draft[e]
        /\ \A e \in Element \ S : answered'[e] = answered[e]
    BY <1>1, <2>1, <2>7 DEF With
  <2>9. AnsweredEditsStay'
    <3> SUFFICES ASSUME NEW e \in Element \ overrun' PROVE Body(p)[e] = answered'[e]
      BY <2>1 DEF AnsweredEditsStay
    <3>1. DOMAIN page[p].draft = S
      BY <2>7
    <3>2. CASE e \in S
      BY <2>2, <2>8, <3>1, <3>2
    <3>3. CASE e \notin S
      <4>1. e \notin overrun /\ slide[e] = answered[e]
        BY <1>1, <2>1, <3>1, <3>3 DEF AnsweredEditsStay
      <4>2. Body(p)[e] = slide[e]
        <5>1. CASE page[p].save = "plain" \/ page[p].read # slide
          BY <2>1, <3>1, <3>3, <5>1 DEF Overwritten
        <5>2. CASE page[p].save # "plain" /\ page[p].read = slide
          BY <2>2, <3>1, <3>3, <5>2
        <5> QED
          BY <5>1, <5>2
      <4> QED
        BY <2>8, <3>3, <4>1, <4>2
    <3> QED
      BY <3>2, <3>3
  <2> QED
    BY <1>1, <2>1, <2>2, <2>4, <2>5, <2>6, <2>8, <2>9 DEF LiveInv, PagesAreTold
<1>9. ASSUME NEW e \in Element, AgentWrites(e) PROVE LiveInv'
  <2>1. /\ UNCHANGED <<page, events, missed>> /\ touched' = TRUE /\ edits' = edits + 1
        /\ slide' = [slide EXCEPT ![e] = edits + 1]
        /\ answered' = [answered EXCEPT ![e] = edits + 1] /\ overrun' = overrun \ {e}
    BY <1>9 DEF AgentWrites
  <2>2. OpenedPage(edits) \subseteq OpenedPage(edits') /\ edits' \in Nat
        /\ [Element -> 0 .. edits] \subseteq [Element -> 0 .. edits']
    BY <1>1, <2>1, MoreEdits
  <2>3. slide' \in [Element -> 0 .. edits'] /\ answered' \in [Element -> 0 .. edits']
    BY <1>1, <2>1, <2>2
  <2>4. \A p \in Page : PageFits(p)'
    BY <1>1, <2>1, <2>2 DEF PageFits
  <2>5. AnsweredEditsStay'
    BY <1>1, <2>1 DEF AnsweredEditsStay
  <2> QED
    BY <1>1, <2>1, <2>2, <2>3, <2>4, <2>5 DEF LiveInv, PagesAreTold
<1>10. CASE OtherDeck
  <2>1. Broadcast("other") /\ UNCHANGED <<slide, touched, edits, page, answered, overrun>>
    BY <1>10 DEF OtherDeck
  <2>2. PagesAreTold' /\ events' \in [Page -> Seq(PageEvent)]
    BY <1>1, <2>1, PageIsTold DEF PagesAreTold
  <2> QED
    BY <1>1, <2>1, <2>2 DEF LiveInv, AnsweredEditsStay, PageFits
<1>11. CASE Watch
  <2>1. /\ Broadcast("reload") /\ UNCHANGED <<slide, edits, page, answered, overrun>>
        /\ touched' = FALSE
    BY <1>11 DEF Watch
  <2>2. PagesAreTold' /\ events' \in [Page -> Seq(PageEvent)]
    BY <1>1, <2>1, PageIsTold DEF PagesAreTold
  <2> QED
    BY <1>1, <2>1, <2>2 DEF LiveInv, AnsweredEditsStay, PageFits
<1> QED
  BY <1>2, <1>3, <1>4, <1>5, <1>6, <1>7, <1>8, <1>9, <1>10, <1>11, Zenon DEF LiveEditNext

(***************************************************************************)
(* An edit that was answered stays until its element is edited again, and  *)
(* a page that shows an old slide is going to be told: for any number of   *)
(* pages, elements, edits and sizes of the channels.                       *)
(***************************************************************************)
THEOREM EditsAreKept == LiveEditSpec => [](AnsweredEditsStay /\ PagesAreTold)
<1>1. LiveEditSpec => []LiveInv
  BY LiveStart, PagesStep, PTL DEF LiveEditSpec
<1>2. LiveInv => AnsweredEditsStay /\ PagesAreTold
  BY DEF LiveInv
<1> QED
  BY <1>1, <1>2, PTL

--------------------------------------------------------------------------------
\* The audience that follows (Follow).

\* What a member sees when all of its events are read.
SeesLast(a) == IF channel[a] = <<>> THEN shown[a] ELSE channel[a][Len(channel[a])]

FollowInv ==
  /\ moves \in Nat /\ presenting \in Nat /\ relays \subseteq Nat \ {0}
  /\ announcing \subseteq 1 .. presenting
  /\ channel \in [Member -> Seq(Nat)] /\ shown \in [Member -> Nat] /\ outrun \subseteq Member
  /\ presenting = 0 => \A a \in Member : shown[a] = 0 /\ channel[a] \in {<<>>, Unsubscribed}
  /\ \A a \in Member \ outrun :
       Subscribed(a) /\ presenting \notin announcing => SeesLast(a) = presenting

\* At first nobody is there.
LEMMA FollowStart == FollowInit => FollowInv
BY DEF FollowInit, FollowInv, Subscribed, Unsubscribed

\* A member goes: the others see what they saw.
LEMMA FollowerStep ==
  ASSUME FollowInv, NEW a \in Member,
         UNCHANGED <<moves, relays, presenting, announcing>>,
         NEW list \in Seq(Nat), channel' = [channel EXCEPT ![a] = list],
         NEW n \in Nat, shown' = [shown EXCEPT ![a] = n],
         outrun' \subseteq Member, outrun \ {a} \subseteq outrun',
         presenting = 0 => n = 0 /\ list \in {<<>>, Unsubscribed},
         a \notin outrun' /\ list # Unsubscribed /\ presenting \notin announcing =>
           (IF list = <<>> THEN n ELSE list[Len(list)]) = presenting
  PROVE  FollowInv'
<1>1. channel'[a] = list /\ \A b \in Member \ {a} : channel'[b] = channel[b]
  BY DEF FollowInv
<1>2. shown'[a] = n /\ \A b \in Member \ {a} : shown'[b] = shown[b]
  BY DEF FollowInv
<1>3. ASSUME NEW b \in Member \ outrun', Subscribed(b)', presenting \notin announcing
      PROVE  SeesLast(b)' = presenting
  <2>1. CASE b = a
    BY <1>1, <1>2, <1>3, <2>1 DEF SeesLast, Subscribed
  <2>2. CASE b # a
    <3>1. Subscribed(b) /\ b \notin outrun
      BY <1>1, <1>3, <2>2 DEF Subscribed
    <3>2. SeesLast(b)' = SeesLast(b)
      BY <1>1, <1>2, <2>2 DEF SeesLast
    <3> QED
      BY <1>3, <3>1, <3>2 DEF FollowInv
  <2> QED
    BY <2>1, <2>2
<1>4. channel' \in [Member -> Seq(Nat)] /\ shown' \in [Member -> Nat]
  BY DEF FollowInv
<1>5. presenting = 0 => \A b \in Member : shown'[b] = 0 /\ channel'[b] \in {<<>>, Unsubscribed}
  BY <1>1, <1>2 DEF FollowInv
<1> QED
  BY <1>3, <1>4, <1>5 DEF FollowInv, Unsubscribed

\* No step leaves a member with an older position and nobody to tell it.
LEMMA FollowStep == FollowInv /\ [FollowNext]_followVars => FollowInv'
<1> SUFFICES ASSUME FollowInv, [FollowNext]_followVars PROVE FollowInv'
  OBVIOUS
<1>1. CASE UNCHANGED followVars
  BY <1>1 DEF followVars, FollowInv, Subscribed, Unsubscribed, SeesLast
<1>2. CASE Present
  <2>1. /\ UNCHANGED <<presenting, announcing, channel, shown, outrun>>
        /\ moves' \in Nat /\ relays' \subseteq Nat \ {0}
    BY <1>2 DEF Present, FollowInv
  <2> QED
    BY <2>1 DEF FollowInv, Subscribed, Unsubscribed, SeesLast
<1>3. ASSUME NEW n \in relays, RelayLost(n) PROVE FollowInv'
  BY <1>3 DEF RelayLost, FollowInv, Subscribed, Unsubscribed, SeesLast
<1>4. ASSUME NEW n \in relays, SetPresenting(n) PROVE FollowInv'
  <2>1. /\ n \in Nat \ {0} /\ UNCHANGED <<moves, channel, shown, outrun>>
        /\ relays' \subseteq Nat \ {0}
    BY <1>4 DEF SetPresenting, FollowInv
  <2>2. CASE Stale(n)
    BY <1>4, <2>1, <2>2 DEF SetPresenting, FollowInv, Subscribed, Unsubscribed, SeesLast
  <2>3. CASE ~Stale(n)
    <3>1. presenting' = n /\ announcing' = announcing \cup {n} /\ presenting < n
      BY <1>4, <2>1, <2>3 DEF SetPresenting, Stale, FollowInv
    <3>2. announcing' \subseteq 1 .. presenting'
      BY <2>1, <3>1 DEF FollowInv
    <3> QED
      BY <2>1, <3>1, <3>2 DEF FollowInv
  <2> QED
    BY <2>2, <2>3
<1>5. ASSUME NEW n \in announcing, Announce(n) PROVE FollowInv'
  <2> DEFINE told(a) == Subscribed(a) /\ Len(channel[a]) < FollowQueue
  <2>1. /\ UNCHANGED <<moves, relays, presenting, shown>> /\ announcing' = announcing \ {n}
        /\ channel' = [a \in Member |-> IF told(a) THEN Append(channel[a], n) ELSE channel[a]]
        /\ outrun' = IF n < presenting /\ presenting \notin announcing
                       THEN outrun \cup {a \in Member : Subscribed(a)}
                       ELSE outrun \cup {a \in Member : Subscribed(a) /\ ~told(a)}
    BY <1>5, Zenon DEF Announce
  <2>2. n \in 1 .. presenting /\ presenting \in Nat /\ presenting # 0 /\ n \in Nat
    BY DEF FollowInv
  <2>3. channel' \in [Member -> Seq(Nat)]
    BY <2>1, <2>2 DEF FollowInv
  <2>4. ASSUME NEW a \in Member \ outrun', Subscribed(a)', presenting \notin announcing'
        PROVE  SeesLast(a)' = presenting
    <3>1. channel[a] \in Seq(Nat) /\ channel'[a] = IF told(a) THEN Append(channel[a], n)
                                                             ELSE channel[a]
      BY <2>1 DEF FollowInv
    <3>2. CASE told(a)
      <4>1. n = presenting
        BY <2>1, <2>2, <2>4, <3>2
      <4>2. /\ channel'[a] # <<>> /\ Len(channel'[a]) = Len(channel[a]) + 1
            /\ channel'[a][Len(channel[a]) + 1] = n
        BY <2>2, <3>1, <3>2
      <4> QED
        BY <4>1, <4>2 DEF SeesLast
    <3>3. CASE ~told(a)
      BY <2>1, <2>4, <3>1, <3>3 DEF Subscribed
    <3> QED
      BY <3>2, <3>3
  <2>5. outrun' \subseteq Member /\ announcing' \subseteq 1 .. presenting
    BY <2>1 DEF FollowInv
  <2> HIDE DEF told
  <2> QED
    BY <2>1, <2>2, <2>3, <2>4, <2>5 DEF FollowInv
<1>6. ASSUME NEW a \in Member, Join(a) PROVE FollowInv'
  <2> DEFINE n == IF presenting # 0 THEN presenting ELSE shown[a]
  <2>1. /\ UNCHANGED <<moves, relays, presenting, announcing>>
        /\ channel' = [channel EXCEPT ![a] = <<>>] /\ shown' = [shown EXCEPT ![a] = n]
        /\ outrun' = IF \E m \in announcing : m < presenting THEN outrun \cup {a}
                                                             ELSE outrun \ {a}
    BY <1>6 DEF Join
  <2>2. /\ n \in Nat /\ outrun' \subseteq Member /\ outrun \ {a} \subseteq outrun'
        /\ presenting = 0 => n = 0
    BY <2>1 DEF FollowInv
  <2>3. presenting # 0 => n = presenting
    OBVIOUS
  <2> HIDE DEF n
  <2>4. n = presenting
    BY <2>2, <2>3
  <2>5. <<>> \in Seq(Nat)
    OBVIOUS
  <2> QED
    BY <2>1, <2>2, <2>4, <2>5, FollowerStep
<1>7. ASSUME NEW a \in Member, Leave(a) PROVE FollowInv'
  <2>1. /\ UNCHANGED <<moves, relays, presenting, announcing, shown, outrun>>
        /\ channel' = [channel EXCEPT ![a] = Unsubscribed]
    BY <1>7 DEF Leave
  <2>2. /\ shown' = [shown EXCEPT ![a] = shown[a]] /\ shown[a] \in Nat
        /\ outrun' \subseteq Member
        /\ presenting = 0 => shown[a] = 0
    BY <2>1 DEF FollowInv
  <2>3. Unsubscribed \in Seq(Nat)
    BY DEF Unsubscribed
  <2> DEFINE n == shown[a]
  <2>4. /\ shown' = [shown EXCEPT ![a] = n] /\ n \in Nat /\ (presenting = 0 => n = 0)
        /\ outrun' \subseteq Member /\ outrun \ {a} \subseteq outrun'
    BY <2>1, <2>2
  <2> HIDE DEF n
  <2> QED
    BY <2>1, <2>3, <2>4, FollowerStep
<1>8. ASSUME NEW a \in Member, Show(a) PROVE FollowInv'
  <2>1. /\ UNCHANGED <<moves, relays, presenting, announcing, outrun>>
        /\ channel' = [channel EXCEPT ![a] = Tail(channel[a])]
        /\ shown' = [shown EXCEPT ![a] = Head(channel[a])]
        /\ Subscribed(a) /\ channel[a] # <<>> /\ channel[a] \in Seq(Nat) /\ outrun \subseteq Member
    BY <1>8 DEF Show, FollowInv
  <2>2. /\ Tail(channel[a]) \in Seq(Nat) /\ Head(channel[a]) \in Nat
        /\ Tail(channel[a]) = <<>> => Head(channel[a]) = channel[a][Len(channel[a])]
        /\ Tail(channel[a]) # <<>> =>
             Tail(channel[a])[Len(Tail(channel[a]))] = channel[a][Len(channel[a])]
    <3> DEFINE s == channel[a]
    <3>1. s \in Seq(Nat) /\ s # <<>>
      BY <2>1
    <3> HIDE DEF s
    <3>2. /\ Len(s) \in Nat \ {0} /\ Tail(s) \in Seq(Nat) /\ Head(s) = s[1] /\ s[1] \in Nat
          /\ Len(Tail(s)) = Len(s) - 1
          /\ \A i \in 1 .. Len(s) - 1 : Tail(s)[i] = s[i + 1]
      BY <3>1
    <3>3. Tail(s) = <<>> => Len(s) = 1
      <4>1. Len(<<>>) = 0
        OBVIOUS
      <4>2. Tail(s) = <<>> => Len(Tail(s)) = 0
        BY <4>1, Zenon
      <4> QED
        BY <3>2, <4>2
    <3>4. Tail(s) # <<>> => Len(s) - 1 \in 1 .. Len(s) - 1
      BY <3>2
    <3>5. Tail(s) # <<>> => Tail(s)[Len(Tail(s))] = s[Len(s)]
      BY <3>2, <3>4
    <3> QED
      BY <3>2, <3>3, <3>5 DEF s
  <2>3. presenting # 0
    BY <2>1 DEF FollowInv, Subscribed
  <2>4. a \notin outrun /\ presenting \notin announcing =>
          channel[a][Len(channel[a])] = presenting
    BY <2>1 DEF FollowInv, SeesLast
  <2> DEFINE list == Tail(channel[a])
             n == Head(channel[a])
  <2>5. /\ list \in Seq(Nat) /\ n \in Nat
        /\ a \notin outrun' /\ presenting \notin announcing =>
             (IF list = <<>> THEN n ELSE list[Len(list)]) = presenting
    BY <2>1, <2>2, <2>4
  <2>6. channel' = [channel EXCEPT ![a] = list] /\ shown' = [shown EXCEPT ![a] = n]
    BY <2>1
  <2> HIDE DEF list, n
  <2> QED
    BY <2>1, <2>3, <2>5, <2>6, FollowerStep
<1> QED
  BY <1>1, <1>2, <1>3, <1>4, <1>5, <1>6, <1>7, <1>8 DEF FollowNext

(***************************************************************************)
(* A member who has read every event sees the position the hub keeps: for  *)
(* any number of members, moves, relays and announcements in any order.    *)
(***************************************************************************)
THEOREM PositionIsSeen == FollowSpec => []AudienceSeesThePosition
<1>1. FollowSpec => []FollowInv
  BY FollowStart, FollowStep, PTL DEF FollowSpec
<1>2. FollowInv => AudienceSeesThePosition
  <2> SUFFICES ASSUME FollowInv, NEW a \in Member \ outrun, channel[a] = <<>>, announcing = {}
               PROVE  shown[a] = presenting
    BY DEF AudienceSeesThePosition
  <2>1. <<>> # <<0>>
    OBVIOUS
  <2> QED
    BY <2>1 DEF FollowInv, SeesLast, Subscribed, Unsubscribed
<1> QED
  BY <1>1, <1>2, PTL

--------------------------------------------------------------------------------
\* Phone calls (Calls).

CallsTyped ==
  /\ CallsTypeOK
  /\ listed \subseteq Call /\ IsFiniteSet(listed)
  /\ wrapUp \in [Call -> {"none", "given", "reported", "late"}]
  /\ reports \in [Call -> Nat]
  /\ late \in [checked : SUBSET Call, stream : SUBSET Call, session : SUBSET Call]

Placing == {"checked", "dialled"}

(***************************************************************************)
(* A call that has a stream or has ended went through the table.  A stream *)
(* that is there after endCall closed them was found before, and so was an *)
(* AI session found, or being opened.  Only an open session wraps a call   *)
(* up; and a call is dialled, picked up, streamed and opened in this       *)
(* order.                                                                  *)
(***************************************************************************)
CallFits(c) ==
  /\ c \in listed \/ ending[c] # "no" => dialling[c] = "listed"
  /\ mediaConn[c] \in {"known", "bound"} \/ aiConn[c] # "none" => dialling[c] = "listed"
  /\ c \in listed => ending[c] = "no"
  /\ reports[c] = IF ending[c] = "done" THEN 1 ELSE 0
  /\ ending[c] # "no" => wrapUp[c] # "given"
  /\ ending[c] \in {"streamClosed", "done"} /\ mediaConn[c] \in {"known", "bound"}
       => c \in late.stream
  /\ ending[c] = "done" /\ (mediaConn[c] = "known" \/ aiConn[c] \in {"opening", "open"})
       => c \in late.session
  /\ aiConn[c] \in {"none", "opening"} => wrapUp[c] = "none"
  /\ dialling[c] \in {"no", "checked"} => line[c] = "none"
  /\ line[c] \in {"none", "ringing"} => mediaConn[c] = "none"
  /\ mediaConn[c] \in {"none", "connected", "known"} => aiConn[c] = "none"

(***************************************************************************)
(* Of the calls that were checked while no other was being placed, one is  *)
(* being placed at most, and there is room for it.                         *)
(***************************************************************************)
RoomForOne ==
  /\ Cardinality(listed \ late.checked) <= MaxConcurrentCalls
  /\ \A c \in Call \ late.checked : dialling[c] \in Placing =>
       /\ Cardinality(listed \ late.checked) < MaxConcurrentCalls
       /\ \A d \in Call \ late.checked : dialling[d] \in Placing => d = c
  /\ \A c \in late.checked : dialling[c] # "no"

CallsInv ==
  /\ CallsTyped
  /\ \A c \in Call : CallFits(c)
  /\ RoomForOne

\* Nothing was dialled at first.
LEMMA CallsStart == CallsInit => CallsInv
<1> SUFFICES ASSUME CallsInit PROVE CallsInv
  OBVIOUS
<1>1. CallsTyped
  BY FS_EmptySet DEF CallsInit, CallsTyped, CallsTypeOK
<1>2. Cardinality(listed \ late.checked) = 0
  BY FS_EmptySet DEF CallsInit
<1> QED
  BY <1>1, <1>2, CallsAssumption DEF CallsInit, CallsInv, CallFits, RoomForOne, Placing

\* The calls in the table that count are finite, and fewer when one leaves it.
LEMMA FewerListed ==
  ASSUME IsFiniteSet(listed), NEW c, NEW S
  PROVE  /\ Cardinality(listed \ S) \in Nat
         /\ Cardinality((listed \ {c}) \ S) \in Nat
         /\ Cardinality((listed \ {c}) \ S) <= Cardinality(listed \ S)
         /\ IsFiniteSet(listed \ {c})
<1>1. IsFiniteSet(listed \ S) /\ (listed \ {c}) \ S \in SUBSET (listed \ S)
  BY FS_Subset
<1> QED
  BY <1>1, FS_Subset, FS_CardinalityType

\* There is still room when nothing was placed, and the table did not grow.
LEMMA RoomStays ==
  ASSUME CallsTyped, RoomForOne, NEW c \in Call,
         listed' = listed \/ listed' = listed \ {c},
         late'.checked = late.checked,
         \A d \in Call : dialling'[d] \in Placing => dialling[d] \in Placing,
         \A d \in Call : dialling[d] # "no" => dialling'[d] # "no"
  PROVE  RoomForOne'
<1> DEFINE n == Cardinality(listed \ late.checked)
           m == Cardinality(listed' \ late'.checked)
<1>1. n \in Nat /\ m \in Nat /\ m <= n
  <2>1. IsFiniteSet(listed)
    BY DEF CallsTyped
  <2>2. CASE listed' = listed
    <3>1. m = n
      BY <2>2
    <3>2. n \in Nat
      BY <2>1, FewerListed
    <3> QED
      BY <3>1, <3>2
  <2>3. CASE listed' = listed \ {c}
    <3>1. m = Cardinality((listed \ {c}) \ late.checked)
      BY <2>3
    <3> QED
      BY <2>1, <3>1, FewerListed
  <2> QED
    BY <2>2, <2>3
<1>2. late.checked \subseteq Call
  BY DEF CallsTyped
<1>3. /\ n <= MaxConcurrentCalls
      /\ \A d \in Call \ late.checked : dialling[d] \in Placing =>
           /\ n < MaxConcurrentCalls
           /\ \A e \in Call \ late.checked : dialling[e] \in Placing => e = d
      /\ \A d \in late.checked : dialling[d] # "no"
  BY DEF RoomForOne
<1> HIDE DEF n, m
<1>4. /\ m <= MaxConcurrentCalls
      /\ \A d \in Call \ late'.checked : dialling'[d] \in Placing =>
           /\ m < MaxConcurrentCalls
           /\ \A e \in Call \ late'.checked : dialling'[e] \in Placing => e = d
      /\ \A d \in late'.checked : dialling'[d] # "no"
  BY <1>1, <1>2, <1>3, CallsAssumption
<1> QED
  BY <1>4 DEF RoomForOne, m

\* What the end of a call does to the AI session before endCall looks.
AIRestsOrFails(c) ==
  \/ aiConn' = aiConn
  \/ aiConn[c] = "opening" /\ aiConn' = [aiConn EXCEPT ![c] = "closed"]

\* Whoever ends a call that went through the table, and however many do.
LEMMA CallEnds ==
  ASSUME CallsInv, NEW c \in Call, Ended(c), dialling[c] = "listed",
         line' = line \/ LineOver(c),
         AIRestsOrFails(c),
         UNCHANGED <<dialling, mediaConn, reports, late>>
  PROVE  CallsInv'
<1> USE DEF CallsInv
<1>1. IsFiniteSet(listed')
  BY FewerListed DEF CallsTyped, Ended
<1>2. /\ line' \in [Call -> {"none", "ringing", "answered", "over"}]
      /\ line'[c] \in {line[c], "over"} /\ (line[c] = "none" => line'[c] = "none")
      /\ \A d \in Call \ {c} : line'[d] = line[d]
  BY DEF CallsTyped, CallsTypeOK, LineOver
<1>3. /\ aiConn' \in [Call -> {"none", "opening", "open", "closed"}]
      /\ aiConn'[c] = aiConn[c] \/ (aiConn[c] = "opening" /\ aiConn'[c] = "closed")
      /\ \A d \in Call \ {c} : aiConn'[d] = aiConn[d]
  <2>1. aiConn \in [Call -> {"none", "opening", "open", "closed"}]
    BY DEF CallsTyped, CallsTypeOK
  <2>2. CASE aiConn' = aiConn
    BY <2>1, <2>2
  <2>3. CASE aiConn[c] = "opening" /\ aiConn' = [aiConn EXCEPT ![c] = "closed"]
    BY <2>1, <2>3
  <2> QED
    BY <2>2, <2>3 DEF AIRestsOrFails
<1>4. /\ ending' \in [Call -> {"no", "marked", "streamClosed", "done"}]
      /\ wrapUp' \in [Call -> {"none", "given", "reported", "late"}]
      /\ listed' \subseteq Call /\ c \notin listed'
      /\ ending'[c] = IF ending[c] = "no" THEN "marked" ELSE ending[c]
      /\ wrapUp'[c] = wrapUp[c] \/ (wrapUp[c] = "given" /\ wrapUp'[c] = "reported")
      /\ wrapUp'[c] # "given"
      /\ \A d \in Call \ {c} : /\ ending'[d] = ending[d] /\ wrapUp'[d] = wrapUp[d]
                               /\ d \in listed' <=> d \in listed
  <2>1. c \in listed => ending[c] = "no"
    BY DEF CallFits
  <2>2. ending[c] # "no" => wrapUp[c] # "given"
    BY DEF CallFits
  <2>3. /\ ending \in [Call -> {"no", "marked", "streamClosed", "done"}]
        /\ wrapUp \in [Call -> {"none", "given", "reported", "late"}]
        /\ listed \subseteq Call
    BY DEF CallsTyped, CallsTypeOK
  <2>4. ending' = IF ending[c] = "no" THEN [ending EXCEPT ![c] = "marked"] ELSE ending
    BY DEF Ended
  <2>5. listed' = listed \ {c}
    BY <2>1 DEF Ended
  <2>6. wrapUp' = IF wrapUp[c] = "given" THEN [wrapUp EXCEPT ![c] = "reported"] ELSE wrapUp
    BY <2>2, <2>3 DEF Ended
  <2>7. c \notin listed' /\ \A d \in Call \ {c} : d \in listed' <=> d \in listed
    BY <2>5
  <2>8. /\ ending' \in [Call -> {"no", "marked", "streamClosed", "done"}]
        /\ ending'[c] = IF ending[c] = "no" THEN "marked" ELSE ending[c]
        /\ \A d \in Call \ {c} : ending'[d] = ending[d]
    BY <2>3, <2>4
  <2>9. /\ wrapUp' \in [Call -> {"none", "given", "reported", "late"}]
        /\ wrapUp'[c] = wrapUp[c] \/ (wrapUp[c] = "given" /\ wrapUp'[c] = "reported")
        /\ wrapUp'[c] # "given"
        /\ \A d \in Call \ {c} : wrapUp'[d] = wrapUp[d]
    <3>1. CASE wrapUp[c] = "given"
      <4>1. wrapUp' = [wrapUp EXCEPT ![c] = "reported"]
        BY <2>6, <3>1
      <4> QED
        BY <2>3, <3>1, <4>1
    <3>2. CASE wrapUp[c] # "given"
      <4>1. wrapUp' = wrapUp
        BY <2>6, <3>2
      <4> QED
        BY <2>3, <3>2, <4>1
    <3> QED
      BY <3>1, <3>2
  <2> QED
    BY <2>3, <2>5, <2>7, <2>8, <2>9
<1>5. CallsTyped'
  BY <1>1, <1>2, <1>3, <1>4 DEF CallsTyped, CallsTypeOK
<1>6. ASSUME NEW d \in Call PROVE CallFits(d)'
  <2>1. CallFits(d)
    OBVIOUS
  <2>2. CASE d = c
    <3>1. ending'[c] = "done" => ending[c] = "done"
      BY <1>4
    <3>2. ending'[c] = "streamClosed" => ending[c] = "streamClosed"
      BY <1>4
    <3>3. ending[c] \in {"no", "marked", "streamClosed", "done"}
      BY DEF CallsTyped, CallsTypeOK
    <3> QED
      BY <1>2, <1>3, <1>4, <2>1, <2>2, <3>1, <3>2, <3>3 DEF CallFits
  <2>3. CASE d # c
    BY <1>2, <1>3, <1>4, <2>1, <2>3 DEF CallFits
  <2> QED
    BY <2>2, <2>3
<1>7. RoomForOne'
  BY RoomStays DEF Ended
<1> QED
  BY <1>5, <1>6, <1>7

\* endCall closes what there is, and notes what is still being set up.
LEMMA CallCloses ==
  ASSUME CallsInv, NEW c \in Call, CloseStream(c) \/ CloseSession(c)
  PROVE  CallsInv'
<1> USE DEF CallsInv
<1>1. /\ ending' \in [Call -> {"no", "marked", "streamClosed", "done"}]
      /\ mediaConn' \in [Call -> {"none", "connected", "known", "bound", "closed"}]
      /\ aiConn' \in [Call -> {"none", "opening", "open", "closed"}]
      /\ reports' \in [Call -> Nat]
      /\ late' \in [checked : SUBSET Call, stream : SUBSET Call, session : SUBSET Call]
      /\ late'.checked = late.checked
      /\ \A d \in Call \ {c} : /\ ending'[d] = ending[d] /\ mediaConn'[d] = mediaConn[d]
                               /\ aiConn'[d] = aiConn[d] /\ reports'[d] = reports[d]
      /\ \A d \in Call : /\ d \in late.stream => d \in late'.stream
                         /\ d \in late.session => d \in late'.session
      /\ UNCHANGED <<dialling, line, listed, wrapUp>>
  BY DEF CallsTyped, CallsTypeOK, CloseStream, CloseSession
<1>2. CallsTyped'
  BY <1>1 DEF CallsTyped, CallsTypeOK
<1>3. ASSUME CloseStream(c) PROVE CallFits(c)'
  <2>1. /\ ending[c] = "marked" /\ ending'[c] = "streamClosed"
        /\ mediaConn'[c] = IF mediaConn[c] = "bound" THEN "closed" ELSE mediaConn[c]
        /\ mediaConn[c] = "known" => c \in late'.stream
        /\ aiConn'[c] = aiConn[c] /\ reports'[c] = reports[c]
    BY <1>3 DEF CallsTyped, CallsTypeOK, CloseStream
  <2> QED
    BY <1>1, <2>1 DEF CallFits
<1>4. ASSUME CloseSession(c) PROVE CallFits(c)'
  <2>1. /\ ending[c] = "streamClosed" /\ ending'[c] = "done"
        /\ aiConn'[c] = IF aiConn[c] = "open" THEN "closed" ELSE aiConn[c]
        /\ mediaConn[c] = "known" \/ aiConn[c] = "opening" => c \in late'.session
        /\ mediaConn'[c] = mediaConn[c] /\ reports'[c] = reports[c] + 1
    BY <1>4 DEF CallsTyped, CallsTypeOK, CloseSession
  <2> QED
    BY <1>1, <2>1 DEF CallFits
<1>5. ASSUME NEW d \in Call \ {c} PROVE CallFits(d)'
  BY <1>1 DEF CallFits
<1>6. RoomForOne'
  BY <1>1, RoomStays
<1> QED
  BY <1>2, <1>3, <1>4, <1>5, <1>6

\* A call that is checked while another is being placed is not counted.
LEMMA CallChecked ==
  ASSUME CallsInv, NEW c \in Call, CheckCap(c)
  PROVE  CallsInv'
<1> USE DEF CallsInv, CheckCap
<1>1. /\ dialling' \in [Call -> {"no", "checked", "dialled", "listed", "failed"}]
      /\ dialling[c] = "no" /\ dialling'[c] = "checked"
      /\ \A d \in Call \ {c} : dialling'[d] = dialling[d]
      /\ late' \in [checked : SUBSET Call, stream : SUBSET Call, session : SUBSET Call]
      /\ late'.stream = late.stream /\ late'.session = late.session
      /\ late'.checked = late.checked \/ late'.checked = late.checked \cup {c}
      /\ c \notin late'.checked => \A d \in Call \ {c} : dialling[d] \notin Placing
  BY DEF CallsTyped, CallsTypeOK, Placing
<1>2. CallsTyped'
  BY <1>1 DEF CallsTyped, CallsTypeOK
<1>3. \A d \in Call : CallFits(d)'
  BY <1>1 DEF CallFits
<1>4. listed \ late'.checked = listed \ late.checked
  BY <1>1 DEF CallFits
<1>5. Cardinality(listed \ late.checked) < MaxConcurrentCalls
  <2>1. /\ Cardinality(listed \ late.checked) <= Cardinality(listed)
        /\ Cardinality(listed \ late.checked) \in Nat /\ Cardinality(listed) \in Nat
    BY FS_Subset, FS_CardinalityType DEF CallsTyped
  <2> QED
    BY <2>1, CallsAssumption
<1>6. RoomForOne'
  <2>1. Cardinality(listed' \ late'.checked) = Cardinality(listed \ late.checked)
    BY <1>4
  <2>2. \A d \in Call \ late'.checked : dialling'[d] \in Placing =>
           \A e \in Call \ late'.checked : dialling'[e] \in Placing => e = d
    <3>1. CASE c \in late'.checked
      BY <1>1, <3>1 DEF RoomForOne
    <3>2. CASE c \notin late'.checked
      BY <1>1, <3>2
    <3> QED
      BY <3>1, <3>2
  <2>3. \A d \in late'.checked : dialling'[d] # "no"
    BY <1>1 DEF RoomForOne
  <2> QED
    BY <1>5, <2>1, <2>2, <2>3 DEF RoomForOne
<1> QED
  BY <1>2, <1>3, <1>6

\* A call that is listed fills the room there was for it.
LEMMA CallListed ==
  ASSUME CallsInv, NEW c \in Call, ListCall(c)
  PROVE  CallsInv'
<1> USE DEF CallsInv, ListCall
<1>1. /\ dialling' \in [Call -> {"no", "checked", "dialled", "listed", "failed"}]
      /\ dialling[c] = "dialled" /\ dialling'[c] \in {"listed", "failed"}
      /\ \A d \in Call \ {c} : dialling'[d] = dialling[d]
      /\ \/ dialling'[c] = "listed" /\ listed' = listed \cup {c}
         \/ listed' = listed
      /\ ending[c] = "no" /\ late.checked \subseteq Call
  BY DEF CallsTyped, CallsTypeOK, CallFits
<1>2. IsFiniteSet(listed')
  BY <1>1, FS_AddElement DEF CallsTyped
<1>3. CallsTyped'
  BY <1>1, <1>2 DEF CallsTyped, CallsTypeOK
<1>4. \A d \in Call : CallFits(d)'
  BY <1>1 DEF CallFits
<1>5. RoomForOne'
  <2>1. CASE listed' = listed
    BY <1>1, <2>1, RoomStays DEF Placing
  <2>2. CASE c \in late.checked /\ listed' = listed \cup {c}
    <3>1. listed' \ late.checked = listed \ late.checked
      BY <2>2
    <3>2. Cardinality(listed' \ late'.checked) = Cardinality(listed \ late.checked)
      BY <3>1
    <3> QED
      BY <1>1, <2>2, <3>2 DEF RoomForOne, Placing
  <2>3. CASE c \notin late.checked /\ listed' = listed \cup {c}
    <3>1. listed' \ late.checked = (listed \ late.checked) \cup {c}
      BY <2>3
    <3>0. c \notin listed
      BY <1>1 DEF CallFits
    <3>2. IsFiniteSet(listed \ late.checked) /\ Cardinality(listed \ late.checked) \in Nat
      BY FS_Subset, FS_CardinalityType DEF CallsTyped
    <3>3. Cardinality((listed \ late.checked) \cup {c}) = Cardinality(listed \ late.checked) + 1
      BY <3>0, <3>2, FS_AddElement
    <3>4. Cardinality(listed \ late.checked) < MaxConcurrentCalls
      BY <1>1, <2>3 DEF RoomForOne, Placing
    <3>5. Cardinality(listed' \ late'.checked) <= MaxConcurrentCalls
      BY <3>1, <3>2, <3>3, <3>4, CallsAssumption
    <3>6. \A d \in Call \ late.checked : dialling'[d] \notin Placing
      BY <1>1, <2>3 DEF RoomForOne, Placing
    <3>7. \A d \in late.checked : dialling'[d] # "no"
      BY <1>1 DEF RoomForOne
    <3> QED
      BY <3>5, <3>6, <3>7 DEF RoomForOne
  <2> QED
    BY <1>1, <2>1, <2>2, <2>3
<1> QED
  BY <1>3, <1>4, <1>5

\* Every step of a call, the carrier and the session keeps the invariant.
LEMMA CallsStep == CallsInv /\ [CallsNext]_callVars => CallsInv'
<1> SUFFICES ASSUME CallsInv, [CallsNext]_callVars
             PROVE  CallsInv'
  OBVIOUS
<1> USE DEF CallsInv
<1>1. CASE UNCHANGED callVars
  BY <1>1 DEF callVars, CallsTyped, CallsTypeOK, CallFits, RoomForOne
<1>2. ASSUME NEW c \in Call, DialCall(c) PROVE CallsInv'
  <2> USE <1>2 DEF DialCall
  <2>1. /\ dialling' \in [Call -> {"no", "checked", "dialled", "listed", "failed"}]
        /\ line' \in [Call -> {"none", "ringing", "answered", "over"}]
        /\ dialling[c] = "checked" /\ dialling'[c] \in {"dialled", "failed"}
        /\ \A d \in Call \ {c} : dialling'[d] = dialling[d]
    BY DEF CallsTyped, CallsTypeOK
  <2>2. CallsTyped'
    BY <2>1 DEF CallsTyped, CallsTypeOK
  <2>3. \A d \in Call : CallFits(d)'
    BY <2>1 DEF CallFits
  <2>4. RoomForOne'
    BY <2>1, RoomStays DEF Placing
  <2> QED
    BY <2>2, <2>3, <2>4
<1>3. ASSUME NEW c \in Call, PickUp(c) \/ CallerLeaves(c) PROVE CallsInv'
  <2> USE <1>3 DEF PickUp, CallerLeaves, LineOver
  <2>1. /\ line' \in [Call -> {"none", "ringing", "answered", "over"}]
        /\ mediaConn' \in [Call -> {"none", "connected", "known", "bound", "closed"}]
        /\ mediaConn'[c] \in {mediaConn[c], "connected"}
        /\ \A d \in Call \ {c} : mediaConn'[d] = mediaConn[d]
        /\ UNCHANGED <<dialling, listed, ending, aiConn, wrapUp, reports, late>>
    BY DEF CallsTyped, CallsTypeOK
  <2>2. CallsTyped'
    BY <2>1 DEF CallsTyped, CallsTypeOK
  <2>3. \A d \in Call : CallFits(d)'
    BY <2>1 DEF CallFits
  <2>4. RoomForOne'
    BY <2>1, RoomStays
  <2> QED
    BY <2>2, <2>3, <2>4
<1>4. ASSUME NEW c \in Call, FindCall(c) \/ StartMedia(c) \/ OpenAI(c) PROVE CallsInv'
  <2> USE <1>4 DEF FindCall, StartMedia, OpenAI
  <2>1. /\ mediaConn' \in [Call -> {"none", "connected", "known", "bound", "closed"}]
        /\ aiConn' \in [Call -> {"none", "opening", "open", "closed"}]
        /\ \A d \in Call \ {c} : mediaConn'[d] = mediaConn[d] /\ aiConn'[d] = aiConn[d]
        /\ UNCHANGED <<dialling, line, listed, ending, wrapUp, reports, late>>
    BY DEF CallsTyped, CallsTypeOK
  <2>2. CallsTyped'
    BY <2>1 DEF CallsTyped, CallsTypeOK
  <2>3. ASSUME NEW d \in Call \ {c} PROVE CallFits(d)'
    BY <2>1 DEF CallFits
  <2>4. ASSUME FindCall(c) PROVE CallFits(c)'
    <3>1. /\ mediaConn[c] = "connected" /\ aiConn'[c] = aiConn[c]
          /\ IF c \in listed THEN mediaConn'[c] = "known" /\ ending[c] = "no"
                             ELSE mediaConn'[c] = "closed"
      BY <2>4 DEF CallsTyped, CallsTypeOK, CallFits
    <3> QED
      BY <2>1, <3>1 DEF CallFits
  <2>5. ASSUME StartMedia(c) PROVE CallFits(c)'
    <3>1. mediaConn[c] = "known" /\ mediaConn'[c] = "bound" /\ aiConn'[c] = "opening"
      BY <2>5 DEF CallsTyped, CallsTypeOK
    <3> QED
      BY <2>1, <3>1 DEF CallFits
  <2>6. ASSUME OpenAI(c) PROVE CallFits(c)'
    <3>1. mediaConn'[c] = mediaConn[c] /\ aiConn[c] = "opening" /\ aiConn'[c] = "open"
      BY <2>6 DEF CallsTyped, CallsTypeOK
    <3> QED
      BY <2>1, <3>1 DEF CallFits
  <2>7. CallFits(c)'
    BY <1>4, <2>4, <2>5, <2>6
  <2>8. RoomForOne'
    BY <2>1, RoomStays
  <2> QED
    BY <2>2, <2>3, <2>7, <2>8
<1>7. ASSUME NEW c \in Call, FinishCall(c) PROVE CallsInv'
  <2> USE <1>7 DEF FinishCall
  <2>1. /\ wrapUp' \in [Call -> {"none", "given", "reported", "late"}]
        /\ wrapUp'[c] = IF ending[c] = "no" THEN "given" ELSE "late"
        /\ \A d \in Call \ {c} : wrapUp'[d] = wrapUp[d]
    BY DEF CallsTyped
  <2>2. CallsTyped'
    BY <2>1 DEF CallsTyped, CallsTypeOK
  <2>3. \A d \in Call : CallFits(d)'
    BY <2>1 DEF CallFits
  <2>4. RoomForOne'
    BY <2>1, RoomStays
  <2> QED
    BY <2>2, <2>3, <2>4
<1>8. ASSUME NEW c \in Call,
             HangUp(c) \/ HangupWebhook(c) \/ OpenAIFails(c) \/ MediaStops(c) \/ AIStops(c)
      PROVE  CallsInv'
  <2>1. dialling[c] = "listed" /\ Ended(c) /\ UNCHANGED <<dialling, mediaConn, reports, late>>
    BY <1>8 DEF HangUp, HangupWebhook, OpenAIFails, MediaStops, AIStops, CallFits
  <2>2. line' = line \/ LineOver(c)
    BY <1>8 DEF HangUp, HangupWebhook, OpenAIFails, MediaStops, AIStops
  <2>3. AIRestsOrFails(c)
    BY <1>8 DEF AIRestsOrFails, HangUp, HangupWebhook, OpenAIFails, MediaStops, AIStops
  <2>4. CallsInv
    OBVIOUS
  <2> QED
    BY <2>1, <2>2, <2>3, <2>4, CallEnds
<1> QED
  BY <1>1, <1>2, <1>3, <1>4, <1>7, <1>8, CallChecked, CallListed, CallCloses DEF CallsNext

\* A call ends once and completely, and there are no more of them than the cap.
THEOREM CallsKept == CallsSpec => []CallsEndOnce
<1>1. CallsInv => CallsEndOnce
  BY DEF CallsInv, CallsTyped, CallFits, RoomForOne, CallsEndOnce
<1> QED
  BY <1>1, CallsStart, CallsStep, PTL DEF CallsSpec

--------------------------------------------------------------------------------
\* The audience (Audience).

PulseType == [pending : Nat, timer : BOOLEAN, flying : Nat, told : Nat, missed : Nat]

\* Words that were counted for the stage.
Counted == pulse.told + pulse.missed + pulse.flying + pulse.pending

AudienceTyped ==
  /\ chat \in [Speaker -> {"absent", "greeting", "idle", "words", "counting"}]
  /\ turns \in [Speaker -> 0..MaxTurns]
  /\ vesMu \subseteq Speaker
  /\ held = [s \in Speaker |-> held[s]]
  /\ inbox = [whole |-> inbox.whole, messages |-> inbox.messages]
  /\ pulse \in PulseType
  /\ said \in Seq(Speaker)

(***************************************************************************)
(* One handler has the inbox at a time, and holds the newest of what was   *)
(* said until then; after a write that was cut short, nothing was.         *)
(***************************************************************************)
InboxHeld ==
  /\ \A s, t \in vesMu : s = t
  /\ \A s \in vesMu : held[s] = NewestOf(said) /\ chat[s] \in {"greeting", "words"}
  /\ vesMu = {} /\ ~inbox.whole => said = <<>>

AudienceInv ==
  /\ AudienceTyped
  /\ InboxHeld
  /\ WordsAreSafe
  /\ StageIsTold
  /\ \A s \in Speaker : chat[s] = "absent" => turns[s] = 0

\* The newest of what was said keeps its size, or is all of it.
LEMMA NewestLength ==
  ASSUME NEW m \in Seq(Speaker)
  PROVE  /\ NewestOf(m) \in Seq(Speaker)
         /\ Len(NewestOf(m)) = IF Len(m) > InboxSize THEN InboxSize ELSE Len(m)
         /\ \A i \in 1..Len(NewestOf(m)) :
              NewestOf(m)[i] = m[IF Len(m) > InboxSize THEN Len(m) - InboxSize + i ELSE i]
<1>1. Len(m) \in Nat /\ InboxSize \in Nat \ {0}
  BY AudienceAssumption
<1>2. CASE Len(m) > InboxSize
  <2> DEFINE a == Len(m) - InboxSize + 1
             n == SubSeq(m, a, Len(m))
  <2>1. NewestOf(m) = n
    BY <1>2 DEF NewestOf
  <2>2. a \in 1..Len(m) /\ Len(m) - a + 1 = InboxSize
    BY <1>1, <1>2
  <2>3. n \in Seq(Speaker) /\ Len(n) = InboxSize
    BY ONLY m \in Seq(Speaker), <1>1, <2>2
  <2>4. ASSUME NEW i \in 1..Len(n) PROVE n[i] = m[Len(m) - InboxSize + i]
    <3>1. i \in 1..(Len(m) - a + 1) /\ a + i - 1 = Len(m) - InboxSize + i
      BY <1>1, <2>2, <2>3
    <3>2. n[i] = m[a + i - 1]
      BY ONLY m \in Seq(Speaker), <1>1, <2>2, <3>1
    <3> QED
      BY <3>1, <3>2
  <2> HIDE DEF n
  <2> QED
    BY <1>2, <2>1, <2>3, <2>4
<1>3. CASE ~(Len(m) > InboxSize)
  <2>1. NewestOf(m) = SubSeq(m, 1, Len(m))
    BY <1>3 DEF NewestOf
  <2> QED
    BY <1>1, <1>3, <2>1
<1> QED
  BY <1>2, <1>3

\* To have kept the newest is to have kept everything, for the newest of it and a word.
LEMMA NewestOfAppended ==
  ASSUME NEW m \in Seq(Speaker), NEW s \in Speaker
  PROVE  NewestOf(Append(NewestOf(m), s)) = NewestOf(Append(m, s))
<1> DEFINE k == NewestOf(m)
           a == Append(k, s)
           b == Append(m, s)
<1>1. /\ Len(m) \in Nat /\ InboxSize \in Nat \ {0}
      /\ k \in Seq(Speaker) /\ Len(k) \in Nat
      /\ Len(k) = IF Len(m) > InboxSize THEN InboxSize ELSE Len(m)
      /\ \A i \in 1..Len(k) : k[i] = m[IF Len(m) > InboxSize THEN Len(m) - InboxSize + i ELSE i]
  BY NewestLength, AudienceAssumption
<1> HIDE DEF k
<1>2. /\ a \in Seq(Speaker) /\ Len(a) = Len(k) + 1 /\ a[Len(k) + 1] = s
      /\ \A i \in 1..Len(k) : a[i] = k[i]
      /\ b \in Seq(Speaker) /\ Len(b) = Len(m) + 1 /\ b[Len(m) + 1] = s
      /\ \A i \in 1..Len(m) : b[i] = m[i]
  BY <1>1
<1> HIDE DEF a, b
<1> DEFINE x == NewestOf(a)
           y == NewestOf(b)
<1>3. /\ x \in Seq(Speaker)
      /\ Len(x) = IF Len(a) > InboxSize THEN InboxSize ELSE Len(a)
      /\ \A i \in 1..Len(x) : x[i] = a[IF Len(a) > InboxSize THEN Len(a) - InboxSize + i ELSE i]
  BY <1>2, NewestLength
<1>4. /\ y \in Seq(Speaker)
      /\ Len(y) = IF Len(b) > InboxSize THEN InboxSize ELSE Len(b)
      /\ \A i \in 1..Len(y) : y[i] = b[IF Len(b) > InboxSize THEN Len(b) - InboxSize + i ELSE i]
  BY <1>2, NewestLength
<1> HIDE DEF x, y
<1>5. Len(x) = Len(y)
  BY <1>1, <1>2, <1>3, <1>4
<1>6. ASSUME NEW i \in 1..Len(x) PROVE x[i] = y[i]
  <2>1. CASE Len(m) < InboxSize
    <3>1. Len(a) = Len(m) + 1 /\ Len(b) = Len(m) + 1 /\ Len(x) = Len(m) + 1
      BY <1>1, <1>2, <1>3, <2>1
    <3>2. x[i] = a[i] /\ y[i] = b[i]
      <4>1. ~(Len(a) > InboxSize) /\ ~(Len(b) > InboxSize)
        BY <1>1, <2>1, <3>1
      <4>2. i \in 1..Len(y)
        BY <1>5
      <4>3. x[i] = a[i]
        BY <1>3, <4>1
      <4> QED
        BY <1>4, <4>1, <4>2, <4>3
    <3>3. CASE i = Len(m) + 1
      BY <1>1, <1>2, <2>1, <3>1, <3>2, <3>3
    <3>4. CASE i # Len(m) + 1
      <4>1. i \in 1..Len(m) /\ Len(k) = Len(m)
        BY <1>1, <2>1, <3>1, <3>4
      <4> QED
        BY <1>1, <1>2, <2>1, <3>2, <4>1
    <3> QED
      BY <3>3, <3>4
  <2>2. CASE Len(m) >= InboxSize
    <3>1. /\ Len(k) = InboxSize /\ Len(a) = InboxSize + 1 /\ Len(x) = InboxSize
          /\ Len(b) = Len(m) + 1 /\ Len(b) > InboxSize
      BY <1>1, <1>2, <1>3, <2>2
    <3>2. x[i] = a[i + 1] /\ y[i] = b[Len(m) + 1 - InboxSize + i]
      BY <1>1, <1>3, <1>4, <1>5, <2>2, <3>1
    <3>3. CASE i = InboxSize
      BY <1>1, <1>2, <3>1, <3>2, <3>3
    <3>4. CASE i # InboxSize
      <4>1. /\ i + 1 \in 1..Len(k) /\ Len(m) + 1 - InboxSize + i \in 1..Len(m)
        BY <1>1, <2>2, <3>1, <3>4
      <4>2. k[i + 1] = m[Len(m) + 1 - InboxSize + i]
        BY <1>1, <2>2, <3>1, <4>1
      <4> QED
        BY <1>2, <3>2, <4>1, <4>2
    <3> QED
      BY <3>3, <3>4
  <2> QED
    BY <1>1, <2>1, <2>2
<1> QED
  BY <1>3, <1>4, <1>5, <1>6 DEF x, y, a, b, k


\* Those whose words are on their way to the stage.
Busy == {s \in Speaker : chat[s] \in {"words", "counting"}}

\* Of nothing, the newest is nothing.
LEMMA NewestOfNothing == NewestOf(<<>>) = <<>>
<1>1. Len(<<>>) = 0 /\ InboxSize \in Nat \ {0}
  BY AudienceAssumption
<1>2. NewestOf(<<>>) = SubSeq(<<>>, 1, 0)
  BY <1>1 DEF NewestOf
<1> QED
  BY <1>2

\* What is counted is finite.
LEMMA CountsAreFinite ==
  ASSUME AudienceTyped
  PROVE  /\ IsFiniteSet(Busy) /\ Cardinality(Busy) \in Nat
         /\ IsFiniteSet(Taken) /\ Cardinality(Taken) \in Nat
<1>1. IsFiniteSet(Busy)
  BY FS_Subset, AudienceAssumption DEF Busy
<1>2. IsFiniteSet(1..MaxTurns)
  BY FS_Interval, AudienceAssumption
<1>3. IsFiniteSet(Speaker \X (1..MaxTurns))
  BY <1>2, FS_Product, AudienceAssumption
<1>4. IsFiniteSet(Taken)
  BY <1>3, FS_Subset DEF Taken
<1> QED
  BY <1>1, <1>4, FS_CardinalityType

\* The stage knows as much when the same words are on their way, or told.
LEMMA StageStays ==
  ASSUME StageIsTold, turns' = turns, Busy' = Busy,
         pulse'.pending > 0 => pulse'.timer,
         Counted' = Counted
  PROVE  StageIsTold'
<1>1. Taken' = Taken
  BY DEF Taken
<1>2. Cardinality(Taken') = Cardinality(Taken) /\ Cardinality(Busy') = Cardinality(Busy)
  BY <1>1
<1> QED
  BY <1>2 DEF StageIsTold, Busy, Counted

\* Nobody has come at first.
LEMMA AudienceStart == AudienceInit => AudienceInv
<1> SUFFICES ASSUME AudienceInit PROVE AudienceInv
  OBVIOUS
<1> USE DEF AudienceInit
<1>1. AudienceTyped
  BY AudienceAssumption DEF AudienceTyped, Unread, NoPulse, PulseType
<1>3. WordsAreSafe
  BY NewestOfNothing DEF WordsAreSafe
<1>4. Busy = {} /\ Taken = {}
  BY AudienceAssumption DEF Busy, Taken
<1>5. Cardinality(Busy) = 0 /\ Cardinality(Taken) = 0
  BY <1>4, FS_EmptySet
<1>6. StageIsTold
  BY <1>5 DEF StageIsTold, Busy, NoPulse
<1> QED
  BY <1>1, <1>3, <1>6 DEF AudienceInv, InboxHeld

\* A word that is taken is on its way.
LEMMA SayWordsInv ==
  ASSUME AudienceInv, NEW s \in Speaker, SayWords(s)
  PROVE  AudienceInv'
<1> USE DEF AudienceInv, SayWords, ChatStep
<1>1. /\ chat' \in [Speaker -> {"absent", "greeting", "idle", "words", "counting"}]
      /\ turns' \in [Speaker -> 0..MaxTurns]
      /\ chat[s] = "idle" /\ chat'[s] = "words" /\ turns'[s] = turns[s] + 1
      /\ turns[s] \in Nat /\ turns'[s] \in 1..MaxTurns
      /\ \A t \in Speaker \ {s} : chat'[t] = chat[t] /\ turns'[t] = turns[t]
  <2>1. turns[s] \in 0..MaxTurns /\ MaxTurns \in Nat
    BY AudienceAssumption DEF AudienceTyped
  <2>2. turns[s] \in Nat /\ turns[s] + 1 \in 1..MaxTurns /\ turns[s] + 1 \in 0..MaxTurns
    BY <2>1
  <2>3. turns' \in [Speaker -> 0..MaxTurns] /\ turns'[s] = turns[s] + 1
    BY <2>2 DEF AudienceTyped
  <2>4. /\ chat' \in [Speaker -> {"absent", "greeting", "idle", "words", "counting"}]
        /\ chat[s] = "idle" /\ chat'[s] = "words"
        /\ \A t \in Speaker \ {s} : chat'[t] = chat[t] /\ turns'[t] = turns[t]
    BY DEF AudienceTyped
  <2> QED
    BY <2>2, <2>3, <2>4
<1>2. AudienceTyped'
  BY <1>1 DEF AudienceTyped
<1>3. InboxHeld'
  BY <1>1, Zenon DEF InboxHeld, AudienceTyped
<1>4. WordsAreSafe'
  BY DEF WordsAreSafe
<1>5. Busy' = Busy \cup {s} /\ s \notin Busy
  BY <1>1 DEF Busy
<1>6. Taken' = Taken \cup {<<s, turns'[s]>>}
  <2>1. ASSUME NEW t \in Speaker, NEW n \in 1..MaxTurns
        PROVE  n <= turns'[t] <=> n <= turns[t] \/ (t = s /\ n = turns'[s])
    <3>1. turns[t] \in Nat /\ n \in Nat
      BY AudienceAssumption DEF AudienceTyped
    <3> QED
      BY <1>1, <3>1
  <2> QED
    BY <1>1, <2>1 DEF Taken
<1>7. <<s, turns'[s]>> \notin Taken
  BY <1>1 DEF Taken
<1>8. Cardinality(Busy') = Cardinality(Busy) + 1
  <2>1. Cardinality(Busy \cup {s}) = Cardinality(Busy) + 1
    BY <1>5, FS_AddElement, CountsAreFinite
  <2> QED
    BY <1>5, <2>1
<1>9. Cardinality(Taken') = Cardinality(Taken) + 1
  <2>1. Cardinality(Taken \cup {<<s, turns'[s]>>}) = Cardinality(Taken) + 1
    BY <1>7, FS_AddElement, CountsAreFinite
  <2> QED
    BY <1>6, <2>1
<1>10. /\ pulse.pending > 0 => pulse.timer
       /\ Counted + Cardinality(Busy) = Cardinality(Taken)
  BY DEF StageIsTold, Busy, Counted
<1>11. Counted + Cardinality(Busy') = Cardinality(Taken')
  <2>1. Counted \in Nat
    BY DEF AudienceTyped, PulseType, Counted
  <2> QED
    BY <1>8, <1>9, <1>10, <2>1, CountsAreFinite
<1>12. StageIsTold'
  BY <1>10, <1>11 DEF StageIsTold, Busy, Counted
<1> QED
  BY <1>1, <1>2, <1>3, <1>4, <1>12

\* A word that is counted is pending instead of on its way.
LEMMA CountPulseInv ==
  ASSUME AudienceInv, NEW s \in Speaker, CountPulse(s)
  PROVE  AudienceInv'
<1> USE DEF AudienceInv, CountPulse, ChatStep
<1>1. /\ chat' \in [Speaker -> {"absent", "greeting", "idle", "words", "counting"}]
      /\ chat[s] = "counting" /\ chat'[s] = "idle"
      /\ \A t \in Speaker \ {s} : chat'[t] = chat[t]
      /\ pulse' \in PulseType
      /\ pulse'.timer = TRUE /\ Counted \in Nat /\ Counted' = Counted + 1
  <2>1. /\ chat' \in [Speaker -> {"absent", "greeting", "idle", "words", "counting"}]
        /\ chat[s] = "counting" /\ chat'[s] = "idle"
        /\ \A t \in Speaker \ {s} : chat'[t] = chat[t]
    BY DEF AudienceTyped
  <2>2. pulse' = [pending |-> pulse.pending + 1, timer |-> TRUE, flying |-> pulse.flying,
                  told |-> pulse.told, missed |-> pulse.missed]
    BY DEF AudienceTyped, PulseType
  <2>3. /\ pulse.pending \in Nat /\ pulse.flying \in Nat
        /\ pulse.told \in Nat /\ pulse.missed \in Nat
    BY DEF AudienceTyped, PulseType
  <2> QED
    <3>1. pulse' \in PulseType /\ pulse'.timer = TRUE
      <4>1. pulse.pending + 1 \in Nat /\ TRUE \in BOOLEAN
        BY <2>3
      <4> QED
        BY <2>2, <2>3, <4>1 DEF PulseType
    <3>2. Counted \in Nat /\ Counted' = Counted + 1
      <4>1. /\ pulse'.pending = pulse.pending + 1 /\ pulse'.flying = pulse.flying
            /\ pulse'.told = pulse.told /\ pulse'.missed = pulse.missed
        BY <2>2
      <4> QED
        BY <2>3, <4>1 DEF Counted
    <3> QED
      BY <2>1, <3>1, <3>2
<1>2. AudienceTyped'
  BY <1>1 DEF AudienceTyped
<1>3. InboxHeld'
  BY <1>1, Zenon DEF InboxHeld, AudienceTyped
<1>4. WordsAreSafe'
  BY DEF WordsAreSafe
<1>5. Busy' = Busy \ {s} /\ s \in Busy
  BY <1>1 DEF Busy
<1>6. Cardinality(Busy') = Cardinality(Busy) - 1
  <2>1. Cardinality(Busy \ {s}) = Cardinality(Busy) - 1
    BY <1>5, FS_RemoveElement, CountsAreFinite
  <2> QED
    BY <1>5, <2>1
<1>7. Taken' = Taken
  BY DEF Taken
<1>8. Cardinality(Taken') = Cardinality(Taken)
  BY <1>7
<1>9. Counted + Cardinality(Busy) = Cardinality(Taken)
  BY DEF StageIsTold, Busy, Counted
<1>10. Counted' + Cardinality(Busy') = Cardinality(Taken')
  BY <1>1, <1>6, <1>8, <1>9, CountsAreFinite
<1>11. StageIsTold'
  BY <1>1, <1>10 DEF StageIsTold, Busy, Counted
<1> QED
  BY <1>1, <1>2, <1>3, <1>4, <1>11

\* The handler that has the inbox adds its word to the newest of what was said.
LEMMA WriteInboxInv ==
  ASSUME AudienceInv, NEW s \in Speaker, WriteInbox(s)
  PROVE  AudienceInv'
<1> USE DEF AudienceInv, WriteInbox, Appended
<1>1. /\ held[s] = NewestOf(said) /\ chat[s] \in {"greeting", "words"}
      /\ vesMu = {s} /\ said \in Seq(Speaker)
  <2>1. s \in vesMu /\ said \in Seq(Speaker) /\ vesMu \subseteq Speaker
    BY DEF AudienceTyped
  <2>2. vesMu = {s}
    BY <2>1 DEF InboxHeld
  <2> QED
    BY <2>1, <2>2 DEF InboxHeld
<1>2. inbox'.whole /\ inbox'.messages = NewestOf(Append(said, s))
  BY <1>1, NewestOfAppended
<1>3. /\ chat' \in [Speaker -> {"absent", "greeting", "idle", "words", "counting"}]
      /\ chat'[s] = IF chat[s] = "words" THEN "counting" ELSE "idle"
      /\ \A t \in Speaker \ {s} : chat'[t] = chat[t]
  BY DEF AudienceTyped
<1>4. AudienceTyped'
  <2>1. said' \in Seq(Speaker)
    BY <1>1
  <2>2. held' = [t \in Speaker |-> held'[t]]
    BY DEF AudienceTyped
  <2>3. inbox' = [whole |-> inbox'.whole, messages |-> inbox'.messages]
    OBVIOUS
  <2> QED
    BY <1>3, <2>1, <2>2, <2>3 DEF AudienceTyped
<1>5. InboxHeld'
  BY <1>1, <1>2 DEF InboxHeld
<1>6. WordsAreSafe'
  <2>1. NewestOf(said)' = NewestOf(said')
    BY DEF NewestOf
  <2> QED
    BY <1>2, <2>1 DEF WordsAreSafe
<1>7. Busy' = Busy
  BY <1>1, <1>3 DEF Busy
<1>8. StageIsTold'
  BY <1>7, StageStays DEF StageIsTold, Counted
<1> QED
  BY <1>1, <1>3, <1>4, <1>5, <1>6, <1>8

\* A write that fails loses the words, and what is left of the file says what was said.
LEMMA LoseWordsInv ==
  ASSUME AudienceInv, NEW s \in Speaker, LoseWords(s)
  PROVE  AudienceInv'
<1> USE DEF AudienceInv, LoseWords, Appended
<1>1. chat[s] \in {"greeting", "words"} /\ vesMu = {s} /\ said \in Seq(Speaker)
  BY DEF AudienceTyped, InboxHeld
<1>2. /\ chat' \in [Speaker -> {"absent", "greeting", "idle", "words", "counting"}]
      /\ chat'[s] = IF chat[s] = "words" THEN "counting" ELSE "idle"
      /\ \A t \in Speaker \ {s} : chat'[t] = chat[t]
  BY DEF AudienceTyped
<1>3. AudienceTyped'
  <2>1. said' \in Seq(Speaker)
    BY <1>1
  <2>2. held' = [t \in Speaker |-> held'[t]]
    BY DEF AudienceTyped
  <2> QED
    BY <1>2, <2>1, <2>2 DEF AudienceTyped
<1>4. InboxHeld'
  BY <1>1 DEF InboxHeld
<1>5. WordsAreSafe'
  BY DEF WordsAreSafe, NewestOf
<1>6. Busy' = Busy
  BY <1>1, <1>2 DEF Busy
<1>7. StageIsTold'
  BY <1>6, StageStays DEF StageIsTold, Counted
<1> QED
  BY <1>1, <1>2, <1>3, <1>4, <1>5, <1>7

\* Every step of a speaker, a handler, the timer and the server keeps the invariant.
LEMMA AudienceStep == AudienceInv /\ [AudienceNext]_audienceVars => AudienceInv'
<1> SUFFICES ASSUME AudienceInv, [AudienceNext]_audienceVars
             PROVE  AudienceInv'
  OBVIOUS
<1> USE DEF AudienceInv
<1>1. CASE UNCHANGED audienceVars
  <2>1. Busy' = Busy
    BY <1>1 DEF audienceVars, Busy
  <2>2. StageIsTold'
    BY <1>1, <2>1, StageStays DEF audienceVars, StageIsTold, Counted
  <2> QED
    BY <1>1, <2>2 DEF audienceVars, AudienceTyped, InboxHeld, WordsAreSafe
<1>2. ASSUME NEW s \in Speaker, JoinChat(s) PROVE AudienceInv'
  <2> USE <1>2 DEF JoinChat, ChatStep
  <2>1. /\ chat' \in [Speaker -> {"absent", "greeting", "idle", "words", "counting"}]
        /\ chat[s] = "absent" /\ chat'[s] \in {"absent", "greeting"}
        /\ \A t \in Speaker \ {s} : chat'[t] = chat[t]
        /\ turns' = turns
    BY DEF AudienceTyped
  <2>2. Busy' = Busy
    BY <2>1 DEF Busy
  <2>3. StageIsTold'
    BY <2>1, <2>2, StageStays DEF StageIsTold, Counted
  <2>4. AudienceTyped' /\ WordsAreSafe'
    BY <2>1 DEF AudienceTyped, WordsAreSafe
  <2>5. InboxHeld'
    BY <2>1 DEF InboxHeld, AudienceTyped
  <2> QED
    BY <2>1, <2>3, <2>4, <2>5
<1>3. ASSUME NEW s \in Speaker, ReadInbox(s) PROVE AudienceInv'
  <2> USE <1>3 DEF ReadInbox, LockInbox
  <2>1. Busy' = Busy
    BY DEF Busy
  <2>2. StageIsTold'
    BY <2>1, StageStays DEF StageIsTold, Counted
  <2>3. /\ held' = [t \in Speaker |-> held'[t]]
        /\ held'[s] = IF inbox.whole THEN inbox.messages ELSE <<>>
        /\ vesMu' = {s} /\ s \in Speaker
    BY DEF AudienceTyped
  <2>4. AudienceTyped' /\ WordsAreSafe'
    BY <2>3 DEF AudienceTyped, WordsAreSafe
  <2>5. held'[s] = NewestOf(said)
    <3>1. CASE inbox.whole
      BY <2>3, <3>1 DEF WordsAreSafe
    <3>2. CASE ~inbox.whole
      <4>1. said = <<>>
        BY <3>2 DEF InboxHeld
      <4> QED
        BY <2>3, <3>2, <4>1, NewestOfNothing
    <3> QED
      BY <3>1, <3>2
  <2>6. InboxHeld'
    BY <2>3, <2>5 DEF InboxHeld, NewestOf
  <2> QED
    BY <2>2, <2>4, <2>6
<1>4. ASSUME NEW s \in Speaker, TruncateInbox(s) PROVE AudienceInv'
  <2> USE <1>4 DEF TruncateInbox
  <2>1. Busy' = Busy
    BY DEF Busy
  <2>2. StageIsTold'
    BY <2>1, StageStays DEF StageIsTold, Counted
  <2>3. AudienceTyped' /\ WordsAreSafe' /\ InboxHeld'
    BY DEF AudienceTyped, WordsAreSafe, InboxHeld
  <2> QED
    BY <2>2, <2>3
<1>5. ASSUME FirePulse \/ \E n \in 1..pulse.flying : BroadcastPulse(n) PROVE AudienceInv'
  <2>1. Busy' = Busy /\ UNCHANGED <<chat, turns, vesMu, held, inbox, said>>
    BY <1>5 DEF Busy, FirePulse, BroadcastPulse
  <2>0. /\ pulse.pending \in Nat /\ pulse.flying \in Nat
        /\ pulse.told \in Nat /\ pulse.missed \in Nat
    BY DEF AudienceTyped, PulseType
  <2>2. pulse' \in PulseType /\ Counted' = Counted /\ (pulse'.pending > 0 => pulse'.timer)
    <3>1. CASE FirePulse
      <4>1. pulse' = [pending |-> 0, timer |-> FALSE, flying |-> pulse.flying + pulse.pending,
                      told |-> pulse.told, missed |-> pulse.missed]
        BY <3>1 DEF FirePulse, Flushed, AudienceTyped, PulseType
      <4> QED
        BY <2>0, <4>1 DEF Counted, PulseType
    <3>2. ASSUME NEW n \in 1..pulse.flying, BroadcastPulse(n)
          PROVE  /\ pulse' \in PulseType /\ Counted' = Counted
                 /\ pulse'.pending > 0 => pulse'.timer
      <4>1. n \in Nat /\ pulse.flying - n \in Nat
        BY <2>0, <3>2
      <4>2. pulse.timer \in BOOLEAN /\ (pulse.pending > 0 => pulse.timer)
        BY DEF StageIsTold, AudienceTyped, PulseType
      <4>3. CASE pulse' = [pulse EXCEPT !.flying = @ - n, !.told = @ + n]
        <5>1. pulse' = [pending |-> pulse.pending, timer |-> pulse.timer,
                        flying |-> pulse.flying - n, told |-> pulse.told + n,
                        missed |-> pulse.missed]
          BY <4>3 DEF AudienceTyped, PulseType
        <5> QED
          BY <2>0, <4>1, <4>2, <5>1 DEF Counted, PulseType
      <4>4. CASE pulse' = [pulse EXCEPT !.flying = @ - n, !.missed = @ + n]
        <5>1. pulse' = [pending |-> pulse.pending, timer |-> pulse.timer,
                        flying |-> pulse.flying - n, told |-> pulse.told,
                        missed |-> pulse.missed + n]
          BY <4>4 DEF AudienceTyped, PulseType
        <5> QED
          BY <2>0, <4>1, <4>2, <5>1 DEF Counted, PulseType
      <4> QED
        BY <3>2, <4>3, <4>4 DEF BroadcastPulse
    <3> QED
      BY <1>5, <3>1, <3>2
  <2>3. StageIsTold'
    BY <2>1, <2>2, StageStays
  <2>4. AudienceTyped' /\ WordsAreSafe' /\ InboxHeld'
    BY <2>1, <2>2 DEF AudienceTyped, WordsAreSafe, InboxHeld, NewestOf
  <2> QED
    BY <2>1, <2>3, <2>4
<1>6. CASE StopStage
  <2> USE <1>6 DEF StopStage
  <2>1. Busy' = {} /\ Taken' = {}
    BY AudienceAssumption DEF Busy, Taken
  <2>2. Cardinality(Busy') = 0 /\ Cardinality(Taken') = 0
    <3>1. Cardinality({}) = 0
      BY FS_EmptySet
    <3> QED
      BY <2>1, <3>1
  <2>3. StageIsTold'
    BY <2>2 DEF StageIsTold, Busy, NoPulse
  <2>4. AudienceTyped'
    <3>1. said' \in Seq(Speaker)
      BY DEF AudienceTyped
    <3> QED
      BY <3>1, AudienceAssumption DEF AudienceTyped, Unread, NoPulse, PulseType
  <2>5. WordsAreSafe' /\ InboxHeld'
    BY DEF WordsAreSafe, InboxHeld, NewestOf
  <2> QED
    BY <2>3, <2>4, <2>5
<1> QED
  BY <1>1, <1>2, <1>3, <1>4, <1>5, <1>6, SayWordsInv, CountPulseInv, WriteInboxInv,
     LoseWordsInv
  DEF AudienceNext

(***************************************************************************)
(* However many speak at the same time and whenever the server ends, the   *)
(* inbox that nobody writes is the newest of what was said, and the stage  *)
(* is told of every word once, or misses it.                               *)
(***************************************************************************)
THEOREM AudienceKept == AudienceSpec => [](WordsAreSafe /\ StageIsTold)
<1>1. AudienceInv => WordsAreSafe /\ StageIsTold
  BY DEF AudienceInv
<1> QED
  BY <1>1, AudienceStart, AudienceStep, PTL DEF AudienceSpec
--------------------------------------------------------------------------------
(***************************************************************************)
(* The meeting brief (Brief).  The invariant adds to BriefKept that an     *)
(* update which still fits has read the text it will replace, and that no  *)
(* page is ahead of the brief.                                             *)
(***************************************************************************)
BriefInv == BriefTypeOK /\ ReadsAreCurrent /\ BriefKept

\* Initially nothing was said.
LEMMA BriefInitInv == BriefInit => BriefInv
  BY DEF BriefInit, BriefInv, BriefTypeOK, ReadsAreCurrent, BriefKept, Current, NoText

\* A page that looks again has no update under way.
LEMMA GetBriefInv ==
  ASSUME BriefInv, NEW c \in Conversation, GetBrief(c)
  PROVE  BriefInv'
<1> USE DEF BriefInv, BriefTypeOK, GetBrief
<1>1. BriefTypeOK'
  OBVIOUS
<1>2. \A d \in Conversation \ {c} : client'[d] = client[d]
  OBVIOUS
<1>3. c \notin kept /\ update[c].step = "new"
  BY DEF ReadsAreCurrent
<1>4. BriefKept'
  BY <1>2, <1>3 DEF BriefKept
<1>5. ReadsAreCurrent'
  BY <1>2, <1>3 DEF ReadsAreCurrent, Current
<1>6. QED
  BY <1>1, <1>4, <1>5

\* A posted update has read the text of the brief it fits.
LEMMA PostBriefInv ==
  ASSUME BriefInv, NEW c \in Conversation, PostBrief(c)
  PROVE  BriefInv'
<1> USE DEF BriefInv, BriefTypeOK, PostBrief
<1>1. BriefTypeOK'
  OBVIOUS
<1>2. BriefKept'
  BY DEF BriefKept
<1>3. ReadsAreCurrent'
  BY DEF ReadsAreCurrent, Current
<1>4. QED
  BY <1>1, <1>2, <1>3

\* A saved update adds itself to the text it read, and outdates the others.
LEMMA SaveBriefInv ==
  ASSUME BriefInv, NEW c \in Conversation, SaveBrief(c)
  PROVE  BriefInv'
<1> USE DEF BriefInv, BriefTypeOK, SaveBrief, StillFits
<1>0. update[c].text \cup {c} \in SUBSET Conversation /\ brief.revision + 1 \in Nat
  OBVIOUS
<1>1. BriefTypeOK'
  <2>1. brief' \in [generation : Nat, revision : Nat, text : SUBSET Conversation]
    BY <1>0
  <2>2. update' \in [Conversation -> [step : {"new", "asking", "answered"},
                                      text : SUBSET Conversation]]
    OBVIOUS
  <2>3. QED
    BY <2>1, <2>2
<1>2. /\ update[c].text = brief.text
      /\ brief'.generation = brief.generation
      /\ brief'.revision = brief.revision + 1
      /\ brief'.text = brief.text \cup {c}
  BY DEF ReadsAreCurrent
<1>3. BriefKept'
  BY <1>2 DEF BriefKept, Current
<1>4. \A d \in Conversation : ~Current(d)'
  BY <1>2 DEF ReadsAreCurrent, Current
<1>5. ReadsAreCurrent'
  BY <1>2, <1>4 DEF ReadsAreCurrent
<1>6. QED
  BY <1>1, <1>3, <1>5

\* A discarded update leaves the brief alone.
LEMMA DiscardBriefInv ==
  ASSUME BriefInv, NEW c \in Conversation, DiscardBrief(c)
  PROVE  BriefInv'
<1> USE DEF BriefInv, BriefTypeOK, DiscardBrief
<1>1. BriefTypeOK'
  BY DEF NoText
<1>2. BriefKept'
  BY DEF BriefKept
<1>3. ReadsAreCurrent'
  BY DEF ReadsAreCurrent, Current, NoText
<1>4. QED
  BY <1>1, <1>2, <1>3

\* A cleared brief has a generation that no page knows.
LEMMA ClearBriefInv ==
  ASSUME BriefInv, ClearBrief
  PROVE  BriefInv'
<1> USE DEF BriefInv, BriefTypeOK, ClearBrief
<1>1. BriefTypeOK'
  OBVIOUS
<1>2. \A d \in Conversation : client[d].generation < brief'.generation
  BY DEF ReadsAreCurrent
<1>3. BriefKept'
  BY <1>2 DEF BriefKept
<1>4. ReadsAreCurrent'
  BY <1>2 DEF ReadsAreCurrent, Current
<1>5. QED
  BY <1>1, <1>3, <1>4

\* Every step keeps the invariant.
LEMMA BriefStep == BriefInv /\ [BriefNext]_briefVars => BriefInv'
<1> SUFFICES ASSUME BriefInv, [BriefNext]_briefVars PROVE BriefInv'
  OBVIOUS
<1>1. CASE UNCHANGED briefVars
  BY <1>1 DEF briefVars, BriefInv, BriefTypeOK, ReadsAreCurrent, BriefKept, Current
<1>2. CASE ClearBrief
  BY <1>2, ClearBriefInv
<1>3. ASSUME NEW c \in Conversation,
             GetBrief(c) \/ PostBrief(c) \/ SaveBrief(c) \/ DiscardBrief(c)
      PROVE  BriefInv'
  BY <1>3, GetBriefInv, PostBriefInv, SaveBriefInv, DiscardBriefInv
<1>4. QED
  BY <1>1, <1>2, <1>3 DEF BriefNext

(***************************************************************************)
(* brief.go, handleBrief: the brief is made of exactly the conversations   *)
(* of its own generation that were answered.                               *)
(***************************************************************************)
THEOREM BriefIsKept == BriefSpec => []BriefKept
<1>1. BriefInv => BriefKept
  BY DEF BriefInv
<1>2. QED
  BY <1>1, BriefInitInv, BriefStep, PTL DEF BriefSpec

--------------------------------------------------------------------------------
\* What any count and order need.

\* A set of numbers has a least one.
LEMMA LeastNumber ==
  ASSUME NEW S \in SUBSET Nat, S # {}
  PROVE  Min(S) \in S /\ \A n \in S : Min(S) <= n
<1>1. PICK m \in S : \A n \in S : ~(<<n, m>> \in OpToRel(<, Nat))
  BY NatLessThanWellFounded, WFMin
<1>2. \A n \in S : m <= n
  <2> SUFFICES ASSUME NEW n \in S, n < m PROVE FALSE
    OBVIOUS
  <2>1. <<n, m>> \in OpToRel(<, Nat)
    BY DEF OpToRel
  <2> QED
    BY <1>1, <2>1
<1> QED
  BY <1>2 DEF Min

(***************************************************************************)
(* A finite set whose members have different places can be put in order:   *)
(* its members have as many different ranks as there are members.          *)
(***************************************************************************)
LEMMA InOrder ==
  ASSUME NEW S, IsFiniteSet(S), NEW p \in [S -> Nat], \A s, r \in S : p[s] = p[r] => s = r
  PROVE  \E ids \in [1 .. Cardinality(S) -> S] :
           \A i, j \in 1 .. Cardinality(S) : i < j => p[ids[i]] < p[ids[j]]
<1> DEFINE n == Cardinality(S)
           Below(s) == {r \in S : p[r] < p[s]}
           rank == [s \in S |-> Cardinality(Below(s)) + 1]
<1>1. n \in Nat
  BY FS_CardinalityType
<1>2. \A s \in S : IsFiniteSet(Below(s)) /\ Cardinality(Below(s)) \in Nat
  <2> SUFFICES ASSUME NEW s \in S PROVE IsFiniteSet(Below(s)) /\ Cardinality(Below(s)) \in Nat
    OBVIOUS
  <2>1. Below(s) \in SUBSET S
    OBVIOUS
  <2> HIDE DEF Below
  <2> QED
    BY <2>1, FS_Subset, FS_CardinalityType
<1>3. \A s \in S : Cardinality(Below(s)) + 1 <= n
  <2> SUFFICES ASSUME NEW s \in S PROVE Cardinality(Below(s)) + 1 <= n
    OBVIOUS
  <2>1. Below(s) \cup {s} \in SUBSET S /\ s \notin Below(s)
    OBVIOUS
  <2> HIDE DEF Below
  <2>2. Cardinality(Below(s) \cup {s}) = Cardinality(Below(s)) + 1
    BY <1>2, <2>1, FS_AddElement
  <2> QED
    BY <2>1, <2>2, FS_Subset
<1>4. ASSUME NEW s \in S, NEW r \in S, p[s] < p[r]
      PROVE  Cardinality(Below(s)) < Cardinality(Below(r))
  <2>1. Below(s) \cup {s} \in SUBSET Below(r) /\ s \notin Below(s)
    BY <1>4
  <2> HIDE DEF Below
  <2>2. Cardinality(Below(s) \cup {s}) = Cardinality(Below(s)) + 1
    BY <1>2, <2>1, FS_AddElement
  <2>3. Cardinality(Below(s) \cup {s}) <= Cardinality(Below(r))
    BY <1>2, <2>1, FS_Subset
  <2> QED
    BY <1>2, <2>2, <2>3
<1> HIDE DEF Below
<1>5. rank \in [S -> 1 .. n]
  BY <1>1, <1>2, <1>3
<1>6. \A s, r \in S : rank[s] = rank[r] => s = r
  <2> SUFFICES ASSUME NEW s \in S, NEW r \in S, s # r PROVE rank[s] # rank[r]
    OBVIOUS
  <2>1. p[s] < p[r] \/ p[r] < p[s]
    OBVIOUS
  <2> QED
    BY <1>2, <1>4, <2>1
<1>7. IsFiniteSet(1 .. n) /\ Cardinality(1 .. n) = n
  BY <1>1, FS_Interval
<1>8. \A i \in 1 .. n : \E s \in S : rank[s] = i
  <2> HIDE DEF rank
  <2>1. rank \in Injection(S, 1 .. n)
    BY <1>5, <1>6 DEF Injection, IsInjective
  <2>2. rank \in Surjection(S, 1 .. n)
    BY <1>7, <2>1, FS_Injection
  <2> QED
    BY <2>2 DEF Surjection
<1> DEFINE ids == [i \in 1 .. n |-> CHOOSE s \in S : rank[s] = i]
<1>9. \A i \in 1 .. n : ids[i] \in S /\ rank[ids[i]] = i
  <2> HIDE DEF rank
  <2> QED
    BY <1>8
<1>10. \A i, j \in 1 .. n : i < j => p[ids[i]] < p[ids[j]]
  <2> SUFFICES ASSUME NEW i \in 1 .. n, NEW j \in 1 .. n, i < j,
                      ~(p[ids[i]] < p[ids[j]])
               PROVE  FALSE
    OBVIOUS
  <2>1. /\ ids[i] \in S /\ ids[j] \in S
        /\ Cardinality(Below(ids[i])) + 1 = i /\ Cardinality(Below(ids[j])) + 1 = j
    BY <1>9
  <2> HIDE DEF ids
  <2>2. p[ids[i]] # p[ids[j]]
    BY <2>1
  <2>3. p[ids[j]] < p[ids[i]]
    BY <2>1, <2>2
  <2> QED
    BY <1>2, <1>4, <2>1, <2>3
<1>11. ids \in [1 .. n -> S]
  <2> HIDE DEF rank
  <2> QED
    BY <1>8
<1> HIDE DEF ids, rank
<1> QED
  BY <1>10, <1>11

\* A sequence that ascends names as many things as it is long; if the set has no more,
\* it names them all.
LEMMA AscentNamesAll ==
  ASSUME NEW S, IsFiniteSet(S), NEW p \in [S -> Nat], NEW ids \in [1 .. Cardinality(S) -> S],
         \A i, j \in 1 .. Cardinality(S) : i < j => p[ids[i]] < p[ids[j]]
  PROVE  \A s \in S : \E i \in 1 .. Cardinality(S) : ids[i] = s
<1> DEFINE n == Cardinality(S)
<1>1. n \in Nat
  BY FS_CardinalityType
<1>2. \A i, j \in 1 .. n : ids[i] = ids[j] => i = j
  <2> SUFFICES ASSUME NEW i \in 1 .. n, NEW j \in 1 .. n, ids[i] = ids[j], i # j PROVE FALSE
    OBVIOUS
  <2>1. i < j \/ j < i
    OBVIOUS
  <2>2. p[ids[i]] < p[ids[j]] \/ p[ids[j]] < p[ids[i]]
    BY <2>1
  <2> QED
    BY <2>2
<1>3. ids \in Injection(1 .. n, S)
  BY <1>2 DEF Injection, IsInjective
<1>4. Cardinality(1 .. n) = n
  BY <1>1, FS_Interval
<1>5. ids \in Surjection(1 .. n, S)
  BY <1>3, <1>4, FS_Injection
<1> QED
  BY <1>5 DEF Surjection

--------------------------------------------------------------------------------
\* The dashboard (Observability).

\* The elements at some places of a sequence are a sequence, and come as the places do.
LEMMA AmongIs ==
  ASSUME NEW S, NEW b \in Seq(S), NEW places \in SUBSET DOMAIN b
  PROVE  /\ Among(b, places) \in Seq(S)
         /\ ToSet(Among(b, places)) = {b[i] : i \in places}
         /\ \A i, j \in DOMAIN Among(b, places) : i < j =>
              \E k, l \in places : k < l /\ Among(b, places)[i] = b[k] /\ Among(b, places)[j] = b[l]
<1> DEFINE n == Cardinality(places)
           Ascends(p) == \A i, j \in DOMAIN p : i < j => p[i] < p[j]
           at == CHOOSE p \in [1 .. n -> places] : Ascends(p)
           id == [i \in places |-> i]
<1>1. places \in SUBSET Nat /\ IsFiniteSet(places) /\ n \in Nat
  <2>1. DOMAIN b = 1 .. Len(b) /\ Len(b) \in Nat
    OBVIOUS
  <2>2. IsFiniteSet(1 .. Len(b))
    BY <2>1, FS_Interval
  <2> QED
    BY <2>1, <2>2, FS_Subset, FS_CardinalityType
<1>2. id \in [places -> Nat] /\ \A i, j \in places : id[i] = id[j] => i = j
  BY <1>1
<1>3. at \in [1 .. n -> places] /\ Ascends(at)
  <2>1. PICK p \in [1 .. n -> places] : \A i, j \in 1 .. n : i < j => id[p[i]] < id[p[j]]
    <3> HIDE DEF id
    <3> QED
      BY <1>1, <1>2, InOrder
  <2>2. Ascends(p)
    BY <2>1
  <2> HIDE DEF Ascends
  <2> QED
    BY <2>2
<1>4. \A i \in places : \E k \in 1 .. n : at[k] = i
  <2>1. \A i, j \in 1 .. n : i < j => id[at[i]] < id[at[j]]
    <3> HIDE DEF at
    <3> QED
      BY <1>3
  <2> HIDE DEF at, id
  <2> QED
    BY <1>1, <1>2, <1>3, <2>1, AscentNamesAll
<1>5. Among(b, places) = [i \in DOMAIN at |-> b[at[i]]]
  BY DEF Among
<1> HIDE DEF at
<1>6. Among(b, places) = [i \in 1 .. n |-> b[at[i]]] /\ \A i \in 1 .. n : b[at[i]] \in S
  BY <1>3, <1>5
<1>7. ToSet(Among(b, places)) = {b[i] : i \in places}
  BY <1>3, <1>4, <1>6 DEF ToSet
<1> HIDE DEF n, at
<1>8. Among(b, places) \in Seq(S)
  <2> DEFINE seq == [i \in 1 .. n |-> b[at[i]]]
  <2>1. seq \in [1 .. n -> S]
    BY <1>6
  <2> HIDE DEF seq
  <2>2. seq \in Seq(S)
    BY <1>1, <2>1
  <2> QED
    BY <1>6, <2>2 DEF seq
<1>9. ASSUME NEW i \in DOMAIN Among(b, places), NEW j \in DOMAIN Among(b, places), i < j
      PROVE  \E k, l \in places :
               k < l /\ Among(b, places)[i] = b[k] /\ Among(b, places)[j] = b[l]
  <2>1. i \in 1 .. n /\ j \in 1 .. n /\ at[i] \in places /\ at[j] \in places /\ at[i] < at[j]
    BY <1>3, <1>6, <1>9
  <2> QED
    BY <1>6, <2>1
<1> QED
  BY <1>7, <1>8, <1>9

LEMMA SizeOfBoth ==
  ASSUME NEW P, NEW Q, IsFiniteSet(P), IsFiniteSet(Q), P \cap Q = {}
  PROVE  Cardinality(P \cup Q) = Cardinality(P) + Cardinality(Q)
<1>1. Cardinality(P) \in Nat /\ Cardinality(Q) \in Nat /\ Cardinality({}) = 0
  BY FS_CardinalityType, FS_EmptySet
<1>2. Cardinality(P \cup Q) = Cardinality(P) + Cardinality(Q) - Cardinality(P \cap Q)
  BY FS_Union
<1>3. Cardinality(P \cap Q) = 0
  BY <1>1, Zenon
<1> QED
  BY <1>1, <1>2, <1>3

(***************************************************************************)
(* The sum of the sizes of sets that have nothing in common is the size of *)
(* their union: it does what the recursion of the sum asks, and nothing    *)
(* else does.                                                              *)
(***************************************************************************)
LEMMA SumOfSizes ==
  ASSUME NEW D, IsFiniteSet(D), NEW U, IsFiniteSet(U), NEW C \in [D -> SUBSET U],
         \A c, d \in D : c # d => C[c] \cap C[d] = {}
  PROVE  SumFunction([d \in D |-> Cardinality(C[d])]) = Cardinality(UNION {C[d] : d \in D})
<1> DEFINE f == [d \in D |-> Cardinality(C[d])]
           One(s) == CHOOSE x \in s : TRUE
           All(s) == UNION {C[d] : d \in s}
           IsSum(g) == g = [s \in SUBSET D |-> IF s = {} THEN 0 ELSE f[One(s)] + g[s \ {One(s)}]]
           sum == CHOOSE g : IsSum(g)
           size == [s \in SUBSET D |-> Cardinality(All(s))]
<1>1. SumFunction(f) = sum[D]
  BY DEF SumFunction, SumFunctionOnSet, FoldFunctionOnSet, MapThenFoldSet
<1>2. ASSUME NEW s \in SUBSET D
      PROVE  All(s) \in SUBSET U /\ IsFiniteSet(All(s)) /\ Cardinality(All(s)) \in Nat
  <2>1. All(s) \in SUBSET U
    OBVIOUS
  <2> HIDE DEF All
  <2> QED
    BY <2>1, FS_Subset, FS_CardinalityType
<1>3. ASSUME NEW s \in SUBSET D, s # {}
      PROVE  /\ One(s) \in s
             /\ Cardinality(All(s)) = f[One(s)] + Cardinality(All(s \ {One(s)}))
  <2> DEFINE x == One(s)
             rest == s \ {x}
  <2>1. x \in s
    BY <1>3
  <2> HIDE DEF x
  <2>2. /\ All(s) = C[x] \cup All(rest) /\ C[x] \cap All(rest) = {} /\ rest \in SUBSET D
        /\ C[x] \in SUBSET U /\ f[x] = Cardinality(C[x])
    BY <2>1
  <2>3. IsFiniteSet(C[x]) /\ Cardinality(C[x]) \in Nat
    BY <2>2, FS_Subset, FS_CardinalityType
  <2>4. IsFiniteSet(All(rest)) /\ Cardinality(All(rest)) \in Nat
    <3> HIDE DEF All, rest
    <3> QED
      BY <1>2, <2>2
  <2> HIDE DEF All, rest, f
  <2>5. Cardinality(C[x] \cup All(rest)) = Cardinality(C[x]) + Cardinality(All(rest))
    BY <2>2, <2>3, <2>4, SizeOfBoth
  <2>6. Cardinality(All(s)) = f[x] + Cardinality(All(rest))
    BY <2>2, <2>5
  <2> QED
    BY <2>1, <2>6 DEF rest, x
<1>4. All({}) = {} /\ Cardinality({}) = 0
  BY FS_EmptySet
<1>5. IsSum(size)
  <2> HIDE DEF All, f, One
  <2>1. \A s \in SUBSET D :
          Cardinality(All(s)) = IF s = {} THEN 0 ELSE f[One(s)] + size[s \ {One(s)}]
    BY <1>3, <1>4
  <2> QED
    BY <2>1
<1>6. IsSum(sum)
  <2> HIDE DEF size, IsSum
  <2> QED
    BY <1>5
<1>7. \A s \in SUBSET D : sum[s] = IF s = {} THEN 0 ELSE f[One(s)] + sum[s \ {One(s)}]
  <2> HIDE DEF sum, f, One
  <2> QED
    BY <1>6
<1> DEFINE Wrong(n) == \E s \in SUBSET D : Cardinality(s) = n /\ sum[s] # size[s]
           wrong == {n \in Nat : Wrong(n)}
<1>8. wrong = {}
  <2> SUFFICES ASSUME wrong # {} PROVE FALSE
    OBVIOUS
  <2>1. PICK n \in wrong : \A m \in wrong : n <= m
    <3> HIDE DEF Wrong
    <3>1. wrong \in SUBSET Nat
      OBVIOUS
    <3> HIDE DEF wrong
    <3> QED
      BY <3>1, LeastNumber
  <2> HIDE DEF All, f, One, sum
  <2>2. PICK s \in SUBSET D : Cardinality(s) = n /\ sum[s] # size[s]
    BY <2>1
  <2>3. s # {}
    BY <1>4, <1>7, <2>2
  <2>4. One(s) \in s /\ s \ {One(s)} \in SUBSET D /\ size[s] = f[One(s)] + size[s \ {One(s)}]
    BY <1>3, <2>3
  <2>5. sum[s \ {One(s)}] # size[s \ {One(s)}]
    BY <1>7, <2>2, <2>3, <2>4
  <2>6. IsFiniteSet(s) /\ Cardinality(s \ {One(s)}) = n - 1 /\ n \in Nat /\ n - 1 \in Nat
    <3>1. IsFiniteSet(s) /\ Cardinality(s \ {One(s)}) = Cardinality(s) - 1
      BY <2>4, FS_Subset, FS_RemoveElement
    <3>2. Cardinality(s \ {One(s)}) \in Nat
      BY <3>1, <2>4, FS_Subset, FS_CardinalityType
    <3> QED
      BY <2>1, <2>2, <3>1, <3>2
  <2> HIDE DEF size
  <2>7. n - 1 \in wrong
    BY <2>4, <2>5, <2>6
  <2> QED
    BY <2>1, <2>6, <2>7
<1>9. sum[D] = size[D]
  <2>1. Cardinality(D) \in Nat
    BY FS_CardinalityType
  <2> HIDE DEF sum, size
  <2> QED
    BY <1>8, <2>1
<1> QED
  BY <1>1, <1>9

NoneTwice(b) == \A i, j \in DOMAIN b : b[i] = b[j] => i = j

Shares(e, es) == HasKey(e) /\ \E r \in es : r.key = e.key

\* Its kind of view has a viewer.
Seen(e) == e.kind \in Views => e.viewer # NoKey

(***************************************************************************)
(* What is under way, in the queue q and the batch b: each event once, and *)
(* neither a row nor counted as dropped yet; and no event that was         *)
(* recorded has gone.                                                      *)
(***************************************************************************)
UnderWay(q, b) ==
  /\ q \in Seq(Event) /\ b \in Seq(Event) /\ ToSet(q) \cup ToSet(b) \subseteq recorded
  /\ NoneTwice(q) /\ NoneTwice(b) /\ ToSet(q) \cap ToSet(b) = {}
  /\ (ToSet(q) \cup ToSet(b)) \cap (Stored \cup dropped) = {}
  /\ \A e \in recorded : \/ e \in ToSet(q) \cup ToSet(b) \cup Stored \cup dropped \cup forgotten
                         \/ Shares(e, Stored)

RowsKept ==
  /\ rows \in Seq(Event) /\ Stored \cup dropped \cup unsure \cup forgotten \subseteq recorded
  /\ recorded \subseteq Event /\ \A e \in recorded : Seen(e)
  /\ dropped \cap Stored \subseteq unsure
  /\ CountedOnce

BoardType == [phase : {"none", "summary", "shown"}, viewers : Nat, views : Nat, requests : Nat,
              details : Seq(Event), truncated : BOOLEAN]

\* Rows of which there are at least as many of each kind as the totals say.
Covers(t) == /\ board.viewers <= Cardinality(VisitorsIn(t))
             /\ board.views <= Cardinality(ViewsIn(t))
             /\ board.requests <= Cardinality(UsagesIn(t))

BoardKept ==
  /\ board \in BoardType
  /\ board.phase = "summary" => Covers(rows)
  /\ board.phase = "shown" /\ ~board.truncated =>
       Covers(board.details) /\ \A e \in ToSet(board.details) : Seen(e)

ObsInv == /\ UnderWay(queue, batch) /\ RowsKept /\ BoardKept
          /\ Len(queue) <= EventQueue /\ Len(batch) < EventBatch

--------------------------------------------------------------------------------
\* Of events with one key a statement adds the first, unless the key has a row.
LEMMA InsertedIs ==
  ASSUME NEW b \in Seq(Event)
  PROVE  /\ Inserted(b) \in Seq(Event) /\ ToSet(Inserted(b)) \subseteq ToSet(b)
         /\ NoneTwice(b) => NoneTwice(Inserted(b))
         /\ \A i, j \in DOMAIN Inserted(b) :
              HasKey(Inserted(b)[i]) /\ Inserted(b)[i].key = Inserted(b)[j].key => i = j
         /\ \A e \in ToSet(Inserted(b)) : ~Known(e)
         /\ \A e \in ToSet(b) : \/ e \in ToSet(Inserted(b))
                                \/ Shares(e, Stored \cup ToSet(Inserted(b)))
<1> DEFINE places == {i \in DOMAIN b :
                        /\ ~Known(b[i])
                        /\ \A j \in 1 .. i - 1 : HasKey(b[i]) => b[j].key # b[i].key}
           new == Inserted(b)
<1>1. places \in SUBSET DOMAIN b /\ DOMAIN b = 1 .. Len(b) /\ Len(b) \in Nat
      /\ \A i \in DOMAIN b : b[i] \in Event
  OBVIOUS
<1>2. new = Among(b, places)
  BY DEF Inserted
<1>3. /\ new \in Seq(Event) /\ ToSet(new) = {b[i] : i \in places}
      /\ \A i, j \in DOMAIN new : i < j =>
           \E k, l \in places : k < l /\ new[i] = b[k] /\ new[j] = b[l]
  <2> HIDE DEF places, new
  <2> QED
    BY <1>1, <1>2, AmongIs
<1>4. \A k \in places : /\ k \in 1 .. Len(b) /\ ~Known(b[k])
                        /\ \A j \in 1 .. k - 1 : HasKey(b[k]) => b[j].key # b[k].key
  BY <1>1
<1>5. DOMAIN new = 1 .. Len(new) /\ Len(new) \in Nat
  <2> HIDE DEF new
  <2> QED
    BY <1>3
<1> HIDE DEF places, new
<1>6. ASSUME NEW i \in DOMAIN new, NEW j \in DOMAIN new, i # j
      PROVE  /\ NoneTwice(b) => new[i] # new[j]
             /\ HasKey(new[i]) => new[i].key # new[j].key
  <2>1. PICK k \in places, l \in places : k # l /\ new[i] = b[k] /\ new[j] = b[l]
    <3>1. i < j \/ j < i
      BY <1>5, <1>6
    <3>2. CASE i < j
      <4>1. PICK k \in places, l \in places : k < l /\ new[i] = b[k] /\ new[j] = b[l]
        BY <1>3, <3>2
      <4> QED
        BY <1>4, <4>1
    <3>3. CASE j < i
      <4>1. PICK k \in places, l \in places : k < l /\ new[j] = b[k] /\ new[i] = b[l]
        BY <1>3, <3>3
      <4> QED
        BY <1>4, <4>1
    <3> QED
      BY <3>1, <3>2, <3>3
  <2>2. NoneTwice(b) => b[k] # b[l]
    BY <1>1, <1>4, <2>1 DEF NoneTwice
  <2>3. HasKey(b[k]) => b[k].key # b[l].key
    <3>1. k \in 1 .. l - 1 \/ l \in 1 .. k - 1
      BY <1>1, <1>4, <2>1
    <3> QED
      BY <1>4, <3>1 DEF HasKey
  <2> QED
    BY <2>1, <2>2, <2>3
<1>7. ToSet(new) \subseteq ToSet(b) /\ \A e \in ToSet(new) : ~Known(e)
  BY <1>1, <1>3, <1>4 DEF ToSet
<1>8. ASSUME NEW e \in ToSet(b), e \notin ToSet(new)
      PROVE  Shares(e, Stored \cup ToSet(new))
  <2>1. PICK i \in 1 .. Len(b) : b[i] = e
    BY <1>1 DEF ToSet
  <2>2. CASE Known(e)
    BY <2>2 DEF Known, Shares
  <2>3. CASE ~Known(e)
    <3> DEFINE same == {j \in 1 .. Len(b) : b[j].key = e.key}
    <3>1. \E j \in 1 .. i - 1 : HasKey(e) /\ b[j].key = e.key
      BY <1>1, <1>3, <1>8, <2>1, <2>3 DEF places
    <3>2. same \in SUBSET Nat /\ same # {}
      BY <1>1, <3>1, <2>1
    <3>3. PICK f \in same : \A j \in same : f <= j
      <4> HIDE DEF same
      <4> QED
        BY <3>2, LeastNumber
    <3>4. f \in DOMAIN b /\ f \in Nat /\ b[f].key = e.key
      BY <1>1, <3>3
    <3>5. ~Known(b[f])
      BY <2>3, <3>1, <3>4 DEF Known, HasKey
    <3>6. \A j \in 1 .. f - 1 : b[j].key # b[f].key
      <4> SUFFICES ASSUME NEW j \in 1 .. f - 1, b[j].key = b[f].key PROVE FALSE
        OBVIOUS
      <4>1. j \in same /\ j < f
        BY <1>1, <3>4
      <4> QED
        BY <3>3, <3>4, <4>1
    <3>7. f \in places
      BY <3>4, <3>5, <3>6 DEF places
    <3>8. b[f] \in ToSet(new)
      BY <1>3, <3>7
    <3> QED
      BY <3>1, <3>4, <3>8 DEF Shares
  <2> QED
    BY <2>2, <2>3
<1>9. /\ NoneTwice(b) => NoneTwice(new)
      /\ \A i, j \in DOMAIN new : HasKey(new[i]) /\ new[i].key = new[j].key => i = j
  BY <1>6 DEF NoneTwice
<1> QED
  BY <1>3, <1>7, <1>8, <1>9 DEF new

\* What a function gives for finitely many arguments is finite.
LEMMA FiniteImage ==
  ASSUME NEW S, IsFiniteSet(S), NEW f, DOMAIN f = S
  PROVE  IsFiniteSet({f[x] : x \in S})
<1> DEFINE T == {f[x] : x \in S}
           g == [x \in S |-> f[x]]
<1>1. g \in Surjection(S, T)
  BY DEF Surjection
<1> HIDE DEF g, T
<1> QED
  BY <1>1, FS_Surjection DEF T

\* The counts of the dashboard are of finitely many rows.
LEMMA CountsOfRows ==
  ASSUME NEW t \in Seq(Event)
  PROVE  /\ ViewsIn(t) \in SUBSET DOMAIN t /\ IsFiniteSet(ViewsIn(t))
         /\ IsFiniteSet(UsagesIn(t)) /\ IsFiniteSet(VisitorsIn(t)) /\ IsFiniteSet(DecksSeen(t))
         /\ Cardinality(ViewsIn(t)) \in Nat /\ Cardinality(UsagesIn(t)) \in Nat
         /\ Cardinality(VisitorsIn(t)) \in Nat
<1>1. DOMAIN t = 1 .. Len(t) /\ Len(t) \in Nat /\ IsFiniteSet(DOMAIN t)
  <2>1. DOMAIN t = 1 .. Len(t) /\ Len(t) \in Nat
    OBVIOUS
  <2> QED
    BY <2>1, FS_Interval
<1>2. ViewsIn(t) \in SUBSET DOMAIN t /\ UsagesIn(t) \in SUBSET DOMAIN t
  BY DEF ViewsIn, UsagesIn
<1>3. IsFiniteSet(ViewsIn(t)) /\ IsFiniteSet(UsagesIn(t))
  BY <1>1, <1>2, FS_Subset
<1>4. IsFiniteSet(VisitorsIn(t))
  <2> DEFINE viewer == [i \in DOMAIN t |-> t[i].viewer]
             all == {viewer[i] : i \in DOMAIN t}
  <2>1. DOMAIN viewer = DOMAIN t
    OBVIOUS
  <2>2. VisitorsIn(t) \in SUBSET all
    BY DEF VisitorsIn, ToSet
  <2> HIDE DEF viewer
  <2>3. IsFiniteSet(all)
    BY <1>1, <2>1, FiniteImage
  <2> QED
    BY <2>2, <2>3, FS_Subset
<1>5. IsFiniteSet(DecksSeen(t))
  <2> DEFINE deck == [i \in DOMAIN t |-> t[i].deck]
             all == {deck[i] : i \in DOMAIN t}
  <2>1. DOMAIN deck = DOMAIN t
    OBVIOUS
  <2>2. DecksSeen(t) \in SUBSET all
    BY DEF DecksSeen, ViewsIn
  <2> HIDE DEF deck
  <2>3. IsFiniteSet(all)
    BY <1>1, <2>1, FiniteImage
  <2> QED
    BY <2>2, <2>3, FS_Subset
<1> QED
  BY <1>2, <1>3, <1>4, <1>5, FS_CardinalityType

\* More rows are more of each kind.
LEMMA MoreRows ==
  ASSUME NEW t \in Seq(Event), NEW new \in Seq(Event), Covers(t),
         board \in BoardType
  PROVE  Covers(t \o new)
<1> DEFINE u == t \o new
<1>1. /\ u \in Seq(Event) /\ DOMAIN t = 1 .. Len(t) /\ DOMAIN u = 1 .. Len(u)
      /\ Len(t) \in Nat /\ Len(new) \in Nat /\ Len(u) = Len(t) + Len(new)
      /\ \A i \in 1 .. Len(t) : u[i] = t[i]
  OBVIOUS
<1> HIDE DEF u
<1>2. \A i \in DOMAIN t : i \in DOMAIN u /\ u[i] = t[i]
  BY <1>1
<1>3. /\ ViewsIn(t) \in SUBSET ViewsIn(u) /\ UsagesIn(t) \in SUBSET UsagesIn(u)
      /\ VisitorsIn(t) \in SUBSET VisitorsIn(u)
  BY <1>2 DEF ViewsIn, UsagesIn, VisitorsIn, ToSet
<1>4. /\ Cardinality(ViewsIn(t)) <= Cardinality(ViewsIn(u))
      /\ Cardinality(UsagesIn(t)) <= Cardinality(UsagesIn(u))
      /\ Cardinality(VisitorsIn(t)) <= Cardinality(VisitorsIn(u))
  BY <1>1, <1>3, CountsOfRows, FS_Subset
<1>5. /\ Cardinality(ViewsIn(t)) \in Nat /\ Cardinality(UsagesIn(t)) \in Nat
      /\ Cardinality(VisitorsIn(t)) \in Nat
      /\ Cardinality(ViewsIn(u)) \in Nat /\ Cardinality(UsagesIn(u)) \in Nat
      /\ Cardinality(VisitorsIn(u)) \in Nat
  BY <1>1, CountsOfRows
<1>6. board.viewers \in Nat /\ board.views \in Nat /\ board.requests \in Nat
  BY DEF BoardType
<1>7. Covers(u)
  BY <1>4, <1>5, <1>6 DEF Covers
<1> QED
  BY <1>7 DEF u

\* A statement adds rows: none that is there, or is counted, already.
LEMMA RowsGrow ==
  ASSUME NEW q, NEW b, UnderWay(q, b), RowsKept, BoardKept, rows' = rows \o Inserted(b),
         UNCHANGED <<recorded, board>>
  PROVE  /\ rows' \in Seq(Event) /\ CountedOnce' /\ BoardKept'
         /\ Stored \subseteq Stored' /\ Stored' \subseteq Stored \cup ToSet(b)
         /\ \A e \in ToSet(b) : e \in Stored' \/ Shares(e, Stored')
<1> DEFINE new == Inserted(b)
<1>1. /\ b \in Seq(Event) /\ rows \in Seq(Event) /\ NoneTwice(b) /\ CountedOnce
      /\ ToSet(b) \cap Stored = {}
  BY DEF UnderWay, RowsKept
<1>2. /\ new \in Seq(Event) /\ ToSet(new) \subseteq ToSet(b) /\ NoneTwice(new)
      /\ \A i, j \in DOMAIN new : HasKey(new[i]) /\ new[i].key = new[j].key => i = j
      /\ \A e \in ToSet(new) : ~Known(e)
      /\ \A e \in ToSet(b) : e \in ToSet(new) \/ Shares(e, Stored \cup ToSet(new))
  BY <1>1, InsertedIs
<1> HIDE DEF new
<1>3. rows' = rows \o new
  BY DEF new
<1>4. /\ rows' \in Seq(Event) /\ DOMAIN rows' = 1 .. Len(rows) + Len(new)
      /\ DOMAIN rows = 1 .. Len(rows) /\ DOMAIN new = 1 .. Len(new)
      /\ Len(rows) \in Nat /\ Len(new) \in Nat
      /\ \A i \in 1 .. Len(rows) : rows'[i] = rows[i]
      /\ \A i \in 1 .. Len(new) : rows'[Len(rows) + i] = new[i]
  BY <1>1, <1>2, <1>3
<1>5. Stored' = Stored \cup ToSet(new)
  <2>1. \A i \in DOMAIN rows' : i \in DOMAIN rows \/ (i - Len(rows) \in DOMAIN new
                                                     /\ Len(rows) + (i - Len(rows)) = i)
    BY <1>4
  <2>2. \A i \in DOMAIN rows' : rows'[i] \in Stored \cup ToSet(new)
    BY <1>4, <2>1 DEF Stored, ToSet
  <2>3. \A i \in DOMAIN rows : rows[i] \in Stored'
    BY <1>4 DEF Stored, ToSet
  <2>4. \A i \in DOMAIN new : new[i] \in Stored'
    <3> SUFFICES ASSUME NEW i \in DOMAIN new PROVE new[i] \in Stored'
      OBVIOUS
    <3>1. Len(rows) + i \in DOMAIN rows' /\ rows'[Len(rows) + i] = new[i]
      BY <1>4
    <3> QED
      BY <3>1 DEF Stored, ToSet
  <2>5. Stored' = {rows'[i] : i \in DOMAIN rows'}
    BY DEF Stored, ToSet
  <2>6. Stored' \subseteq Stored \cup ToSet(new)
    BY ONLY <2>2, <2>5
  <2>7. Stored \subseteq Stored'
    <3>1. Stored = {rows[i] : i \in DOMAIN rows}
      BY DEF Stored, ToSet
    <3> QED
      BY ONLY <2>3, <3>1
  <2>8. ToSet(new) \subseteq Stored'
    <3>1. ToSet(new) = {new[i] : i \in DOMAIN new}
      BY DEF ToSet
    <3> QED
      BY ONLY <2>4, <3>1
  <2> QED
    BY ONLY <2>6, <2>7, <2>8
<1>6. CountedOnce'
  <2> SUFFICES ASSUME NEW i \in DOMAIN rows', NEW j \in DOMAIN rows', i # j
               PROVE  /\ ~(HasKey(rows'[i]) /\ rows'[i].key = rows'[j].key)
                      /\ rows'[i] # rows'[j]
    BY DEF CountedOnce, HasKey
  <2>1. ASSUME NEW k \in DOMAIN rows, NEW l \in DOMAIN new
        PROVE  rows[k] # new[l] /\ (HasKey(new[l]) => rows[k].key # new[l].key)
    <3>1. rows[k] \in Stored /\ new[l] \in ToSet(new)
      BY DEF Stored, ToSet
    <3> QED
      BY <1>1, <1>2, <3>1 DEF Known
  <2>2. CASE i \in DOMAIN rows /\ j \in DOMAIN rows
    BY <1>1, <1>4, <2>2 DEF CountedOnce
  <2> DEFINE k == i - Len(rows)
             l == j - Len(rows)
  <2>3. /\ i \notin DOMAIN rows => k \in DOMAIN new /\ rows'[i] = new[k]
        /\ j \notin DOMAIN rows => l \in DOMAIN new /\ rows'[j] = new[l]
        /\ k # l
    <3>1. \A m \in DOMAIN rows' : m \notin DOMAIN rows =>
            m - Len(rows) \in 1 .. Len(new) /\ Len(rows) + (m - Len(rows)) = m
      BY <1>4
    <3>2. \A m \in DOMAIN rows' : m \notin DOMAIN rows =>
            m - Len(rows) \in DOMAIN new /\ rows'[m] = new[m - Len(rows)]
      BY <1>4, <3>1
    <3>3. i \in Nat /\ j \in Nat /\ Len(rows) \in Nat
      BY <1>4
    <3>4. i - Len(rows) # j - Len(rows)
      BY <3>3
    <3> QED
      BY <3>2, <3>4
  <2> HIDE DEF k, l
  <2>4. CASE i \notin DOMAIN rows /\ j \notin DOMAIN rows
    BY <1>2, <2>3, <2>4 DEF NoneTwice
  <2>5. CASE i \in DOMAIN rows /\ j \notin DOMAIN rows
    <3>1. rows'[i] = rows[i]
      BY <1>4, <2>5
    <3> QED
      BY <2>1, <2>3, <2>5, <3>1 DEF HasKey
  <2>6. CASE i \notin DOMAIN rows /\ j \in DOMAIN rows
    <3>1. rows'[j] = rows[j]
      BY <1>4, <2>6
    <3> QED
      BY <2>1, <2>3, <2>6, <3>1 DEF HasKey
  <2> QED
    BY <2>2, <2>4, <2>5, <2>6
<1>7. BoardKept'
  <2>1. board.phase = "summary" => Covers(rows \o new)
    BY <1>1, <1>2, MoreRows DEF BoardKept
  <2> QED
    BY <1>3, <2>1 DEF BoardKept, Covers
<1>8. \A e \in ToSet(b) : e \in Stored' \/ Shares(e, Stored')
  BY <1>2, <1>5
<1> QED
  BY <1>2, <1>4, <1>5, <1>6, <1>7, <1>8

\* The board stays what it is while the rows do.
LEMMA BoardRests == BoardKept /\ UNCHANGED <<rows, board>> => BoardKept'
BY DEF BoardKept, Covers

\* A batch is written, or counted as dropped, or both.
LEMMA FlushKeeps ==
  ASSUME NEW q, NEW b, UnderWay(q, b), RowsKept, BoardKept, Len(q) <= EventQueue,
         Flush(b), queue' = q, UNCHANGED <<recorded, forgotten, board>>
  PROVE  ObsInv'
<1>1. batch' = <<>> /\ <<>> \in Seq(Event) /\ ToSet(<<>>) = {} /\ Len(<<>>) < EventBatch
      /\ NoneTwice(<<>>)
  BY ObservabilityAssumption DEF Flush, ToSet, NoneTwice
<1>2. \/ UNCHANGED rows /\ UNCHANGED unsure /\ dropped' = dropped \cup ToSet(b)
      \/ rows' = rows \o Inserted(b) /\ UNCHANGED <<dropped, unsure>>
      \/ rows' = rows \o Inserted(b) /\ unsure' = unsure \cup ToSet(b)
           /\ dropped' = dropped \cup ToSet(b)
  BY DEF Flush
<1>3. CASE UNCHANGED rows /\ UNCHANGED unsure /\ dropped' = dropped \cup ToSet(b)
  <2>1. Stored' = Stored /\ CountedOnce'
    BY <1>3 DEF Stored, RowsKept, CountedOnce
  <2>2. UnderWay(queue, batch)'
    BY <1>1, <1>3, <2>1 DEF UnderWay
  <2>3. RowsKept'
    BY <1>3, <2>1 DEF RowsKept, UnderWay, Seen
  <2> QED
    BY <1>1, <1>3, <2>2, <2>3, BoardRests DEF ObsInv
<1>4. CASE /\ rows' = rows \o Inserted(b)
           /\ \/ UNCHANGED <<dropped, unsure>>
              \/ unsure' = unsure \cup ToSet(b) /\ dropped' = dropped \cup ToSet(b)
  <2>1. /\ rows' \in Seq(Event) /\ CountedOnce' /\ BoardKept'
        /\ Stored \subseteq Stored' /\ Stored' \subseteq Stored \cup ToSet(b)
        /\ \A e \in ToSet(b) : e \in Stored' \/ Shares(e, Stored')
    BY <1>4, RowsGrow
  <2>2. /\ dropped \subseteq dropped' /\ unsure \subseteq unsure'
        /\ dropped' \subseteq dropped \cup ToSet(b) /\ unsure' \subseteq unsure \cup ToSet(b)
        /\ dropped' # dropped => unsure' = unsure \cup ToSet(b)
    BY <1>4
  <2>3. \A e : Shares(e, Stored) => Shares(e, Stored')
    BY <2>1 DEF Shares
  <2>4. UnderWay(queue, batch)'
    BY <1>1, <2>1, <2>2, <2>3 DEF UnderWay
  <2>5. RowsKept'
    BY <2>1, <2>2 DEF RowsKept, UnderWay, Seen
  <2> QED
    BY <1>1, <2>1, <2>4, <2>5 DEF ObsInv
<1> QED
  BY <1>2, <1>3, <1>4

\* A handler puts an event no handler recorded at the end of the queue, or counts it.
LEMMA RecordKeeps ==
  ASSUME ObsInv, NEW e \in Event, Seen(e), RecordEvent(e)
  PROVE  ObsInv'
<1>1. /\ e \notin recorded /\ recorded' = recorded \cup {e}
      /\ UNCHANGED <<batch, rows, unsure, forgotten, board>> /\ Stored' = Stored
      /\ \/ Len(queue) < EventQueue /\ queue' = Append(queue, e) /\ dropped' = dropped
         \/ dropped' = dropped \cup {e} /\ queue' = queue
  BY DEF RecordEvent, Enqueue, Stored
<1>2. BoardKept'
  BY <1>1, BoardRests DEF ObsInv
<1>3. RowsKept'
  BY <1>1 DEF ObsInv, RowsKept, CountedOnce
<1>4. queue \in Seq(Event) /\ e \notin ToSet(queue) /\ NoneTwice(queue)
  BY <1>1 DEF ObsInv, UnderWay
<1>5. CASE dropped' = dropped \cup {e} /\ queue' = queue
  <2>1. UnderWay(queue, batch)'
    BY <1>1, <1>5 DEF ObsInv, UnderWay
  <2> QED
    BY <1>1, <1>2, <1>3, <1>5, <2>1 DEF ObsInv
<1>6. CASE Len(queue) < EventQueue /\ queue' = Append(queue, e) /\ dropped' = dropped
  <2>1. /\ queue' \in Seq(Event) /\ Len(queue') = Len(queue) + 1 /\ Len(queue) \in Nat
        /\ \A i \in 1 .. Len(queue) : queue'[i] = queue[i]
        /\ queue'[Len(queue) + 1] = e
        /\ DOMAIN queue = 1 .. Len(queue) /\ DOMAIN queue' = 1 .. Len(queue) + 1
    BY <1>4, <1>6
  <2>2. \A i \in DOMAIN queue' : i \in DOMAIN queue \/ i = Len(queue) + 1
    BY <2>1
  <2>3. ToSet(queue') = ToSet(queue) \cup {e}
    BY <2>1, <2>2 DEF ToSet
  <2>4. NoneTwice(queue')
    <3>1. \A i \in DOMAIN queue : queue[i] # e
      BY <1>4 DEF ToSet
    <3> QED
      BY <1>4, <2>1, <2>2, <3>1 DEF NoneTwice
  <2>5. UnderWay(queue, batch)'
    BY <1>1, <1>6, <2>1, <2>3, <2>4 DEF ObsInv, UnderWay, RowsKept
  <2>6. Len(queue') <= EventQueue
    BY <1>6, <2>1, ObservabilityAssumption
  <2> QED
    BY <1>1, <1>2, <1>3, <2>5, <2>6 DEF ObsInv
<1> QED
  BY <1>1, <1>5, <1>6

\* The goroutine moves an event from the queue to its batch, and writes a full one.
LEMMA TakeKeeps ==
  ASSUME ObsInv, TakeEvent
  PROVE  ObsInv'
<1> DEFINE q == Tail(queue)
           b == Append(batch, Head(queue))
<1>1. /\ queue # <<>> /\ queue' = q /\ UNCHANGED <<recorded, forgotten, board>>
      /\ \/ Flush(b)
         \/ Len(b) < EventBatch /\ batch' = b /\ UNCHANGED <<rows, dropped, unsure>>
  <2>1. /\ queue # <<>> /\ queue' = q /\ UNCHANGED <<recorded, forgotten, board>>
        /\ IF Len(b) >= EventBatch THEN Flush(b)
           ELSE batch' = b /\ UNCHANGED <<rows, dropped, unsure, outages>>
    BY DEF TakeEvent
  <2>2. Len(b) \in Nat
    BY DEF ObsInv, UnderWay
  <2>3. Len(b) >= EventBatch \/ Len(b) < EventBatch
    BY <2>2, ObservabilityAssumption
  <2> HIDE DEF b, q
  <2>4. CASE Len(b) >= EventBatch
    BY <2>1, <2>4
  <2>5. CASE Len(b) < EventBatch
    <3>1. ~(Len(b) >= EventBatch)
      BY <2>2, <2>5, ObservabilityAssumption
    <3> QED
      BY <2>1, <2>5, <3>1
  <2> QED
    BY <2>3, <2>4, <2>5
<1>2. /\ queue \in Seq(Event) /\ batch \in Seq(Event)
      /\ NoneTwice(queue) /\ NoneTwice(batch) /\ ToSet(queue) \cap ToSet(batch) = {}
  BY DEF ObsInv, UnderWay
<1>3. /\ q \in Seq(Event) /\ Len(q) = Len(queue) - 1 /\ Len(queue) \in Nat /\ Len(queue) > 0
      /\ DOMAIN queue = 1 .. Len(queue) /\ DOMAIN q = 1 .. Len(queue) - 1
      /\ \A i \in 1 .. Len(queue) - 1 : q[i] = queue[i + 1]
      /\ Head(queue) = queue[1] /\ Head(queue) \in Event
  BY <1>1, <1>2
<1>4. /\ b \in Seq(Event) /\ Len(b) = Len(batch) + 1 /\ Len(batch) \in Nat
      /\ DOMAIN batch = 1 .. Len(batch) /\ DOMAIN b = 1 .. Len(batch) + 1
      /\ \A i \in 1 .. Len(batch) : b[i] = batch[i]
      /\ b[Len(batch) + 1] = Head(queue)
  BY <1>2, <1>3
<1> DEFINE e == Head(queue)
<1> HIDE DEF q, b
<1>5. ToSet(queue) = ToSet(q) \cup {e} /\ e \notin ToSet(q) /\ NoneTwice(q)
  <2>1. \A i \in DOMAIN queue : i = 1 \/ (i - 1 \in DOMAIN q /\ (i - 1) + 1 = i)
    BY <1>3
  <2>2. \A i \in DOMAIN q : i + 1 \in DOMAIN queue /\ i + 1 # 1
    BY <1>3
  <2>3. 1 \in DOMAIN queue
    BY <1>3
  <2>4. ToSet(queue) \subseteq ToSet(q) \cup {e}
    BY <1>3, <2>1 DEF ToSet
  <2>5. ToSet(q) \cup {e} \subseteq ToSet(queue)
    BY <1>3, <2>2, <2>3 DEF ToSet
  <2>6. e \notin ToSet(q)
    BY <1>2, <1>3, <2>2, <2>3 DEF ToSet, NoneTwice
  <2>7. NoneTwice(q)
    <3> SUFFICES ASSUME NEW i \in DOMAIN q, NEW j \in DOMAIN q, q[i] = q[j] PROVE i = j
      BY DEF NoneTwice
    <3>1. i + 1 = j + 1
      BY <1>2, <1>3, <2>2 DEF NoneTwice
    <3> QED
      BY <1>3, <3>1
  <2> QED
    BY <2>4, <2>5, <2>6, <2>7
<1>6. ToSet(b) = ToSet(batch) \cup {e} /\ NoneTwice(b)
  <2>1. \A i \in DOMAIN b : i \in DOMAIN batch \/ i = Len(batch) + 1
    BY <1>4
  <2>2. e \notin ToSet(batch)
    BY <1>2, <1>5
  <2>3. ToSet(b) = ToSet(batch) \cup {e}
    BY <1>4, <2>1 DEF ToSet
  <2>4. \A i \in DOMAIN batch : batch[i] # e
    BY <2>2 DEF ToSet
  <2> QED
    BY <1>2, <1>4, <2>1, <2>3, <2>4 DEF NoneTwice
<1> HIDE DEF e
<1>7. UnderWay(q, b)
  BY <1>2, <1>3, <1>4, <1>5, <1>6 DEF ObsInv, UnderWay
<1>8. Len(q) <= EventQueue
  BY <1>3, ObservabilityAssumption DEF ObsInv
<1>9. CASE Flush(b)
  BY <1>1, <1>7, <1>8, <1>9, FlushKeeps DEF ObsInv
<1>10. CASE Len(b) < EventBatch /\ batch' = b /\ UNCHANGED <<rows, dropped, unsure>>
  <2>1. Stored' = Stored
    BY <1>10 DEF Stored
  <2>2. UnderWay(queue, batch)'
    BY <1>1, <1>7, <1>10, <2>1 DEF UnderWay
  <2>3. RowsKept'
    BY <1>1, <1>10, <2>1 DEF ObsInv, RowsKept, CountedOnce
  <2> QED
    BY <1>1, <1>8, <1>10, <2>2, <2>3, BoardRests DEF ObsInv
<1> QED
  BY <1>1, <1>9, <1>10

\* What was in memory is gone when the server stops, and the counter starts again.
LEMMA StopKeeps ==
  ASSUME ObsInv, StopRecorder
  PROVE  ObsInv'
<1>1. /\ queue' = <<>> /\ batch' = <<>> /\ dropped' = {}
      /\ forgotten' = forgotten \cup ToSet(queue) \cup ToSet(batch) \cup dropped
      /\ UNCHANGED <<recorded, rows, unsure, board>> /\ Stored' = Stored
  BY DEF StopRecorder, Stored
<1>2. <<>> \in Seq(Event) /\ ToSet(<<>>) = {} /\ NoneTwice(<<>>) /\ Len(<<>>) = 0
  BY DEF ToSet, NoneTwice
<1>3. UnderWay(queue, batch)'
  BY <1>1, <1>2 DEF ObsInv, UnderWay
<1>4. RowsKept'
  BY <1>1 DEF ObsInv, RowsKept, UnderWay, CountedOnce
<1>5. Len(queue') <= EventQueue /\ Len(batch') < EventBatch
  BY <1>1, <1>2, ObservabilityAssumption
<1> QED
  BY <1>1, <1>3, <1>4, <1>5, BoardRests DEF ObsInv

\* The dashboard counts the rows there are, and then reads as many or more.
LEMMA ReadKeeps ==
  ASSUME ObsInv, ReadSummary \/ ReadDetails
  PROVE  ObsInv'
<1>1. UNCHANGED <<recorded, queue, batch, rows, dropped, unsure, forgotten>> /\ Stored' = Stored
  BY DEF ReadSummary, ReadDetails, Stored
<1>2. UnderWay(queue, batch)' /\ RowsKept'
  BY <1>1 DEF ObsInv, UnderWay, RowsKept, CountedOnce
<1>3. rows \in Seq(Event) /\ board \in BoardType
  BY DEF ObsInv, RowsKept, BoardKept
<1>4. CASE ReadSummary
  <2>1. board' = [phase |-> "summary", viewers |-> Cardinality(VisitorsIn(rows)),
                  views |-> Cardinality(ViewsIn(rows)),
                  requests |-> Cardinality(UsagesIn(rows)), details |-> <<>>, truncated |-> FALSE]
    BY <1>4 DEF ReadSummary, NoBoard
  <2>2. /\ Cardinality(VisitorsIn(rows)) \in Nat /\ Cardinality(ViewsIn(rows)) \in Nat
        /\ Cardinality(UsagesIn(rows)) \in Nat /\ <<>> \in Seq(Event)
    BY <1>3, CountsOfRows
  <2>3. BoardKept'
    BY <1>1, <2>1, <2>2 DEF BoardKept, BoardType, Covers
  <2> QED
    BY <1>1, <1>2, <2>3 DEF ObsInv
<1>5. CASE ReadDetails
  <2>1. /\ board.phase = "summary" /\ Covers(rows)
        /\ board' = [board EXCEPT !.phase = "shown", !.details = NewestRows,
                                  !.truncated = Len(rows) > DetailLimit]
    BY <1>5 DEF ReadDetails, Details, ObsInv, BoardKept
  <2>2. Len(rows) \in Nat /\ DetailLimit \in Nat
    BY <1>3, ObservabilityAssumption
  <2>3. ~(Len(rows) > DetailLimit) => NewestRows = rows
    BY <1>3 DEF NewestRows
  <2>4. NewestRows \in Seq(Event)
    <3>1. CASE Len(rows) > DetailLimit
      <4>1. NewestRows = SubSeq(rows, Len(rows) - DetailLimit + 1, Len(rows))
        BY <3>1, Zenon DEF NewestRows
      <4>2. SubSeq(rows, Len(rows) - DetailLimit + 1, Len(rows)) \in Seq(Event)
        BY <1>3, <2>2, <3>1
      <4> QED
        BY <4>1, <4>2
    <3> QED
      BY <1>3, <2>3, <3>1
  <2> DEFINE cut == Len(rows) > DetailLimit
  <2>5. cut \in BOOLEAN
    OBVIOUS
  <2> HIDE DEF cut
  <2>6. board' = [board EXCEPT !.phase = "shown", !.details = NewestRows, !.truncated = cut]
    BY <2>1 DEF cut
  <2>7. /\ board'.phase = "shown" /\ board'.details = NewestRows /\ board'.truncated = cut
        /\ board'.viewers = board.viewers /\ board'.views = board.views
        /\ board'.requests = board.requests /\ board' \in BoardType
    BY <1>3, <2>4, <2>5, <2>6 DEF BoardType
  <2>8. \A e \in ToSet(rows) : Seen(e)
    BY DEF ObsInv, RowsKept, Stored
  <2>9. BoardKept'
    <3>1. ~board'.truncated => Covers(rows)' /\ board'.details = rows
      BY <1>1, <2>1, <2>3, <2>7 DEF Covers, cut
    <3> QED
      BY <1>1, <2>7, <2>8, <3>1 DEF BoardKept, Covers
  <2> QED
    BY <1>1, <1>2, <2>9 DEF ObsInv
<1> QED
  BY <1>4, <1>5

(***************************************************************************)
(* The tables show every view once: by the decks, and of a deck by the     *)
(* people.                                                                 *)
(***************************************************************************)
LEMMA TablesAddUp ==
  ASSUME NEW t \in Seq(Event), \A e \in ToSet(t) : Seen(e)
  PROVE  /\ Cardinality(ViewsIn(t))
              = SumFunction([d \in DecksSeen(t) |-> Cardinality(ViewsOfDeck(t, d))])
         /\ \A d \in DecksSeen(t) :
              Cardinality(ViewsOfDeck(t, d))
                = SumFunction([v \in VisitorsIn(t) |-> Cardinality(ViewsOf(t, v, d))])
<1> DEFINE U == ViewsIn(t)
<1>1. /\ IsFiniteSet(U) /\ IsFiniteSet(VisitorsIn(t)) /\ IsFiniteSet(DecksSeen(t))
  BY CountsOfRows
<1>2. \A i \in U : t[i].viewer # NoKey /\ t[i].viewer \in VisitorsIn(t)
                   /\ t[i].deck \in DecksSeen(t)
  BY DEF ViewsIn, Seen, ToSet, VisitorsIn, DecksSeen
<1>3. Cardinality(U) = SumFunction([d \in DecksSeen(t) |-> Cardinality(ViewsOfDeck(t, d))])
  <2> DEFINE D == DecksSeen(t)
             C == [d \in D |-> ViewsOfDeck(t, d)]
  <2>1. C \in [D -> SUBSET U] /\ \A c, d \in D : c # d => C[c] \cap C[d] = {}
    BY DEF ViewsOfDeck
  <2>2. UNION {C[d] : d \in D} = U
    BY <1>2 DEF ViewsOfDeck
  <2>3. [d \in D |-> Cardinality(ViewsOfDeck(t, d))] = [d \in D |-> Cardinality(C[d])]
    OBVIOUS
  <2> HIDE DEF U, C, D
  <2>4. SumFunction([d \in D |-> Cardinality(C[d])]) = Cardinality(UNION {C[d] : d \in D})
    BY <1>1, <2>1, SumOfSizes DEF D
  <2> QED
    BY <2>2, <2>3, <2>4 DEF D
<1>4. ASSUME NEW d \in DecksSeen(t)
      PROVE  Cardinality(ViewsOfDeck(t, d))
               = SumFunction([v \in VisitorsIn(t) |-> Cardinality(ViewsOf(t, v, d))])
  <2> DEFINE D == VisitorsIn(t)
             C == [v \in D |-> ViewsOf(t, v, d)]
  <2>1. C \in [D -> SUBSET U] /\ \A v, w \in D : v # w => C[v] \cap C[w] = {}
    BY DEF ViewsOf
  <2>2. UNION {C[v] : v \in D} = ViewsOfDeck(t, d)
    BY <1>2 DEF ViewsOf, ViewsOfDeck
  <2>3. [v \in D |-> Cardinality(ViewsOf(t, v, d))] = [v \in D |-> Cardinality(C[v])]
    OBVIOUS
  <2> HIDE DEF U, C, D
  <2>4. SumFunction([v \in D |-> Cardinality(C[v])]) = Cardinality(UNION {C[v] : v \in D})
    BY <1>1, <2>1, SumOfSizes DEF D
  <2> QED
    BY <2>2, <2>3, <2>4 DEF D
<1> QED
  BY <1>3, <1>4

LEMMA BoardIsRight == ObsInv => BoardAgrees
<1> SUFFICES ASSUME ObsInv, board.phase = "shown", ~board.truncated PROVE BoardAgrees
  BY DEF BoardAgrees
<1>1. /\ board.details \in Seq(Event) /\ Covers(board.details)
      /\ \A e \in ToSet(board.details) : Seen(e)
  BY DEF ObsInv, BoardKept, BoardType
<1> QED
  BY <1>1, TablesAddUp DEF BoardAgrees, Covers

LEMMA ObservabilityStart == ObservabilityInit => ObsInv
<1> SUFFICES ASSUME ObservabilityInit PROVE ObsInv
  OBVIOUS
<1>1. <<>> \in Seq(Event) /\ ToSet(<<>>) = {} /\ NoneTwice(<<>>) /\ Len(<<>>) = 0
  BY DEF ToSet, NoneTwice
<1>2. board \in BoardType /\ board.phase = "none"
  BY <1>1 DEF ObservabilityInit, NoBoard, BoardType
<1>3. Stored = {} /\ CountedOnce
  BY <1>1 DEF ObservabilityInit, Stored, CountedOnce, NoneTwice
<1> QED
  BY <1>1, <1>2, <1>3, ObservabilityAssumption
  DEF ObservabilityInit, ObsInv, UnderWay, RowsKept, BoardKept

LEMMA ObservabilityStep == ObsInv /\ [ObservabilityNext]_obsVars => ObsInv'
<1> SUFFICES ASSUME ObsInv, [ObservabilityNext]_obsVars PROVE ObsInv'
  OBVIOUS
<1>1. ASSUME NEW e \in Event, RecordView(e) \/ RecordUsage(e) PROVE ObsInv'
  <2>1. RecordEvent(e) /\ Seen(e)
    BY <1>1 DEF RecordView, RecordUsage, Seen, Views, Usages
  <2> QED
    BY <2>1, RecordKeeps
<1>2. CASE TickFlush
  <2>1. Flush(batch) /\ queue' = queue /\ UNCHANGED <<recorded, forgotten, board>>
    BY <1>2 DEF TickFlush
  <2> QED
    BY <2>1, FlushKeeps DEF ObsInv
<1>3. CASE UNCHANGED obsVars
  BY <1>3, BoardRests DEF obsVars, ObsInv, UnderWay, RowsKept, Stored, CountedOnce
<1> QED
  BY <1>1, <1>2, <1>3, TakeKeeps, StopKeeps, ReadKeeps DEF ObservabilityNext

(***************************************************************************)
(* Of the dashboard: every event that was recorded is accounted for, is    *)
(* stored and counted once, and the tables add up to the totals, for every *)
(* set of events, length of the queue and of a batch, and any number of    *)
(* outages.                                                                *)
(***************************************************************************)
THEOREM EventsAreCounted ==
  ObservabilitySpec => [](EventsAccounted /\ CountedOnce /\ BoardAgrees)
<1>1. ObsInv => EventsAccounted /\ CountedOnce
  BY DEF ObsInv, UnderWay, RowsKept, EventsAccounted, Shares
<1> QED
  BY <1>1, BoardIsRight, ObservabilityStart, ObservabilityStep, PTL DEF ObservabilitySpec
================================================================================
