---------------------------------- MODULE Follow ----------------------------------
(***************************************************************************)
(* internal/server/follow.go: the presenter's server tells the hub which   *)
(* slide is shown, the hub tells the audience.  Relays overtake each other *)
(* and get lost; the hub keeps the newest position and announces it after  *)
(* giving up its lock.  A position is the number of the presenter's move.  *)
(***************************************************************************)
EXTENDS Naturals, Sequences

CONSTANTS Member,       \* of the audience
          FollowQueue,  \* of a member's channel of events: 8 in the code
          MaxMoves      \* bound: moves of the presenter

ASSUME FollowAssumption == FollowQueue \in Nat \ {0} /\ MaxMoves \in Nat

VARIABLES moves,      \* made by the presenter; the last is the slide on the stage
          relays,     \* on the way to the hub
          presenting, \* the position the hub keeps; 0: none
          announcing, \* kept, and not announced yet
          channel,    \* of each member: the events, or not subscribed
          shown,      \* the position each member sees
          outrun      \* ghost: members an event was dropped for, or came late to

followVars == <<moves, relays, presenting, announcing, channel, shown, outrun>>

Unsubscribed == <<0>>

FollowInit ==
  /\ moves = 0 /\ relays = {} /\ presenting = 0 /\ announcing = {}
  /\ channel = [a \in Member |-> Unsubscribed]
  /\ shown = [a \in Member |-> 0]
  /\ outrun = {}

\* handlePresenting, with the time as the number of the move (relayPresenting).
Present ==
  /\ moves < MaxMoves
  /\ moves' = moves + 1
  /\ relays' = relays \cup {moves + 1}
  /\ UNCHANGED <<presenting, announcing, channel, shown, outrun>>

\* Unreachable hub, or more than two minutes late.
RelayLost(n) ==
  /\ relays' = relays \ {n}
  /\ UNCHANGED <<moves, presenting, announcing, channel, shown, outrun>>

\* Mutant of Stale: the number is not compared.
MutantStale(n) == FALSE

Stale(n) == presenting >= n

\* handlePresentingRelay, setPresenting.
SetPresenting(n) ==
  /\ relays' = relays \ {n}
  /\ IF Stale(n) THEN UNCHANGED <<presenting, announcing>>
     ELSE presenting' = n /\ announcing' = announcing \cup {n}
  /\ UNCHANGED <<moves, channel, shown, outrun>>

Subscribed(a) == channel[a] # Unsubscribed

\* Later announcements of earlier positions come late.
Announce(n) ==
  LET told(a) == Subscribed(a) /\ Len(channel[a]) < FollowQueue
  IN  /\ announcing' = announcing \ {n}
      /\ channel' = [a \in Member |-> IF told(a) THEN Append(channel[a], n) ELSE channel[a]]
      /\ outrun' = IF n < presenting /\ presenting \notin announcing
                     THEN outrun \cup {a \in Member : Subscribed(a)}
                     ELSE outrun \cup {a \in Member : Subscribed(a) /\ ~told(a)}
      /\ UNCHANGED <<moves, relays, presenting, shown>>

\* handleEvents: registered, and the position read, under one lock.
Join(a) ==
  /\ ~Subscribed(a)
  /\ channel' = [channel EXCEPT ![a] = <<>>]
  /\ shown' = [shown EXCEPT ![a] = IF presenting # 0 THEN presenting ELSE @]
  /\ outrun' = IF \E n \in announcing : n < presenting
                  THEN outrun \cup {a} ELSE outrun \ {a}
  /\ UNCHANGED <<moves, relays, presenting, announcing>>

Leave(a) ==
  /\ Subscribed(a)
  /\ channel' = [channel EXCEPT ![a] = Unsubscribed]
  /\ UNCHANGED <<moves, relays, presenting, announcing, shown, outrun>>

Show(a) ==
  /\ Subscribed(a) /\ channel[a] # <<>>
  /\ shown' = [shown EXCEPT ![a] = Head(channel[a])]
  /\ channel' = [channel EXCEPT ![a] = Tail(@)]
  /\ UNCHANGED <<moves, relays, presenting, announcing, outrun>>

FollowNext ==
  \/ Present
  \/ \E n \in relays : RelayLost(n) \/ SetPresenting(n)
  \/ \E n \in announcing : Announce(n)
  \/ \E a \in Member : Join(a) \/ Leave(a) \/ Show(a)

FollowSpec == FollowInit /\ [][FollowNext]_followVars

--------------------------------------------------------------------------------
\* Types of the positions and of the channels.
FollowTypeOK ==
  /\ moves \in 0 .. MaxMoves /\ presenting \in 0 .. moves
  /\ relays \cup announcing \subseteq 1 .. moves
  /\ \A a \in Member : Len(channel[a]) <= FollowQueue /\ shown[a] \in 0 .. presenting
  /\ outrun \subseteq Member

(***************************************************************************)
(* A member who has read every event sees the position the hub keeps,      *)
(* however the relays and the members' arrivals interleave with the moves. *)
(* (Unless an event was dropped for the member, or announced after a later *)
(* one: nothing orders the announcements.)                                 *)
(***************************************************************************)
AudienceSeesThePosition ==
  \A a \in Member \ outrun :
    channel[a] = <<>> /\ announcing = {} => shown[a] = presenting
================================================================================
