--------------------------------- MODULE Audience ---------------------------------
(***************************************************************************)
(* internal/server/audiencechat.go and the inbox of vessica.go: what the   *)
(* audience says is appended to one file by handlers that run at the same  *)
(* time (the file is read, extended and written again under vesMu, and the *)
(* write truncates it first), then counted for the stage, which is told at *)
(* intervals.  A word is its speaker: what matters is that every one is    *)
(* there, in the order they were written.                                  *)
(***************************************************************************)
EXTENDS Naturals, Sequences, FiniteSets

CONSTANTS Speaker,      \* audience members, each in a chat of their own
          MaxChats,     \* maxChatSessions
          MaxTurns,     \* maxChatTurns
          InboxSize,    \* messages the inbox keeps: 500 in the code
          MaxStops      \* bound: ends of the server, and writes that fail

ASSUME AudienceAssumption ==
  /\ IsFiniteSet(Speaker)
  /\ MaxChats \in Nat /\ MaxTurns \in Nat /\ InboxSize \in Nat \ {0} /\ MaxStops \in Nat

VARIABLES chat,      \* of each speaker: what the handler of the last message has done
          turns,     \* of each speaker's chat: messages taken
          chatSeen,  \* sessions ever started
          vesMu,     \* the speakers whose handlers hold the lock: one at most
          held,      \* of each speaker: the messages the handler has read
          inbox,     \* inbox.json: whether it can be read, and the messages
          pulse,     \* pulsePending, whether a timer is set, what is being broadcast, and
                     \* what the stage was told, or missed
          said,      \* history: the messages written, in the order of the lock
          stops      \* bound

audienceVars == <<chat, turns, chatSeen, vesMu, held, inbox, pulse, said, stops>>

NoPulse == [pending |-> 0, timer |-> FALSE, flying |-> 0, told |-> 0, missed |-> 0]
Unread == [s \in Speaker |-> <<>>]

AudienceInit ==
  /\ chat = [s \in Speaker |-> "absent"] /\ turns = [s \in Speaker |-> 0]
  /\ chatSeen = 0 /\ vesMu = {} /\ held = Unread
  /\ inbox = [whole |-> TRUE, messages |-> <<>>]
  /\ pulse = NoPulse
  /\ said = <<>> /\ stops = 0

ChatStep(s, from, to) == chat[s] = from /\ chat' = [chat EXCEPT ![s] = to]

--------------------------------------------------------------------------------
\* handleChatStart: a session is counted before the greeting is asked for, and is
\* not given back when there is none.  The greeting goes to the inbox too.
JoinChat(s) ==
  /\ chatSeen < MaxChats
  /\ \/ ChatStep(s, "absent", "greeting")
     \/ chat[s] = "absent" /\ UNCHANGED chat
  /\ chatSeen' = chatSeen + 1
  /\ turns' = [turns EXCEPT ![s] = 0]
  /\ UNCHANGED <<vesMu, held, inbox, pulse, said, stops>>

\* handleChatMessage, under the lock of the session.
SayWords(s) ==
  /\ turns[s] < MaxTurns
  /\ ChatStep(s, "idle", "words")
  /\ turns' = [turns EXCEPT ![s] = @ + 1]
  /\ UNCHANGED <<chatSeen, vesMu, held, inbox, pulse, said, stops>>

\* Mutant of LockInbox: the file is read before the lock is taken.
MutantLockInbox(s) == s \notin vesMu /\ chat[s] \in {"greeting", "words"}

LockInbox(s) == vesMu = {} /\ chat[s] \in {"greeting", "words"}

\* appendInbox: a file that cannot be read counts as empty ...
ReadInbox(s) ==
  /\ LockInbox(s)
  /\ vesMu' = vesMu \cup {s}
  /\ held' = [held EXCEPT ![s] = IF inbox.whole THEN inbox.messages ELSE <<>>]
  /\ UNCHANGED <<chat, turns, chatSeen, inbox, pulse, said, stops>>

\* ... is truncated ...
TruncateInbox(s) ==
  /\ s \in vesMu /\ inbox.whole
  /\ inbox' = [whole |-> FALSE, messages |-> <<>>]
  /\ UNCHANGED <<chat, turns, chatSeen, vesMu, held, pulse, said, stops>>

NewestOf(m) == SubSeq(m, IF Len(m) > InboxSize THEN Len(m) - InboxSize + 1 ELSE 1, Len(m))

Appended(s) ==
  /\ chat' = [chat EXCEPT ![s] = IF @ = "words" THEN "counting" ELSE "idle"]
  /\ vesMu' = vesMu \ {s} /\ held' = [held EXCEPT ![s] = <<>>]

\* ... and written; only what the audience says is counted.
WriteInbox(s) ==
  /\ s \in vesMu /\ ~inbox.whole
  /\ inbox' = [whole |-> TRUE, messages |-> NewestOf(Append(held[s], s))]
  /\ said' = Append(said, s)
  /\ Appended(s)
  /\ UNCHANGED <<turns, chatSeen, pulse, stops>>

\* An error of os.WriteFile is ignored: the words are in no file, nor, when the file has
\* been cut off, is what was said before.
LoseWords(s) ==
  /\ s \in vesMu /\ stops < MaxStops
  /\ stops' = stops + 1
  /\ said' = IF inbox.whole THEN said ELSE <<>>
  /\ Appended(s)
  /\ UNCHANGED <<turns, chatSeen, inbox, pulse>>

\* pulseNotify, then the model's answer or its failure.
CountPulse(s) ==
  /\ ChatStep(s, "counting", "idle")
  /\ pulse' = [pulse EXCEPT !.pending = @ + 1, !.timer = TRUE]
  /\ UNCHANGED <<turns, chatSeen, vesMu, held, inbox, said, stops>>

\* Mutant of Flushed: what was told stays pending.
MutantFlushed == [pulse EXCEPT !.flying = @ + pulse.pending, !.timer = FALSE]

Flushed == [pulse EXCEPT !.flying = @ + pulse.pending, !.pending = 0, !.timer = FALSE]

\* The timer of pulseNotify, at once or at the end of the window ...
FirePulse ==
  /\ pulse.timer
  /\ pulse' = Flushed
  /\ UNCHANGED <<chat, turns, chatSeen, vesMu, held, inbox, said, stops>>

\* ... and, without the lock, Broadcast: a stage whose channel is full misses it.  (What
\* several timers broadcast arrives in any order, in these or in other parts.)
BroadcastPulse(n) ==
  /\ n <= pulse.flying
  /\ \/ pulse' = [pulse EXCEPT !.flying = @ - n, !.told = @ + n]
     \/ pulse' = [pulse EXCEPT !.flying = @ - n, !.missed = @ + n]
  /\ UNCHANGED <<chat, turns, chatSeen, vesMu, held, inbox, said, stops>>

\* The process ends, maybe between the truncation and the write.
StopStage ==
  /\ stops < MaxStops
  /\ stops' = stops + 1
  /\ chat' = [s \in Speaker |-> "absent"] /\ turns' = [s \in Speaker |-> 0]
  /\ chatSeen' = 0 /\ vesMu' = {} /\ held' = Unread
  /\ pulse' = NoPulse
  /\ said' = IF inbox.whole THEN said ELSE <<>>
  /\ UNCHANGED inbox

AudienceNext ==
  \/ \E s \in Speaker :
       \/ JoinChat(s) \/ SayWords(s) \/ ReadInbox(s) \/ TruncateInbox(s)
       \/ WriteInbox(s) \/ LoseWords(s) \/ CountPulse(s)
  \/ \E n \in 1..pulse.flying : BroadcastPulse(n)
  \/ FirePulse \/ StopStage

AudienceSpec == AudienceInit /\ [][AudienceNext]_audienceVars

--------------------------------------------------------------------------------
(***************************************************************************)
(* audiencechat.go:281, "the audience's words are safe even if the per-    *)
(* person model call hiccups": while nobody writes it, the inbox is the    *)
(* newest of everything that was written, whoever spoke at the same time   *)
(* (since the last end of the server, or failure, in the middle of a       *)
(* write); and the stage was told of every word once, or missed it with a  *)
(* full channel, or will be told by a broadcast or a timer that is set.    *)
(***************************************************************************)
WordsAreSafe == inbox.whole => inbox.messages = NewestOf(said)

Taken == {t \in Speaker \X (1..MaxTurns) : t[2] <= turns[t[1]]}

StageIsTold ==
  /\ pulse.pending > 0 => pulse.timer
  /\ pulse.told + pulse.missed + pulse.flying + pulse.pending
       + Cardinality({s \in Speaker : chat[s] \in {"words", "counting"}})
       = Cardinality(Taken)

AudienceTypeOK ==
  /\ chat \in [Speaker -> {"absent", "greeting", "idle", "words", "counting"}]
  /\ turns \in [Speaker -> 0..MaxTurns] /\ chatSeen \in 0..MaxChats
  /\ vesMu \subseteq Speaker
  /\ pulse.timer \in BOOLEAN
  /\ {pulse.pending, pulse.flying, pulse.told, pulse.missed} \subseteq Nat
  /\ Len(inbox.messages) <= InboxSize
================================================================================
