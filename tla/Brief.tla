---------------------------------- MODULE Brief ----------------------------------
(***************************************************************************)
(* internal/server/brief.go: the meeting brief of a deck.  A conversation  *)
(* is distilled into it by a model, which takes its time and is asked      *)
(* without any lock; meanwhile other conversations may be distilled, and   *)
(* the brief may be cleared.  A generation and a revision tell whether the *)
(* answer still fits.  A text is the set of the conversations in it.       *)
(***************************************************************************)
EXTENDS Naturals, FiniteSets

CONSTANTS Conversation,  \* each is sent once
          MaxClears      \* bound: DELETE requests

ASSUME BriefAssumption == MaxClears \in Nat /\ IsFiniteSet(Conversation)

VARIABLES brief,    \* brief.json: generation, revision and text
          client,   \* of each conversation: the generation and revision its page has
          update,   \* of each: what its request has done, and the text it read
          kept      \* history: conversations answered with the new brief

briefVars == <<brief, client, update, kept>>

NoText == [step |-> "new", text |-> {}]

BriefInit ==
  /\ brief = [generation |-> 0, revision |-> 0, text |-> {}]
  /\ client = [c \in Conversation |-> [generation |-> 0, revision |-> 0]]
  /\ update = [c \in Conversation |-> NoText]
  /\ kept = {}

\* GET, by the page a conversation is held on.
GetBrief(c) ==
  /\ update[c].step = "new"
  /\ client' = [client EXCEPT ![c] = [generation |-> brief.generation,
                                      revision |-> brief.revision]]
  /\ UNCHANGED <<brief, update, kept>>

Current(c) ==
  /\ client[c].generation = brief.generation
  /\ client[c].revision = brief.revision

\* POST up to the request to the model; 409 if the brief has changed.
PostBrief(c) ==
  /\ update[c].step = "new" /\ Current(c)
  /\ update' = [update EXCEPT ![c] = [step |-> "asking", text |-> brief.text]]
  /\ UNCHANGED <<brief, client, kept>>

\* Mutant of StillFits: only the generation is compared again.
MutantStillFits(c) == client[c].generation = brief.generation

StillFits(c) == Current(c)

\* The model's answer, the second look, and the file by rename.
SaveBrief(c) ==
  /\ update[c].step = "asking" /\ StillFits(c)
  /\ brief' = [brief EXCEPT !.text = update[c].text \cup {c}, !.revision = @ + 1]
  /\ kept' = kept \cup {c}
  /\ update' = [update EXCEPT ![c] = [step |-> "answered", text |-> {}]]
  /\ UNCHANGED client

\* The model or the file fails, or the brief has changed: nothing is saved and
\* the conversation may be sent again.
DiscardBrief(c) ==
  /\ update[c].step = "asking"
  /\ update' = [update EXCEPT ![c] = NoText]
  /\ UNCHANGED <<brief, client, kept>>

\* DELETE: a generation nobody has.
ClearBrief ==
  /\ brief.generation < MaxClears
  /\ brief' = [generation |-> brief.generation + 1, revision |-> 0, text |-> {}]
  /\ UNCHANGED <<client, update, kept>>

BriefNext ==
  \/ \E c \in Conversation :
       GetBrief(c) \/ PostBrief(c) \/ SaveBrief(c) \/ DiscardBrief(c)
  \/ ClearBrief

BriefSpec == BriefInit /\ [][BriefNext]_briefVars

--------------------------------------------------------------------------------
(***************************************************************************)
(* brief.go:15, "a generation change makes every pre-clear update          *)
(* obsolete": no conversation that was posted before a clear is in the     *)
(* brief after it; and each that was answered since is in it, whatever was *)
(* distilled at the same time.                                             *)
(***************************************************************************)
BriefKept ==
  brief.text = {c \in kept : client[c].generation = brief.generation}

BriefTypeOK ==
  /\ brief \in [generation : Nat, revision : Nat, text : SUBSET Conversation]
  /\ client \in [Conversation -> [generation : Nat, revision : Nat]]
  /\ update \in [Conversation -> [step : {"new", "asking", "answered"},
                                  text : SUBSET Conversation]]
  /\ kept \in SUBSET Conversation

\* An update whose generation and revision are the brief's has read its text.
ReadsAreCurrent ==
  /\ \A c \in Conversation :
       update[c].step = "asking" /\ Current(c) => update[c].text = brief.text
  /\ \A c \in Conversation :
       \/ client[c].generation < brief.generation
       \/ /\ client[c].generation = brief.generation
          /\ client[c].revision <= brief.revision
  /\ \A c \in Conversation : c \in kept <=> update[c].step = "answered"
================================================================================
