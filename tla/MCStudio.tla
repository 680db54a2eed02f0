-------------------------------- MODULE MCStudio --------------------------------
(* The parts of the studio on small instances. *)
EXTENDS Studio

CONSTANTS v1, v2, d1, k1, none

Happened(kind, viewer, key) == [kind |-> kind, viewer |-> viewer, deck |-> d1, key |-> key]

\* Views of two people, and two requests to the model, one of them reported twice.
MCEvent == {Happened("deck_view", v1, none), Happened("slide_view", v2, none),
            Happened("openai", none, k1), Happened("retry", none, k1)}
================================================================================
