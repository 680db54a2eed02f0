----------------------------- MODULE MCContentSync -----------------------------
(* Two saves here and two changes elsewhere; the first of each may conflict. *)
EXTENDS ContentSync

CONSTANTS s1, s2, x1, x2

MCSave == {s1, s2}

MCElsewhere == {x1, x2}

Clashing == {<<s1, x1>>}
================================================================================
