----------------------------- MODULE AtomicContent -----------------------------
(***************************************************************************)
(* What replacing the content of a studio promises, with none of the       *)
(* mechanism: a reader sees one projection; it changes by the save of one  *)
(* file, or as a whole to a projection that passed validation.  A crash,   *)
(* a failed replacement and a recovery are invisible.                      *)
(***************************************************************************)
CONSTANTS Path, Data, Absent, Valid

VARIABLE visible

Content == [Path -> Data \cup {Absent}]

\* A root starts with a valid projection, or empty: the target of a clone.
Init == visible \in Valid \cup {[p \in Path |-> Absent]}

\* The engine saves (or deletes) one file.
Save(p, d) == visible' = [visible EXCEPT ![p] = d]

\* A validated projection takes the place of the whole content.
Replace(new) == visible' = new

Next == \/ \E p \in Path, d \in Data \cup {Absent} : Save(p, d)
        \/ \E new \in Valid : Replace(new)

Spec == Init /\ [][Next]_visible
================================================================================
