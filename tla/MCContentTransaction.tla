-------------------------- MODULE MCContentTransaction --------------------------
(* An instance of ContentTransaction: studio.yaml and one slide pair.      *)
EXTENDS ContentTransaction

CONSTANTS studio, html, md

MCPath == {studio, html, md}

\* ValidateCloudContent on these paths: studio.yaml, and paired slide files.
MCValid ==
  {c \in [MCPath -> Data \cup {Absent}] :
     /\ c[studio] # Absent
     /\ c[html] = Absent <=> c[md] = Absent}
================================================================================
