----------------------------- MODULE MCSnapshot -----------------------------
(***************************************************************************)
(* Instances of Snapshot for TLC.                                          *)
(***************************************************************************)
EXTENDS Snapshot

CONSTANTS P1, P2, P3

Mesh    == {l \in Pid \X Pid : l[1] # l[2]}
Line    == {<<P1, P2>>, <<P2, P3>>}
Back    == {<<P2, P1>>}
NoLinks == {}
=============================================================================
