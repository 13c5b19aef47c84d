----------------------------- MODULE MCProcess -----------------------------
(***************************************************************************)
(* Instances of Process for TLC: values for its function-valued constants. *)
(***************************************************************************)
EXTENDS Process

CONSTANTS P1, P2, P3

Of(v) == [p \in Pid |-> v]

AllVectors == Of("vector")
AllMatrix  == Of("matrix")

AllImmediate  == Of("immediate")
AllCausal     == Of("causal")
ThirdImmediate == [p \in Pid |-> IF p = P3 THEN "immediate" ELSE "causal"]

\* Spawned one after the other: each knows those spawned before it.
SpawnOrder == [p \in Pid |-> CASE p = P1 -> {P1}
                               [] p = P2 -> {P1, P2}
                               [] OTHER -> Pid]

NoPeers == Of(<<>>)
\* P1 was spawned first and was told of the others when they were.
PeersOfP1 == [p \in Pid |-> IF p = P1 THEN <<P2, P3>> ELSE <<>>]

OneLink   == {<<P1, P2>>}
SelfAndBack == {<<P1, P1>>, <<P2, P3>>, <<P3, P1>>}
Reply     == {<<P1, P2>>, <<P2, P3>>}
Fan       == {<<P1, P2>>, <<P1, P3>>, <<P3, P2>>}
=============================================================================
