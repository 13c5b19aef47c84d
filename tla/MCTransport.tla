---------------------------- MODULE MCTransport ----------------------------
(***************************************************************************)
(* Instances of Transport for TLC: two processes.                          *)
(***************************************************************************)
EXTENDS Transport

CONSTANTS P1, P2

OneWay   == {<<P1, P2>>}
Split    == {{}, {{P1}, {P2}}}
=============================================================================
