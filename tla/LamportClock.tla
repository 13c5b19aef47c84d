---------------------------- MODULE LamportClock ----------------------------
(***************************************************************************)
(* The scalar clock of internal/clock/lamport.  Each method runs under the *)
(* clock's own mutex, so it is one operator on the value.                  *)
(***************************************************************************)
EXTENDS Naturals

\* LamportClock.Tick (LC1), and Send (LC2), which calls it.
Tick(value) == value + 1

\* Mutant of Receive: a larger stamp is taken over without the tick.
ReceiveNoTick(value, msgTimestamp) ==
    IF msgTimestamp > value THEN msgTimestamp ELSE value + 1

\* LamportClock.Receive (LC3): maximum with the stamp, then one tick.
Receive(value, msgTimestamp) ==
    (IF msgTimestamp > value THEN msgTimestamp ELSE value) + 1
=============================================================================
