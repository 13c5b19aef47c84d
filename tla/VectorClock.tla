---------------------------- MODULE VectorClock ----------------------------
(***************************************************************************)
(* The operations of internal/clock/vector and the delivery condition of   *)
(* internal/process/holdback.go.  A VectorClock is a Go map in which a     *)
(* missing key reads as 0; every operation below treats an absent and a    *)
(* zero entry alike, so a clock is a total function here and a nil map is  *)
(* the zero clock.  Counters are uint64 and are never near 2^64: they are  *)
(* natural numbers.                                                        *)
(***************************************************************************)
EXTENDS Naturals

CONSTANT Pid    \* the process identifiers that can occur as keys

Clock == [Pid -> Nat]

\* vector.New: every counter zero (also what a nil map reads as).
New == [k \in Pid |-> 0]

\* vector.Tick (VC1) and the local half of vector.Send (VC2).
Tick(vc, pid) == [vc EXCEPT ![pid] = @ + 1]

\* vector.MergePassive: pointwise maximum, no tick.
MergePassive(a, b) == [k \in Pid |-> IF a[k] < b[k] THEN b[k] ELSE a[k]]

\* Mutant of Receive: the receipt does not count as an event.
ReceiveNoTick(local, msgVC, pid) == MergePassive(local, msgVC)

\* vector.Receive (VC3): merge first, then tick the receiver's component.
Receive(local, msgVC, pid) == Tick(MergePassive(local, msgVC), pid)

\* Mutant of Compare: one smaller component is enough.
CompareAny(a, b) ==
    IF \E k \in Pid : a[k] < b[k] THEN "HappenedBefore" ELSE "HappenedAfter"

\* vector.Compare: the causal order of two timestamps.
Compare(a, b) ==
    LET aLessB == \E k \in Pid : a[k] < b[k]
        bLessA == \E k \in Pid : b[k] < a[k]
    IN  CASE ~aLessB /\ ~bLessA -> "Identical"
          [] aLessB /\ ~bLessA -> "HappenedBefore"
          [] bLessA /\ ~aLessB -> "HappenedAfter"
          [] OTHER -> "Concurrent"

\* Mutants of canDeliver: a gap in the sender's events passes; an old message
\* passes; the other components must be equal.
canDeliverNewer(msgVC, sender, localVC) ==
    /\ msgVC[sender] > localVC[sender]
    /\ \A k \in Pid \ {sender} : msgVC[k] <= localVC[k]

canDeliverOld(msgVC, sender, localVC) ==
    /\ msgVC[sender] <= localVC[sender] + 1
    /\ \A k \in Pid \ {sender} : msgVC[k] <= localVC[k]

canDeliverEqual(msgVC, sender, localVC) ==
    /\ msgVC[sender] = localVC[sender] + 1
    /\ \A k \in Pid \ {sender} : msgVC[k] = localVC[k]

\* canDeliver: m is the next event of its sender, and nothing else it depends
\* on is unknown here.
canDeliver(msgVC, sender, localVC) ==
    /\ msgVC[sender] = localVC[sender] + 1
    /\ \A k \in Pid \ {sender} : msgVC[k] <= localVC[k]
=============================================================================
