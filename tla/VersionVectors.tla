--------------------------- MODULE VersionVectors ---------------------------
(***************************************************************************)
(* The timestamps of data, next to the clocks of events: version vectors   *)
(* (internal/clock/version), dotted version vectors (internal/clock/dvv)   *)
(* and the differences of vector clocks (internal/clock/vector/diff.go).   *)
(* As in VectorClock an absent entry is a zero entry; likewise a nil Dot   *)
(* is a dot with Counter 0, which ToVV ignores too.                        *)
(***************************************************************************)
EXTENDS VectorClock

\* Diff: the entries of current that are higher than in prev.
Diff(prev, current) == [k \in {j \in Pid : current[j] > prev[j]} |-> current[k]]

\* Apply: the higher of the two for every entry of the difference.
Apply(base, diff) ==
    [k \in Pid |-> IF k \in DOMAIN diff /\ diff[k] > base[k] THEN diff[k] ELSE base[k]]

\* version.Update: a write at the replica.
Update(vv, replicaID) == [vv EXCEPT ![replicaID] = @ + 1]

\* version.Sync: what vv is to other.
VVSync(vv, other) ==
    LET selfGreater == \E k \in Pid : vv[k] > other[k]
        otherGreater == \E k \in Pid : other[k] > vv[k]
    IN  CASE selfGreater /\ otherGreater -> "Conflict"
          [] ~selfGreater /\ ~otherGreater -> "Equal"
          [] selfGreater /\ ~otherGreater -> "Dominates"
          [] OTHER -> "Dominated"

DVV == [Vector : Clock, Dot : [Replica : Pid, Counter : Nat]]

NewDVV(serverID, serverClock) ==
    [Vector |-> New, Dot |-> [Replica |-> serverID, Counter |-> serverClock]]

\* The dot folded into the vector.
ToVV(d) ==
    [k \in Pid |-> IF k = d.Dot.Replica /\ d.Vector[k] < d.Dot.Counter
                   THEN d.Dot.Counter ELSE d.Vector[k]]

UpdateDVV(old, serverID, serverClock) ==
    [Vector |-> ToVV(old), Dot |-> [Replica |-> serverID, Counter |-> serverClock]]

Dominates(a, b) == \A k \in Pid : ToVV(a)[k] >= ToVV(b)[k]

\* dvv.Sync on the set of the siblings: what the incoming entry does not dominate
\* survives, and it is added unless a survivor dominates it.
Sync(siblings, incoming) ==
    LET survivors == {e \in siblings : ~Dominates(incoming.DVV, e.DVV)}
    IN  IF \E s \in survivors : Dominates(s.DVV, incoming.DVV)
        THEN survivors
        ELSE survivors \cup {incoming}
=============================================================================
