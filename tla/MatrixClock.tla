---------------------------- MODULE MatrixClock ----------------------------
(***************************************************************************)
(* The matrix clock of internal/clock/matrix.  MT[k][j] is what is known   *)
(* of how many events of j process k knows.  The Go value is a map of maps *)
(* whose missing entries read as 0, but MinKnowledge ranges over the rows  *)
(* that are present, so the set of present rows is part of the clock.      *)
(***************************************************************************)
EXTENDS Naturals

CONSTANT Pid

Clock == [rows : SUBSET Pid, MT : [Pid -> [Pid -> Nat]]]

\* matrix.New(pids): one zero row per known process.
New(pids) == [rows |-> pids, MT |-> [k \in Pid |-> [j \in Pid |-> 0]]]

\* matrix.Tick (MC1), and the local half of matrix.Send (MC2).
Tick(mc, self) ==
    [rows |-> mc.rows \cup {self},
     MT   |-> [mc.MT EXCEPT ![self][self] = @ + 1]]

RowMax(a, b) == [j \in Pid |-> IF a[j] < b[j] THEN b[j] ELSE a[j]]

\* Mutant of Receive: what the sender knows is credited to every row.
ReceiveIntoAll(local, incoming, self, sender) ==
    LET ticked == Tick(local, self)
    IN  [rows |-> ticked.rows \cup incoming.rows,
         MT   |-> [k \in Pid |-> RowMax(ticked.MT[k], incoming.MT[sender])]]

\* matrix.Receive (MC3): tick, merge the sender's row into the own row, and
\* every row of the incoming matrix but the own one into the same row here.
Receive(local, incoming, self, sender) ==
    LET ticked == Tick(local, self)
        from   == IF sender \in incoming.rows THEN incoming.MT[sender]
                                              ELSE [j \in Pid |-> 0]
    IN  [rows |-> ticked.rows \cup incoming.rows,
         MT   |-> [k \in Pid |->
                     IF k = self THEN RowMax(ticked.MT[k], from)
                     ELSE IF k \in incoming.rows
                          THEN RowMax(ticked.MT[k], incoming.MT[k])
                          ELSE ticked.MT[k]]]

\* Mutant of CanGC: it is enough that somebody knows.
CanGCMax(mc, pid, upTo) == \E k \in mc.rows : mc.MT[k][pid] >= upTo

\* matrix.CanGC(mc, pid, upTo): MinKnowledge(mc, pid) >= upTo, where
\* MinKnowledge is the minimum of column pid over the rows that are present,
\* and 0 when there is none.
CanGC(mc, pid, upTo) ==
    IF mc.rows = {} THEN upTo = 0
                    ELSE \A k \in mc.rows : mc.MT[k][pid] >= upTo
=============================================================================
