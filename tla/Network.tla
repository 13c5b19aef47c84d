------------------------------ MODULE Network ------------------------------
(***************************************************************************)
(* What the processes and the snapshot coordinator may assume of the       *)
(* simulated network, whatever faults are injected: per pair of processes  *)
(* a bounded queue that only grows at its end and is handed over from its  *)
(* front, and a set of messages held back that join a queue later.  A call *)
(* of Send never waits.  A message may be lost while it is offered or held *)
(* back and never once it is in a queue; one that is held back may join    *)
(* its queue more than once.  Nothing joins a queue that was not offered.  *)
(***************************************************************************)
EXTENDS Naturals, Sequences

CONSTANTS
    Key,        \* the directed channels <<from, to>>
    Message,    \* the messages that can be sent: records with from, to
    ChanCap     \* capacity of a channel

VARIABLES
    offered,    \* messages handed to a call of Send that has not disposed of it
    queue,      \* queue[k]: the messages in channel k
    late,       \* messages held back
    inhand,     \* inhand[k]: what the forwarder of k is handing over
    handed,     \* handed[k]: everything handed over so far, in order
    past        \* everything ever offered

vars == <<offered, queue, late, inhand, handed, past>>

KeyOf(m) == <<m.from, m.to>>

Init ==
    /\ offered = {}
    /\ queue = [k \in Key |-> <<>>]
    /\ late = {}
    /\ inhand = [k \in Key |-> {}]
    /\ handed = [k \in Key |-> <<>>]
    /\ past = {}

Offer(m) ==
    /\ m \notin past
    /\ offered' = offered \cup {m}
    /\ past' = past \cup {m}
    /\ UNCHANGED <<queue, late, inhand, handed>>

Join(m) ==
    /\ Len(queue[KeyOf(m)]) < ChanCap
    /\ queue' = [queue EXCEPT ![KeyOf(m)] = Append(@, m)]
    /\ UNCHANGED <<inhand, handed, past>>

Accept(m) ==
    /\ m \in offered
    /\ Join(m)
    /\ offered' = offered \ {m}
    /\ UNCHANGED late

\* Refused with an error, or discarded; what is held back may go with it.
Lose(m) ==
    /\ m \in offered
    /\ offered' = offered \ {m}
    /\ late' \in SUBSET late
    /\ UNCHANGED <<queue, inhand, handed, past>>

\* Held back, perhaps in the place of another message.
Hold(m) ==
    /\ m \in offered
    /\ offered' = offered \ {m}
    /\ late' \in {S \cup {m} : S \in SUBSET late}
    /\ UNCHANGED <<queue, inhand, handed, past>>

Release(m) ==
    /\ m \in late
    /\ Join(m)
    /\ late' \in {late, late \ {m}}
    /\ UNCHANGED offered

Forget ==
    /\ late' \in SUBSET late
    /\ UNCHANGED <<offered, queue, inhand, handed, past>>

Take(k) ==
    /\ queue[k] # <<>>
    /\ inhand[k] = {}
    /\ inhand' = [inhand EXCEPT ![k] = {Head(queue[k])}]
    /\ queue' = [queue EXCEPT ![k] = Tail(@)]
    /\ UNCHANGED <<offered, late, handed, past>>

HandOver(k) ==
    \E m \in inhand[k] :
        /\ handed' = [handed EXCEPT ![k] = Append(@, m)]
        /\ inhand' = [inhand EXCEPT ![k] = {}]
        /\ UNCHANGED <<offered, queue, late, past>>

Next ==
    \/ \E m \in Message : Offer(m) \/ Accept(m) \/ Lose(m) \/ Hold(m) \/ Release(m)
    \/ Forget
    \/ \E k \in Key : Take(k) \/ HandOver(k)

Spec == Init /\ [][Next]_vars
=============================================================================
