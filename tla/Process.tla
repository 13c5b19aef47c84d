------------------------------ MODULE Process ------------------------------
(***************************************************************************)
(* The simulated processes of internal/process: their clocks, the API      *)
(* calls that tick them, and the delivery of messages, immediate or causal *)
(* (Birman-Schiper-Stephenson, with a hold-back queue).                    *)
(*                                                                         *)
(* Goroutines and atomicity.  Process.mu protects the clocks.  The callers *)
(* of the API (Caller) stamp a message under p.mu and hand it to the       *)
(* transport after unlocking.  One forwarder per channel moves messages    *)
(* into the receiver's inbound queue.  The run goroutine of the receiver   *)
(* reads the mode and copies its clock, unlocks, and then acts on that     *)
(* copy.  TryDeliver runs with p.mu held: each of its iterations is a step *)
(* here and Free(p) keeps everybody else off p meanwhile.                  *)
(*                                                                         *)
(* The transport is abstract: what XportSend may do with a message is what *)
(* SimTransport does with its faults.                                      *)
(***************************************************************************)
EXTENDS Naturals, Sequences, FiniteSets

CONSTANTS
    Pid,          \* the processes, all spawned
    Caller,       \* concurrent API calls
    ClockType,    \* [Pid -> {"lamport", "vector", "matrix"}], cfg.ClockType
    AllPIDs,      \* [Pid -> SUBSET Pid], cfg.AllPIDs: who existed at spawn
    Peers,        \* [Pid -> Seq(Pid)], cfg.Peers: whom Broadcast reaches
    InitMode,     \* [Pid -> Mode], cfg.DeliveryMode
    SwitchTo,     \* the modes SetDeliveryMode is called with
    Links,        \* the pairs <<from, to>> Send is called with
    Ticking,      \* the processes InternalEvent is called on
    Faults,       \* the faults injected: SUBSET {"drop", "delay", "dup"}
    MaxSends,     \* bound: messages sent in all
    MaxTicks,     \* bound: no internal event at a process with that many events
    ChanCap,      \* ChannelBufferSize: capacity of a transport channel
    InboundCap    \* capacity of Process.inbound

Mode == {"immediate", "causal", "total_order"}

ASSUME ConstantsAssumption ==
    /\ ClockType \in [Pid -> {"lamport", "vector", "matrix"}]
    /\ AllPIDs \in [Pid -> SUBSET Pid]
    /\ Peers \in [Pid -> Seq(Pid)]
    /\ InitMode \in [Pid -> Mode]
    /\ SwitchTo \subseteq Mode
    /\ Links \subseteq Pid \X Pid
    /\ Ticking \subseteq Pid

vector  == INSTANCE VectorClock
lamport == INSTANCE LamportClock
matrix  == INSTANCE MatrixClock

VARIABLES
    lamportClock, vectorClock, matrixClock,  \* the clocks of each process
    mode,         \* cfg.DeliveryMode of each process
    hbq,          \* HoldBackQueue.pending of each process
    flushing,     \* the processes inside TryDeliver, holding their p.mu
    cur,          \* what each run goroutine is handling: at most one record
    inbound,      \* Process.inbound
    chan,         \* the transport's FIFO channel from a process to another
    late,         \* messages the transport holds back (delay, reorder buffer)
    sending,      \* message each caller has stamped and not yet handed over
    todo,         \* rest of each caller's Broadcast: pairs <<from, to>>
    \* History, read by no guard of the code:
    ticks,        \* events of each process so far
    past,         \* each process's causal past: a set of events <<p, n>>
    log,          \* every event with its own past and timestamps
    sent,         \* every message ever stamped
    delivered,    \* ids of the messages delivered to each process
    receipts,     \* how many deliveries each process has made
    alwaysCausal  \* the processes that were never in immediate mode

clocks  == <<lamportClock, vectorClock, matrixClock>>
network == <<chan, late>>
calls   == <<sending, todo>>
history == <<ticks, past, log>>
vars == <<clocks, mode, hbq, flushing, cur, inbound, network, calls,
          history, sent, delivered, receipts, alwaysCausal>>

EventId == Pid \X Nat

Message == [id : EventId, from : Pid, to : Pid, SentVC : vector!Clock,
            SentLC : Nat, SentMatrix : matrix!Clock, past : SUBSET EventId]

Contents(s) == {s[i] : i \in 1..Len(s)}

Free(p) == p \notin flushing     \* p.mu can be acquired

Causal(md) == md \in {"causal", "total_order"}

-----------------------------------------------------------------------------
(* Clocks. *)

tickClock(p) ==
    /\ lamportClock' = IF ClockType[p] = "lamport"
                       THEN [lamportClock EXCEPT ![p] = lamport!Tick(@)]
                       ELSE lamportClock
    /\ vectorClock' = IF ClockType[p] = "vector"
                      THEN [vectorClock EXCEPT ![p] = vector!Tick(@, p)]
                      ELSE vectorClock
    /\ matrixClock' = IF ClockType[p] = "matrix"
                      THEN [matrixClock EXCEPT ![p] = matrix!Tick(@, p)]
                      ELSE matrixClock

receiveClock(p, m) ==
    /\ lamportClock' = IF ClockType[p] = "lamport"
                       THEN [lamportClock EXCEPT ![p] = lamport!Receive(@, m.SentLC)]
                       ELSE lamportClock
    /\ vectorClock' = IF ClockType[p] = "vector"
                      THEN [vectorClock EXCEPT ![p] = vector!Receive(@, m.SentVC, p)]
                      ELSE vectorClock
    /\ matrixClock' = IF ClockType[p] = "matrix"
                      THEN [matrixClock EXCEPT
                              ![p] = matrix!Receive(@, m.SentMatrix, p, m.from)]
                      ELSE matrixClock

\* The history of one event of p that learns of the events in seen: its
\* timestamps are the clocks after the step.
Happens(p, seen) ==
    LET id == <<p, ticks[p] + 1>> IN
    /\ ticks' = [ticks EXCEPT ![p] = @ + 1]
    /\ past' = [past EXCEPT ![p] = (@ \cup seen) \cup {id}]
    /\ log' = log \cup {[id |-> id, past |-> past[p] \cup seen,
                         lc |-> lamportClock'[p], vc |-> vectorClock'[p]]}

-----------------------------------------------------------------------------
(* The API: InternalEvent, Send, Broadcast, SetDeliveryMode. *)

Init ==
    /\ lamportClock = [p \in Pid |-> 0]
    /\ vectorClock = [p \in Pid |-> vector!New]
    /\ matrixClock = [p \in Pid |-> matrix!New(IF ClockType[p] = "matrix"
                                               THEN AllPIDs[p] ELSE {})]
    /\ mode = InitMode
    /\ hbq = [p \in Pid |-> <<>>]
    /\ flushing = {}
    /\ cur = [p \in Pid |-> {}]
    /\ inbound = [p \in Pid |-> <<>>]
    /\ chan = [p \in Pid |-> [q \in Pid |-> <<>>]]
    /\ late = {}
    /\ sending = [c \in Caller |-> {}]
    /\ todo = [c \in Caller |-> <<>>]
    /\ ticks = [p \in Pid |-> 0]
    /\ past = [p \in Pid |-> {}]
    /\ log = {}
    /\ sent = {}
    /\ delivered = [p \in Pid |-> {}]
    /\ receipts = [p \in Pid |-> 0]
    /\ alwaysCausal = {p \in Pid : Causal(InitMode[p])}

InternalEvent(p) ==
    /\ p \in Ticking
    /\ ticks[p] < MaxTicks
    /\ Free(p)
    /\ tickClock(p)
    /\ Happens(p, {})
    /\ UNCHANGED <<mode, hbq, flushing, cur, inbound, network, calls, sent,
                   delivered, receipts, alwaysCausal>>

\* The locked part of Process.Send: tick, stamp.  A stamp of a type the sender
\* has no clock for is nil, i.e. zero.
Stamp(c, p, q) ==
    LET m == [id |-> <<p, ticks[p] + 1>>, from |-> p, to |-> q,
              SentVC |-> IF ClockType[p] = "vector" THEN vectorClock'[p]
                                                    ELSE vector!New,
              SentLC |-> lamportClock'[p],
              SentMatrix |-> IF ClockType[p] = "matrix" THEN matrixClock'[p]
                                                        ELSE matrix!New({}),
              past |-> past[p] \cup {<<p, ticks[p] + 1>>}]
    IN  /\ Cardinality(sent) < MaxSends
        /\ sending[c] = {}
        /\ Free(p)
        /\ tickClock(p)
        /\ Happens(p, {})
        /\ sending' = [sending EXCEPT ![c] = {m}]
        /\ sent' = sent \cup {m}
        /\ UNCHANGED <<mode, hbq, flushing, cur, inbound, network, delivered,
                       receipts, alwaysCausal>>

Send(c, p, q) ==
    /\ todo[c] = <<>>
    /\ <<p, q>> \in Links
    /\ Stamp(c, p, q)
    /\ UNCHANGED todo

\* Broadcast is one Send per peer, in the order of cfg.Peers.
Broadcast(c, p) ==
    /\ todo[c] = <<>>
    /\ Peers[p] # <<>>
    /\ Stamp(c, p, Head(Peers[p]))
    /\ todo' = [todo EXCEPT ![c] = [i \in 1..Len(Tail(Peers[p])) |->
                                      <<p, Tail(Peers[p])[i]>>]]

BroadcastNext(c) ==
    /\ todo[c] # <<>>
    /\ Stamp(c, Head(todo[c])[1], Head(todo[c])[2])
    /\ todo' = [todo EXCEPT ![c] = Tail(@)]

SetDeliveryMode(p, md) ==
    /\ md \in SwitchTo
    /\ md # mode[p]
    /\ Free(p)
    /\ mode' = [mode EXCEPT ![p] = md]
    /\ alwaysCausal' = IF Causal(md) THEN alwaysCausal ELSE alwaysCausal \ {p}
    /\ UNCHANGED <<clocks, hbq, flushing, cur, inbound, network, calls, history,
                   sent, delivered, receipts>>

-----------------------------------------------------------------------------
(* The transport, as the processes see it (external to this module). *)

Hand(c) == sending' = [sending EXCEPT ![c] = {}]

\* SimTransport.Send puts the message on its channel; returns nil.
XportSend(c) ==
    \E m \in sending[c] :
        /\ m.from # m.to
        /\ Len(chan[m.from][m.to]) < ChanCap
        /\ chan' = [chan EXCEPT ![m.from][m.to] = Append(@, m)]
        /\ late' \in {late} \cup (IF "dup" \in Faults THEN {late \cup {m}} ELSE {})
        /\ Hand(c)
        /\ UNCHANGED <<clocks, mode, hbq, flushing, cur, inbound, todo, history,
                       sent, delivered, receipts, alwaysCausal>>

\* It fails (no such channel, or the channel is full): the message is gone,
\* the clock stays ticked, and a Broadcast stops here.
XportFail(c) ==
    \E m \in sending[c] :
        /\ m.from = m.to \/ Len(chan[m.from][m.to]) >= ChanCap
        /\ Hand(c)
        /\ todo' = [todo EXCEPT ![c] = <<>>]
        /\ UNCHANGED <<clocks, mode, hbq, flushing, cur, inbound, network,
                       history, sent, delivered, receipts, alwaysCausal>>

\* An injected drop or a partition discards it and returns nil.
XportDrop(c) ==
    /\ "drop" \in Faults
    /\ \E m \in sending[c] : m.from # m.to
    /\ Hand(c)
    /\ UNCHANGED <<clocks, mode, hbq, flushing, cur, inbound, network, todo,
                   history, sent, delivered, receipts, alwaysCausal>>

\* An injected delay or reordering keeps it for later and returns nil.
XportDelay(c) ==
    /\ "delay" \in Faults
    /\ \E m \in sending[c] : m.from # m.to /\ late' = late \cup {m}
    /\ Hand(c)
    /\ UNCHANGED <<clocks, mode, hbq, flushing, cur, inbound, chan, todo,
                   history, sent, delivered, receipts, alwaysCausal>>

\* A delayed message reaches its channel.
XportRelease(m) ==
    /\ Len(chan[m.from][m.to]) < ChanCap
    /\ chan' = [chan EXCEPT ![m.from][m.to] = Append(@, m)]
    /\ late' = late \ {m}
    /\ UNCHANGED <<clocks, mode, hbq, flushing, cur, inbound, calls, history,
                   sent, delivered, receipts, alwaysCausal>>

\* SimTransport.forward and Process.Deliver, which waits for room in inbound.
Forward(p, q) ==
    /\ chan[p][q] # <<>>
    /\ Len(inbound[q]) < InboundCap
    /\ chan' = [chan EXCEPT ![p][q] = Tail(@)]
    /\ inbound' = [inbound EXCEPT ![q] = Append(@, Head(chan[p][q]))]
    /\ UNCHANGED <<clocks, mode, hbq, flushing, cur, late, calls, history, sent,
                   delivered, receipts, alwaysCausal>>

-----------------------------------------------------------------------------
(* The run goroutine: handleMessage and the two delivery paths. *)

\* Takes a message, reads the mode and copies the clock, each under p.mu,
\* which is free again when the step ends.
handleMessage(p) ==
    /\ cur[p] = {}
    /\ Free(p)
    /\ inbound[p] # <<>>
    /\ cur' = [cur EXCEPT ![p] = {[msg |-> Head(inbound[p]), mode |-> mode[p],
                                   localVC |-> vectorClock[p]]}]
    /\ inbound' = [inbound EXCEPT ![p] = Tail(@)]
    /\ UNCHANGED <<clocks, mode, hbq, flushing, network, calls, history, sent,
                   delivered, receipts, alwaysCausal>>

\* The history of delivering m to p.
Deliver(p, m) ==
    /\ Happens(p, m.past)
    /\ delivered' = [delivered EXCEPT ![p] = @ \cup {m.id}]
    /\ receipts' = [receipts EXCEPT ![p] = @ + 1]

deliverImmediate(p) ==
    \E h \in cur[p] :
        /\ ~Causal(h.mode)
        /\ receiveClock(p, h.msg)
        /\ Deliver(p, h.msg)
        /\ cur' = [cur EXCEPT ![p] = {}]
        /\ UNCHANGED <<mode, hbq, flushing, inbound, network, calls, sent,
                       alwaysCausal>>

\* deliverCausal when its check on the copied clock succeeds: the receipt, up
\* to the call of TryDeliver, which keeps p.mu.
deliverCausal(p) ==
    \E h \in cur[p] :
        /\ Causal(h.mode)
        /\ vector!canDeliver(h.msg.SentVC, h.msg.from, h.localVC)
        /\ vectorClock' = [vectorClock EXCEPT
                             ![p] = vector!Receive(@, h.msg.SentVC, p)]
        /\ UNCHANGED <<lamportClock, matrixClock>>
        /\ Deliver(p, h.msg)
        /\ cur' = [cur EXCEPT ![p] = {}]
        /\ flushing' = flushing \cup {p}
        /\ UNCHANGED <<mode, hbq, inbound, network, calls, sent, alwaysCausal>>

\* Mutant of Enqueue: what was copied along with the message is queued too.
EnqueueHandling(p) ==
    \E h \in cur[p] :
        /\ Causal(h.mode)
        /\ ~vector!canDeliver(h.msg.SentVC, h.msg.from, h.localVC)
        /\ hbq' = [hbq EXCEPT ![p] = Append(@, h)]
        /\ cur' = [cur EXCEPT ![p] = {}]
        /\ UNCHANGED <<clocks, mode, flushing, inbound, network, calls, history,
                       sent, delivered, receipts, alwaysCausal>>

\* deliverCausal when the check fails: HoldBackQueue.Enqueue.
Enqueue(p) ==
    \E h \in cur[p] :
        /\ Causal(h.mode)
        /\ ~vector!canDeliver(h.msg.SentVC, h.msg.from, h.localVC)
        /\ hbq' = [hbq EXCEPT ![p] = Append(@, h.msg)]
        /\ cur' = [cur EXCEPT ![p] = {}]
        /\ UNCHANGED <<clocks, mode, flushing, inbound, network, calls, history,
                       sent, delivered, receipts, alwaysCausal>>

\* The pop of TryDeliver: the last element takes the place of the i-th.
SwapRemove(s, i) == [j \in 1..(Len(s) - 1) |-> IF j = i THEN s[Len(s)] ELSE s[j]]

\* The merge TryDeliver writes out: the sender's component is assigned, the
\* others are raised, and the own component ticks.
HeldReceive(local, msgVC, sender, self) ==
    vector!Tick([k \in Pid |-> IF k = sender \/ msgVC[k] > local[k]
                               THEN msgVC[k] ELSE local[k]], self)

\* One iteration of TryDeliver: the first deliverable message of the queue.
TryDeliver(p) ==
    /\ p \in flushing
    /\ \E i \in 1..Len(hbq[p]) :
          LET m == hbq[p][i] IN
          /\ vector!canDeliver(m.SentVC, m.from, vectorClock[p])
          /\ \A j \in 1..(i - 1) :
                ~vector!canDeliver(hbq[p][j].SentVC, hbq[p][j].from, vectorClock[p])
          /\ vectorClock' = [vectorClock EXCEPT
                               ![p] = HeldReceive(@, m.SentVC, m.from, p)]
          /\ UNCHANGED <<lamportClock, matrixClock>>
          /\ Deliver(p, m)
          /\ hbq' = [hbq EXCEPT ![p] = SwapRemove(@, i)]
    /\ UNCHANGED <<mode, flushing, cur, inbound, network, calls, sent,
                   alwaysCausal>>

\* Mutant of TryDeliverReturn: it returns without another scan.
TryDeliverOnce(p) ==
    /\ p \in flushing
    /\ flushing' = flushing \ {p}
    /\ UNCHANGED <<clocks, mode, hbq, cur, inbound, network, calls, history,
                   sent, delivered, receipts, alwaysCausal>>

\* The scan that finds nothing ends TryDeliver; p.mu is released.
TryDeliverReturn(p) ==
    /\ p \in flushing
    /\ \A i \in 1..Len(hbq[p]) :
          ~vector!canDeliver(hbq[p][i].SentVC, hbq[p][i].from, vectorClock[p])
    /\ flushing' = flushing \ {p}
    /\ UNCHANGED <<clocks, mode, hbq, cur, inbound, network, calls, history,
                   sent, delivered, receipts, alwaysCausal>>

\* HoldBackQueue.BlockedBy, for one held message.
BlockedBy(p, m) ==
    {k \in Pid : m.SentVC[k] > vectorClock[p][k] + (IF k = m.from THEN 1 ELSE 0)}

-----------------------------------------------------------------------------
FinishSend(c) == XportSend(c) \/ XportFail(c) \/ XportDrop(c) \/ XportDelay(c)

CallerStep(c) ==
    \/ \E p, q \in Pid : Send(c, p, q)
    \/ \E p \in Pid : Broadcast(c, p)
    \/ BroadcastNext(c)
    \/ FinishSend(c)

RunStep(p) ==
    \/ handleMessage(p)
    \/ deliverImmediate(p)
    \/ deliverCausal(p)
    \/ Enqueue(p)
    \/ TryDeliver(p)
    \/ TryDeliverReturn(p)

Next ==
    \/ \E p \in Pid : InternalEvent(p)
    \/ \E p \in Pid, md \in Mode : SetDeliveryMode(p, md)
    \/ \E c \in Caller : CallerStep(c)
    \/ \E m \in late : XportRelease(m)
    \/ \E p, q \in Pid : Forward(p, q)
    \/ \E p \in Pid : RunStep(p)

Spec == Init /\ [][Next]_vars

\* Every goroutine that has work keeps running: a caller finishes the Send it
\* began, a delay expires, forwarders and run goroutines are never starved.
\* No API call is ever forced to begin.
FairSpec ==
    /\ Spec
    /\ \A c \in Caller : WF_vars(FinishSend(c)) /\ WF_vars(BroadcastNext(c))
    /\ WF_vars(\E m \in late : XportRelease(m))
    /\ \A p, q \in Pid : WF_vars(Forward(p, q))
    /\ \A p \in Pid : WF_vars(RunStep(p))

-----------------------------------------------------------------------------
(* Properties. *)

Handling == [msg : Message, mode : Mode, localVC : vector!Clock]

Event == [id : EventId, past : SUBSET EventId, lc : Nat, vc : vector!Clock]

\* The type of every variable.
TypeOK ==
    /\ lamportClock \in [Pid -> Nat]
    /\ vectorClock \in [Pid -> vector!Clock]
    /\ matrixClock \in [Pid -> matrix!Clock]
    /\ mode \in [Pid -> Mode]
    /\ hbq \in [Pid -> Seq(Message)]
    /\ flushing \in SUBSET Pid
    /\ cur \in [Pid -> SUBSET Handling]
    /\ inbound \in [Pid -> Seq(Message)]
    /\ chan \in [Pid -> [Pid -> Seq(Message)]]
    /\ late \in SUBSET Message
    /\ sending \in [Caller -> SUBSET Message]
    /\ todo \in [Caller -> Seq(Pid \X Pid)]
    /\ ticks \in [Pid -> Nat]
    /\ past \in [Pid -> SUBSET EventId]
    /\ log \in SUBSET Event
    /\ sent \in SUBSET Message
    /\ delivered \in [Pid -> SUBSET EventId]
    /\ receipts \in [Pid -> Nat]
    /\ alwaysCausal \in SUBSET Pid

AllVector == \A p \in Pid : ClockType[p] = "vector"
AllLamport == \A p \in Pid : ClockType[p] = "lamport"

\* The events a vector timestamp stands for.
EventsOf(vc) == UNION {{<<q, n>> : n \in 1..vc[q]} : q \in Pid}

\* Whatever the delivery mode, the faults and the interleaving, the vector
\* clock of a process counts exactly the events in its causal past, and the
\* stamp of a message the past of its sending: Tick, Send, Receive and the
\* merge written out in TryDeliver never invent and never miss an event.
ClockIsCausalPast ==
    AllVector =>
        /\ \A p \in Pid : past[p] = EventsOf(vectorClock[p])
        /\ \A m \in sent : m.past = EventsOf(m.SentVC)

\* vector.Compare on the timestamps of any two events answers exactly whether
\* one happened before the other (Fidge/Mattern strong clock consistency).
CompareIsHappenedBefore ==
    AllVector =>
        \A e, f \in log :
            e.id \in f.past <=> vector!Compare(e.vc, f.vc) = "HappenedBefore"

\* Lamport's clock condition over sends, receipts and internal events: an
\* event that happened before another has the smaller LamportClock value.
LamportClockCondition ==
    AllLamport => \A e, f \in log : e.id \in f.past => e.lc < f.lc

\* Causal delivery: a process that was never in immediate mode has not
\* received a message before one that another process sent to it in that
\* message's causal past, whatever is lost, delayed, duplicated or concurrent.
CausalOrder ==
    AllVector =>
        \A p \in alwaysCausal : \A m, n \in sent :
            m.id \in delivered[p] /\ n.to = p /\ n.from # p /\ n.id \in m.past
                => n.id \in delivered[p]

\* ... and receives each message at most once, even if the transport
\* duplicates it: canDeliver rejects the copy.
DeliveredAtMostOnce ==
    AllVector =>
        \A p \in alwaysCausal : Cardinality(delivered[p]) = receipts[p]

\* deliverCausal checks canDeliver on a copy of the clock taken before p.mu was
\* released and acts on the current clock.  The verdict is never stale: calls
\* that ticked p in between do not change it.
VerdictNotStale ==
    AllVector =>
        \A p \in Pid : \A h \in cur[p] :
            vector!canDeliver(h.msg.SentVC, h.msg.from, h.localVC)
                <=> vector!canDeliver(h.msg.SentVC, h.msg.from, vectorClock[p])

\* No message is left behind: outside TryDeliver, a process that was never in
\* immediate mode holds no message it could deliver, and BlockedBy names a
\* blocker for every message it holds that it has not received.
HeldIsBlocked ==
    AllVector =>
        \A p \in alwaysCausal \ flushing : \A m \in Contents(hbq[p]) :
            /\ ~vector!canDeliver(m.SentVC, m.from, vectorClock[p])
            /\ m.id \notin delivered[p] => BlockedBy(p, m) # {}

\* The documentation's promise of the hold-back queue (docs/scenarios.md, "When
\* `m1'` finally arrives, P3 delivers `m1'` then immediately flushes `m2`"): a
\* message is held only while a message to the same process in its causal past
\* is missing.
HeldForCause ==
    \A p \in Pid \ flushing : \A m \in Contents(hbq[p]) :
        \E n \in sent : n.to = p /\ n.id \in m.past /\ n.id # m.id
                        /\ n.id \notin delivered[p]

\* What p's matrix says process k knows of j is true: those events of j are in
\* the causal past of k.  Receive never overestimates somebody's knowledge.
MatrixKnowledgeSound ==
    \A p, k, j \in Pid : \A n \in 1..matrixClock[p].MT[k][j] :
        <<j, n>> \in past[k]

\* CanGC is safe at a process whose matrix has a row for everybody: the events
\* of j it allows to collect are events every process knows of.
CanGCSafeWithAllRows ==
    \A p, j, k \in Pid : \A n \in 1..ticks[j] :
        matrixClock[p].rows = Pid /\ matrix!CanGC(matrixClock[p], j, n)
            => <<j, n>> \in past[k]

\* With finitely many sends and no loss, everything that was sent is in the end
\* received: the hold-back queue withholds a message only until the ones it
\* depends on arrive.
EventuallyAllDelivered ==
    <>[](\A m \in sent : m.from # m.to => m.id \in delivered[m.to])
=============================================================================
