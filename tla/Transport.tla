----------------------------- MODULE Transport -----------------------------
(***************************************************************************)
(* SimTransport of internal/simulation: FIFO channels with fault           *)
(* injection, used by any number of goroutines at once.                    *)
(*                                                                         *)
(* Send copies the fault state of its channel under t.mu, unlocks, and     *)
(* decides on the copy: each later access to shared state (the reset of a  *)
(* drop, the exchange of the reorder buffer, the unlocked look at that     *)
(* map, a channel operation) is a step of its own here.  Each channel has  *)
(* a forwarder, each delayed message a goroutine.                          *)
(***************************************************************************)
EXTENDS Naturals, Sequences, FiniteSets

CONSTANTS
    Pid,         \* process identifiers
    Key,         \* the ChannelKeys in use: pairs <<from, to>>
    Caller,      \* goroutines inside Send
    Partitions,  \* the arguments of SetPartition: sets of groups of Pid
    ChanCap,     \* ChannelBufferSize
    MaxSends,    \* bound: calls of Send
    MaxFaults    \* bound: calls that change the fault state

ASSUME TransportAssumption ==
    /\ Key \subseteq Pid \X Pid
    /\ Partitions \subseteq SUBSET SUBSET Pid

Message == [n : 1..MaxSends, from : Pid, to : Pid]

VARIABLES
    channels,     \* the keys RegisterChannel was called with
    queue,        \* queue[k]: contents of the Go channel of k
    inhand,       \* inhand[k]: message the forwarder of k has taken: 0 or 1
    delays,       \* keys with a positive delay
    dropNext,     \* keys whose next message is dropped
    reorder,      \* keys present in reorderBuf
    reorderBuf,   \* reorderBuf[k]: the buffered message: 0 or 1
    groups,       \* partitionGroups; {} for nil
    closed,       \* t.closed is closed
    pc, arg,      \* where each caller of Send is, and with which message
    seen,         \* the copy it took under RLock
    delayed,      \* messages inside sendDelayed
    aborted,      \* the runtime has stopped the program (unlocked map access)
    \* History, read by no guard of the code:
    nfaults,      \* calls that changed the fault state
    sent,         \* messages given to Send so far
    before,       \* before[n]: messages whose Send had returned nil by then
    accepted,     \* messages whose Send returned nil
    handed,       \* handed[k]: what the forwarder of k gave to deliverFn
    injected,     \* injected[k]: calls of InjectDrop
    dropped,      \* dropped[k]: messages discarded by dropNext
    overlapped,   \* keys on which two calls of Send overlapped
    disturbed,    \* keys that ever had a delay or a reordering
    lossy         \* keys that ever had a drop, a reordering or a partition

faults  == <<delays, dropNext, reorder, reorderBuf, groups>>
calls   == <<pc, arg, seen>>
wires   == <<channels, queue, inhand, delayed>>
history == <<sent, before, accepted, handed, dropped, overlapped>>
injections == <<nfaults, injected, disturbed, lossy>>
vars == <<faults, calls, wires, closed, aborted, history, injections>>

KeyOf(m) == <<m.from, m.to>>

\* inSameGroup
inSameGroup(gs, p, q) == \E g \in gs : p \in g /\ q \in g

Init ==
    /\ channels = {}
    /\ queue = [k \in Key |-> <<>>]
    /\ inhand = [k \in Key |-> {}]
    /\ delays = {} /\ dropNext = {} /\ reorder = {}
    /\ reorderBuf = [k \in Key |-> {}]
    /\ groups = {}
    /\ closed = FALSE
    /\ pc = [c \in Caller |-> "idle"]
    /\ arg = [c \in Caller |-> {}]
    /\ seen = [c \in Caller |-> {}]
    /\ delayed = {}
    /\ aborted = FALSE
    /\ nfaults = 0
    /\ sent = {}
    /\ before = [n \in 1..MaxSends |-> {}]
    /\ accepted = {}
    /\ handed = [k \in Key |-> <<>>]
    /\ injected = [k \in Key |-> 0]
    /\ dropped = [k \in Key |-> {}]
    /\ overlapped = {} /\ disturbed = {} /\ lossy = {}

\* Simulation.SpawnProcess registers both processes before the channel, so
\* that a forwarder always finds a delivery function.
RegisterChannel(k) ==
    /\ k \notin channels
    /\ channels' = channels \cup {k}
    /\ UNCHANGED <<faults, calls, queue, inhand, delayed, closed, aborted,
                   history, injections>>

-----------------------------------------------------------------------------
(* Send. *)

\* The part under RLock.
Send(c, k) ==
    LET m == [n |-> Cardinality(sent) + 1, from |-> k[1], to |-> k[2]] IN
    /\ pc[c] = "idle"
    /\ Cardinality(sent) < MaxSends
    /\ pc' = [pc EXCEPT ![c] = "copied"]
    /\ arg' = [arg EXCEPT ![c] = {m}]
    /\ seen' = [seen EXCEPT ![c] = {[ch |-> k \in channels,
                                     drop |-> k \in dropNext,
                                     delay |-> k \in delays,
                                     groups |-> groups,
                                     reorderMsg |-> reorderBuf[k]]}]
    /\ sent' = sent \cup {m}
    /\ before' = [before EXCEPT ![m.n] = accepted]
    /\ overlapped' = IF \E d \in Caller : \E x \in arg[d] : KeyOf(x) = k
                     THEN overlapped \cup {k} ELSE overlapped
    /\ UNCHANGED <<faults, wires, closed, aborted, accepted, handed, dropped,
                   injections>>

Return(c) ==
    /\ pc' = [pc EXCEPT ![c] = "idle"]
    /\ arg' = [arg EXCEPT ![c] = {}]
    /\ seen' = [seen EXCEPT ![c] = {}]

ReturnNil(c, m) == Return(c) /\ accepted' = accepted \cup {m}

\* The states of a call, after RUnlock, by what the copy tells it to do.
Separated(s, m) == s.groups # {} /\ ~inSameGroup(s.groups, m.from, m.to)
Goes(s, m) == ~closed /\ s.ch /\ ~Separated(s, m)
Drops(s, m) == Goes(s, m) /\ s.drop
Swaps(s, m) == Goes(s, m) /\ ~s.drop /\ s.reorderMsg # {}
Peeks(s, m) == Goes(s, m) /\ ~s.drop /\ s.reorderMsg = {}

Refuse(c) ==
    /\ pc[c] = "copied"
    /\ \E m \in arg[c], s \in seen[c] : closed \/ ~s.ch
    /\ Return(c)
    /\ UNCHANGED <<faults, wires, closed, aborted, history, injections>>

Partitioned(c) ==
    /\ pc[c] = "copied"
    /\ \E m \in arg[c], s \in seen[c] :
          ~closed /\ s.ch /\ Separated(s, m) /\ ReturnNil(c, m)
    /\ UNCHANGED <<faults, wires, closed, aborted, sent, before, handed, dropped,
                   overlapped, injections>>

\* Mutant of Drop: the flag is not reset.
DropAgain(c) ==
    /\ pc[c] = "copied"
    /\ \E m \in arg[c], s \in seen[c] :
          /\ Drops(s, m)
          /\ dropped' = [dropped EXCEPT ![KeyOf(m)] = @ \cup {m}]
          /\ ReturnNil(c, m)
    /\ UNCHANGED <<faults, wires, closed, aborted, sent, before, handed,
                   overlapped, injections>>

Drop(c) ==
    /\ pc[c] = "copied"
    /\ \E m \in arg[c], s \in seen[c] :
          /\ Drops(s, m)
          /\ dropNext' = dropNext \ {KeyOf(m)}
          /\ dropped' = [dropped EXCEPT ![KeyOf(m)] = @ \cup {m}]
          /\ ReturnNil(c, m)
    /\ UNCHANGED <<delays, reorder, reorderBuf, groups, wires, closed, aborted,
                   sent, before, handed, overlapped, injections>>

\* A message is buffered: empty the buffer, leaving the key in the map.
Swap(c) ==
    /\ pc[c] = "copied"
    /\ \E m \in arg[c], s \in seen[c] :
          /\ Swaps(s, m)
          /\ reorderBuf' = [reorderBuf EXCEPT ![KeyOf(m)] = {}]
          /\ reorder' = reorder \cup {KeyOf(m)}
    /\ pc' = [pc EXCEPT ![c] = "first"]
    /\ UNCHANGED <<delays, dropNext, groups, arg, seen, wires, closed, aborted,
                   history, injections>>

\* Mutant of Peek: a delay of zero is a delay too.
PeekDelays(c) ==
    /\ pc[c] = "copied"
    /\ \E m \in arg[c], s \in seen[c] :
          Peeks(s, m) /\ delayed' = delayed \cup {m} /\ ReturnNil(c, m)
    /\ UNCHANGED <<faults, channels, queue, inhand, closed, aborted, sent,
                   before, handed, dropped, overlapped, injections>>

\* The look at reorderBuf without the lock, and what follows it: buffer the
\* message, leave it to a delay goroutine, or send it.
Peek(c) ==
    /\ pc[c] = "copied"
    /\ \E m \in arg[c], s \in seen[c] :
          /\ Peeks(s, m)
          /\ IF KeyOf(m) \in reorder
             THEN pc' = [pc EXCEPT ![c] = "arm"]
                  /\ UNCHANGED <<arg, seen, delayed, accepted>>
             ELSE IF s.delay
             THEN delayed' = delayed \cup {m} /\ ReturnNil(c, m)
             ELSE pc' = [pc EXCEPT ![c] = "put"]
                  /\ UNCHANGED <<arg, seen, delayed, accepted>>
    /\ UNCHANGED <<faults, channels, queue, inhand, closed, aborted, sent,
                   before, handed, dropped, overlapped, injections>>

\* The same look while another goroutine writes the map: the Go runtime may
\* end the program ("concurrent map read and map write").
MapRace(c) ==
    /\ pc[c] = "copied"
    /\ \E m \in arg[c], s \in seen[c] : Peeks(s, m)
    /\ \/ nfaults < MaxFaults
       \/ \E d \in Caller \ {c} :
             \/ pc[d] = "arm"
             \/ pc[d] = "copied" /\ \E m \in arg[d], s \in seen[d] : Swaps(s, m)
    /\ aborted' = TRUE
    /\ UNCHANGED <<faults, calls, wires, closed, history, injections>>

\* Mutant of Arm: the buffer receives the copied fault state.
ArmCopy(c) ==
    /\ pc[c] = "arm"
    /\ \E m \in arg[c] :
          /\ reorderBuf' = [reorderBuf EXCEPT ![KeyOf(m)] = seen[c]]
          /\ reorder' = reorder \cup {KeyOf(m)}
          /\ ReturnNil(c, m)
    /\ UNCHANGED <<delays, dropNext, groups, wires, closed, aborted, sent,
                   before, handed, dropped, overlapped, injections>>

Arm(c) ==
    /\ pc[c] = "arm"
    /\ \E m \in arg[c] :
          /\ reorderBuf' = [reorderBuf EXCEPT ![KeyOf(m)] = {m}]
          /\ reorder' = reorder \cup {KeyOf(m)}
          /\ ReturnNil(c, m)
    /\ UNCHANGED <<delays, dropNext, groups, wires, closed, aborted, sent,
                   before, handed, dropped, overlapped, injections>>

\* Mutant of sendToChannel: the capacity is not respected.
sendToChannelUnbounded(m) ==
    /\ ~closed
    /\ queue' = [queue EXCEPT ![KeyOf(m)] = Append(@, m)]

\* sendToChannel, when it succeeds: the channel takes the message at once.
sendToChannel(m) ==
    /\ ~closed
    /\ Len(queue[KeyOf(m)]) < ChanCap
    /\ queue' = [queue EXCEPT ![KeyOf(m)] = Append(@, m)]

Put(c) ==
    /\ pc[c] = "put"
    /\ \E m \in arg[c] : sendToChannel(m) /\ ReturnNil(c, m)
    /\ UNCHANGED <<faults, channels, inhand, delayed, closed, aborted, sent,
                   before, handed, dropped, overlapped, injections>>

\* The swap: the new message first ...
PutFirst(c) ==
    /\ pc[c] = "first"
    /\ \E m \in arg[c] : sendToChannel(m)
    /\ pc' = [pc EXCEPT ![c] = "second"]
    /\ UNCHANGED <<faults, arg, seen, channels, inhand, delayed, closed, aborted,
                   history, injections>>

\* ... then the one that was buffered.
PutSecond(c) ==
    /\ pc[c] = "second"
    /\ \E m \in arg[c], s \in seen[c] :
          /\ \E x \in s.reorderMsg : sendToChannel(x)
          /\ ReturnNil(c, m)
    /\ UNCHANGED <<faults, channels, inhand, delayed, closed, aborted, sent,
                   before, handed, dropped, overlapped, injections>>

\* sendToChannel fails, and so does Send: what it held is gone.
PutFails(c) ==
    /\ pc[c] \in {"put", "first", "second"}
    /\ \E m \in arg[c] : closed \/ Len(queue[KeyOf(m)]) >= ChanCap
    /\ Return(c)
    /\ UNCHANGED <<faults, wires, closed, aborted, history, injections>>

-----------------------------------------------------------------------------
(* The goroutines of the transport. *)

\* sendDelayed after its delay: waits for room, or gives up when closed.
sendDelayed(m) ==
    /\ m \in delayed
    /\ \/ closed /\ UNCHANGED queue
       \/ sendToChannel(m)
    /\ delayed' = delayed \ {m}
    /\ UNCHANGED <<faults, calls, channels, inhand, closed, aborted, history,
                   injections>>

\* Mutant of forward: it waits for a second message.
forwardTwo(k) ==
    /\ Len(queue[k]) > 1
    /\ inhand[k] = {}
    /\ inhand' = [inhand EXCEPT ![k] = {Head(queue[k])}]
    /\ queue' = [queue EXCEPT ![k] = Tail(@)]
    /\ UNCHANGED <<faults, calls, channels, delayed, closed, aborted, history,
                   injections>>

\* forward takes a message; a closed transport may also end it.
forward(k) ==
    /\ queue[k] # <<>>
    /\ inhand[k] = {}
    /\ inhand' = [inhand EXCEPT ![k] = {Head(queue[k])}]
    /\ queue' = [queue EXCEPT ![k] = Tail(@)]
    /\ UNCHANGED <<faults, calls, channels, delayed, closed, aborted, history,
                   injections>>

\* The call of deliverFn: the message reaches the process.
deliverFn(k) ==
    /\ \E m \in inhand[k] : handed' = [handed EXCEPT ![k] = Append(@, m)]
    /\ inhand' = [inhand EXCEPT ![k] = {}]
    /\ UNCHANGED <<faults, calls, channels, queue, delayed, closed, aborted, sent,
                   before, accepted, dropped, overlapped, injections>>

-----------------------------------------------------------------------------
(* Fault injection and Close. *)

Injects(d, l) ==
    /\ nfaults < MaxFaults
    /\ nfaults' = nfaults + 1
    /\ disturbed' = disturbed \cup d
    /\ lossy' = lossy \cup l
    /\ UNCHANGED <<calls, wires, closed, aborted, history>>

InjectDelay(k, positive) ==
    /\ delays' = IF positive THEN delays \cup {k} ELSE delays \ {k}
    /\ Injects({k}, {})
    /\ UNCHANGED <<dropNext, reorder, reorderBuf, groups, injected>>

InjectDrop(k) ==
    /\ dropNext' = dropNext \cup {k}
    /\ injected' = [injected EXCEPT ![k] = @ + 1]
    /\ Injects({}, {k})
    /\ UNCHANGED <<delays, reorder, reorderBuf, groups>>

InjectReorder(k) ==
    /\ reorder' = reorder \cup {k}
    /\ reorderBuf' = [reorderBuf EXCEPT ![k] = {}]
    /\ Injects({k}, {k})
    /\ UNCHANGED <<delays, dropNext, groups, injected>>

SetPartition(gs) ==
    /\ groups' = gs
    /\ Injects({}, {k \in Key : gs # {} /\ ~inSameGroup(gs, k[1], k[2])})
    /\ UNCHANGED <<delays, dropNext, reorder, reorderBuf, injected>>

ClearFaults ==
    /\ delays' = {} /\ dropNext' = {} /\ reorder' = {}
    /\ reorderBuf' = [k \in Key |-> {}]
    /\ groups' = {}
    /\ Injects({}, {})
    /\ UNCHANGED injected

Close ==
    /\ ~closed
    /\ closed' = TRUE
    /\ UNCHANGED <<faults, calls, wires, aborted, history, injections>>

-----------------------------------------------------------------------------
SendStep(c) ==
    \/ Refuse(c) \/ Partitioned(c) \/ Drop(c) \/ Swap(c) \/ Peek(c) \/ Arm(c)
    \/ Put(c) \/ PutFirst(c) \/ PutSecond(c) \/ PutFails(c)

Inject ==
    \/ \E k \in Key : \/ \E positive \in BOOLEAN : InjectDelay(k, positive)
                      \/ InjectDrop(k)
                      \/ InjectReorder(k)
    \/ \E gs \in Partitions : SetPartition(gs)
    \/ ClearFaults

Next ==
    /\ ~aborted
    /\ \/ \E k \in Key : RegisterChannel(k) \/ forward(k) \/ deliverFn(k)
       \/ \E c \in Caller : (\E k \in Key : Send(c, k)) \/ SendStep(c) \/ MapRace(c)
       \/ \E m \in delayed : sendDelayed(m)
       \/ Inject
       \/ Close

Spec == Init /\ [][Next]_vars

\* Forwarders and the delayed sends run; a call of Send goes on.
FairSpec ==
    /\ Spec
    /\ \A c \in Caller : WF_vars(~aborted /\ SendStep(c))
    /\ \A k \in Key : WF_vars(~aborted /\ forward(k)) /\ WF_vars(~aborted /\ deliverFn(k))
    /\ \A m \in Message : WF_vars(~aborted /\ sendDelayed(m))

-----------------------------------------------------------------------------
(* Properties. *)

\* The type of every variable.
TypeOK ==
    /\ channels \in SUBSET Key
    /\ queue \in [Key -> Seq(Message)]
    /\ inhand \in [Key -> SUBSET Message]
    /\ delays \in SUBSET Key /\ dropNext \in SUBSET Key /\ reorder \in SUBSET Key
    /\ reorderBuf \in [Key -> SUBSET Message]
    /\ groups \in SUBSET SUBSET Pid
    /\ closed \in BOOLEAN /\ aborted \in BOOLEAN
    /\ pc \in [Caller -> {"idle", "copied", "arm", "put", "first", "second"}]
    /\ arg \in [Caller -> SUBSET Message]
    /\ seen \in [Caller -> SUBSET [ch : BOOLEAN, drop : BOOLEAN, delay : BOOLEAN,
                                   groups : SUBSET SUBSET Pid,
                                   reorderMsg : SUBSET Message]]
    /\ delayed \in SUBSET Message
    /\ nfaults \in 0..MaxFaults
    /\ sent \in SUBSET Message /\ accepted \in SUBSET sent
    /\ before \in [1..MaxSends -> SUBSET Message]
    /\ handed \in [Key -> Seq(Message)]
    /\ injected \in [Key -> Nat]
    /\ dropped \in [Key -> SUBSET Message]
    /\ overlapped \in SUBSET Key /\ disturbed \in SUBSET Key /\ lossy \in SUBSET Key

\* The messages of k from the oldest handed over to the newest in the channel.
InHand(k) == IF inhand[k] = {} THEN <<>> ELSE <<CHOOSE m \in inhand[k] : TRUE>>
Line(k) == (handed[k] \o InHand(k)) \o queue[k]

\* docs/snapshot.md calls FIFO "the SimTransport invariant".  It holds, for
\* concurrent senders, full channels, drops and partitions, wherever no delay
\* and no reordering was ever injected: a message whose Send returned before
\* the Send of another was called is not overtaken by it.
FifoUnlessDisturbed ==
    \A k \in Key \ disturbed : \A i, j \in DOMAIN Line(k) :
        i < j => Line(k)[j] \notin before[Line(k)[i].n]

Copies(m) == Cardinality({i \in DOMAIN Line(KeyOf(m)) : Line(KeyOf(m))[i] = m})

\* Messages are lost or doubled for a reason only.  Send returning nil means
\* something: on a channel that never had a drop, a reordering or a partition an
\* accepted message is on its way or handed over, exactly once, unless the
\* transport was closed.  And where no two calls of Send overlapped, the exchange
\* of the reorder buffer doubles nothing, and no more messages are dropped than
\* drops were injected ("InjectDrop causes the next message ... to be dropped").
LossAndDoublingExplained ==
    /\ closed \/ \A m \in accepted : KeyOf(m) \notin lossy =>
            Copies(m) = IF m \in delayed THEN 0 ELSE 1
    /\ \A m \in sent : KeyOf(m) \notin overlapped => Copies(m) <= 1
    /\ \A k \in Key \ overlapped : Cardinality(dropped[k]) <= injected[k]

\* The detailed transport implements the network the other components assume:
\* a call holds its message until it is in the channel, buffered or lost; held
\* back are the delayed messages, the buffered ones and those a caller copied.
Copied(c) == UNION {s.reorderMsg : s \in seen[c]}

network == INSTANCE Network WITH
    offered <- UNION {arg[c] : c \in {d \in Caller : pc[d] # "second"}},
    late <- (delayed \cup UNION {reorderBuf[k] : k \in Key})
               \cup UNION {Copied(c) : c \in Caller},
    past <- sent

\* Whatever the interleaving of callers, faults and forwarders, every step of
\* the transport is a step of Network or leaves it unchanged.
ImplementsNetwork == network!Spec

\* Every accepted message on a channel that never had a drop, a reordering or
\* a partition is in the end handed over, delayed or not, unless the transport
\* is closed or the program ended.
EventuallyHanded ==
    \A k \in Key : \A n \in 1..MaxSends :
        LET m == [n |-> n, from |-> k[1], to |-> k[2]] IN
        m \in accepted ~>
            \/ \E i \in DOMAIN handed[k] : handed[k][i] = m
            \/ closed \/ aborted \/ k \in lossy
=============================================================================
