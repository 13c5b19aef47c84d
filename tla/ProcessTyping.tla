--------------------------- MODULE ProcessTyping ---------------------------
(***************************************************************************)
(* Type correctness of Process, for every value of its constants.          *)
(***************************************************************************)
EXTENDS Process, TLAPS

\* vector.Tick, Receive and the merge of TryDeliver return vector clocks.
LEMMA VectorTyping ==
    ASSUME NEW a \in vector!Clock, NEW b \in vector!Clock, NEW p \in Pid,
           NEW q \in Pid
    PROVE  /\ vector!New \in vector!Clock
           /\ vector!Tick(a, p) \in vector!Clock
           /\ vector!Receive(a, b, p) \in vector!Clock
           /\ HeldReceive(a, b, q, p) \in vector!Clock
BY DEF vector!Clock, vector!New, vector!Tick, vector!Receive,
       vector!MergePassive, HeldReceive

\* matrix.Tick and Receive return matrix clocks.
LEMMA MatrixTyping ==
    ASSUME NEW a \in matrix!Clock, NEW b \in matrix!Clock, NEW p \in Pid,
           NEW q \in Pid
    PROVE  /\ matrix!Tick(a, p) \in matrix!Clock
           /\ matrix!Receive(a, b, p, q) \in matrix!Clock
<1>1. matrix!Tick(a, p) \in matrix!Clock
  BY DEF matrix!Clock, matrix!Tick
<1>2. matrix!Receive(a, b, p, q) \in matrix!Clock
  <2>1. \A x, y \in [Pid -> Nat] : matrix!RowMax(x, y) \in [Pid -> Nat]
    BY DEF matrix!RowMax
  <2>2. matrix!Tick(a, p).MT \in [Pid -> [Pid -> Nat]]
        /\ matrix!Tick(a, p).rows \in SUBSET Pid
    BY <1>1 DEF matrix!Clock
  <2>3. b.MT \in [Pid -> [Pid -> Nat]] /\ b.rows \in SUBSET Pid
    BY DEF matrix!Clock
  <2> QED
    BY <2>1, <2>2, <2>3, Zenon DEF matrix!Clock, matrix!Receive
<1> QED
  BY <1>1, <1>2

\* The operations on clocks keep the clock variables well typed.
LEMMA TickTyping ==
    ASSUME TypeOK, NEW p \in Pid, tickClock(p)
    PROVE  /\ lamportClock' \in [Pid -> Nat]
           /\ vectorClock' \in [Pid -> vector!Clock]
           /\ matrixClock' \in [Pid -> matrix!Clock]
<1>1. lamportClock[p] \in Nat /\ vectorClock[p] \in vector!Clock
      /\ matrixClock[p] \in matrix!Clock
  BY DEF TypeOK
<1>2. vector!Tick(vectorClock[p], p) \in vector!Clock
  BY <1>1, VectorTyping
<1>3. matrix!Tick(matrixClock[p], p) \in matrix!Clock
  BY <1>1, MatrixTyping
<1>4. lamportClock' \in [Pid -> Nat]
  BY <1>1 DEF TypeOK, tickClock, lamport!Tick
<1>5. vectorClock' \in [Pid -> vector!Clock]
  BY <1>2 DEF TypeOK, tickClock
<1>6. matrixClock' \in [Pid -> matrix!Clock]
  BY <1>3 DEF TypeOK, tickClock
<1> QED
  BY <1>4, <1>5, <1>6

\* A receipt keeps the clocks well typed.
LEMMA ReceiveTyping ==
    ASSUME TypeOK, NEW p \in Pid, NEW m \in Message, receiveClock(p, m)
    PROVE  /\ lamportClock' \in [Pid -> Nat]
           /\ vectorClock' \in [Pid -> vector!Clock]
           /\ matrixClock' \in [Pid -> matrix!Clock]
<1>1. m.SentLC \in Nat /\ m.SentVC \in vector!Clock /\ m.SentMatrix \in matrix!Clock
      /\ m.from \in Pid
  BY DEF Message
<1>2. lamportClock[p] \in Nat /\ vectorClock[p] \in vector!Clock
      /\ matrixClock[p] \in matrix!Clock
  BY DEF TypeOK
<1>3. vector!Receive(vectorClock[p], m.SentVC, p) \in vector!Clock
  BY <1>1, <1>2, VectorTyping, Zenon
<1>4. matrix!Receive(matrixClock[p], m.SentMatrix, p, m.from) \in matrix!Clock
  BY <1>1, <1>2, MatrixTyping, Zenon
<1>5. lamport!Receive(lamportClock[p], m.SentLC) \in Nat
  BY <1>1, <1>2 DEF lamport!Receive
<1>6. lamportClock' \in [Pid -> Nat]
  BY <1>5 DEF TypeOK, receiveClock
<1>7. vectorClock' \in [Pid -> vector!Clock]
  BY <1>3 DEF TypeOK, receiveClock
<1>8. matrixClock' \in [Pid -> matrix!Clock]
  BY <1>4 DEF TypeOK, receiveClock
<1> QED
  BY <1>6, <1>7, <1>8

\* The history variables stay well typed at every event.
LEMMA HappensTyping ==
    ASSUME TypeOK, NEW p \in Pid, NEW seen \in SUBSET EventId,
           lamportClock' \in [Pid -> Nat],
           vectorClock' \in [Pid -> vector!Clock],
           Happens(p, seen)
    PROVE  /\ ticks' \in [Pid -> Nat]
           /\ past' \in [Pid -> SUBSET EventId]
           /\ log' \in SUBSET Event
<1> DEFINE id == <<p, ticks[p] + 1>>
<1>1. id \in EventId
  BY DEF TypeOK, EventId
<1>2. past[p] \cup seen \in SUBSET EventId
  BY DEF TypeOK
<1>3. [id |-> id, past |-> past[p] \cup seen, lc |-> lamportClock'[p],
       vc |-> vectorClock'[p]] \in Event
  BY <1>1, <1>2 DEF Event
<1>4. log' \in SUBSET Event
  BY <1>3, Zenon DEF TypeOK, Happens
<1>5. past' \in [Pid -> SUBSET EventId]
  BY <1>1, <1>2, Zenon DEF TypeOK, Happens
<1>6. ticks' \in [Pid -> Nat]
  BY DEF TypeOK, Happens
<1> QED
  BY <1>4, <1>5, <1>6

\* Removing from the hold-back queue leaves a queue of the remaining messages.
LEMMA SwapRemoveTyping ==
    ASSUME NEW s \in Seq(Message), NEW i \in 1..Len(s)
    PROVE  /\ SwapRemove(s, i) \in Seq(Message)
           /\ Contents(SwapRemove(s, i)) \subseteq Contents(s)
<1>1. Len(s) \in Nat /\ Len(s) - 1 \in Nat
  OBVIOUS
<1>2. \A j \in 1..(Len(s) - 1) : s[j] \in Message /\ s[Len(s)] \in Message
  OBVIOUS
<1>3. SwapRemove(s, i) \in [1..(Len(s) - 1) -> Message]
  BY <1>2 DEF SwapRemove
<1>4. SwapRemove(s, i) \in Seq(Message) /\ Len(SwapRemove(s, i)) = Len(s) - 1
  BY <1>1, <1>3 DEF SwapRemove
<1>5. Contents(SwapRemove(s, i)) \subseteq Contents(s)
  BY <1>1, <1>4 DEF SwapRemove, Contents
<1> QED
  BY <1>4, <1>5

\* Delivering m to p keeps the history and the delivery record well typed.
LEMMA DeliverTyping ==
    ASSUME TypeOK, NEW p \in Pid, NEW m \in Message,
           lamportClock' \in [Pid -> Nat],
           vectorClock' \in [Pid -> vector!Clock],
           Deliver(p, m)
    PROVE  /\ ticks' \in [Pid -> Nat]
           /\ past' \in [Pid -> SUBSET EventId]
           /\ log' \in SUBSET Event
           /\ delivered' \in [Pid -> SUBSET EventId]
           /\ receipts' \in [Pid -> Nat]
<1>1. m.past \in SUBSET EventId /\ m.id \in EventId
  BY DEF Message
<1>2. Happens(p, m.past)
  BY DEF Deliver
<1>3. /\ ticks' \in [Pid -> Nat]
      /\ past' \in [Pid -> SUBSET EventId]
      /\ log' \in SUBSET Event
  BY <1>1, <1>2, HappensTyping, Zenon
<1>4. /\ delivered' \in [Pid -> SUBSET EventId]
      /\ receipts' \in [Pid -> Nat]
  BY <1>1 DEF TypeOK, Deliver
<1> QED
  BY <1>3, <1>4

\* The message a Send stamps, as Stamp builds it.
Stamped(p, q) ==
    [id |-> <<p, ticks[p] + 1>>, from |-> p, to |-> q,
     SentVC |-> IF ClockType[p] = "vector" THEN vectorClock'[p] ELSE vector!New,
     SentLC |-> lamportClock'[p],
     SentMatrix |-> IF ClockType[p] = "matrix" THEN matrixClock'[p]
                                               ELSE matrix!New({}),
     past |-> past[p] \cup {<<p, ticks[p] + 1>>}]

\* A stamped message is a message.
LEMMA StampTyping ==
    ASSUME TypeOK, NEW c \in Caller, NEW p \in Pid, NEW q \in Pid, Stamp(c, p, q)
    PROVE  /\ Stamped(p, q) \in Message
           /\ sent' = sent \cup {Stamped(p, q)}
           /\ sending' = [sending EXCEPT ![c] = {Stamped(p, q)}]
           /\ lamportClock' \in [Pid -> Nat]
           /\ vectorClock' \in [Pid -> vector!Clock]
           /\ matrixClock' \in [Pid -> matrix!Clock]
           /\ ticks' \in [Pid -> Nat]
           /\ past' \in [Pid -> SUBSET EventId]
           /\ log' \in SUBSET Event
<1>1. tickClock(p) /\ Happens(p, {})
  BY DEF Stamp
<1>2. /\ lamportClock' \in [Pid -> Nat]
      /\ vectorClock' \in [Pid -> vector!Clock]
      /\ matrixClock' \in [Pid -> matrix!Clock]
  BY <1>1, TickTyping
<1>3. /\ ticks' \in [Pid -> Nat]
      /\ past' \in [Pid -> SUBSET EventId]
      /\ log' \in SUBSET Event
  BY <1>1, <1>2, HappensTyping
<1>4. <<p, ticks[p] + 1>> \in EventId
  <2>1. ticks[p] \in Nat
    BY Zenon DEF TypeOK
  <2>2. ticks[p] + 1 \in Nat
    BY <2>1
  <2> QED
    BY <2>2, Zenon DEF EventId
<1>5. past[p] \cup {<<p, ticks[p] + 1>>} \in SUBSET EventId
  BY <1>4, Zenon DEF TypeOK
<1>6. vector!New \in vector!Clock /\ matrix!New({}) \in matrix!Clock
  BY DEF vector!New, vector!Clock, matrix!New, matrix!Clock
<1>7. Stamped(p, q) \in Message
  BY <1>2, <1>4, <1>5, <1>6 DEF Message, Stamped
<1>8. /\ sent' = sent \cup {Stamped(p, q)}
      /\ sending' = [sending EXCEPT ![c] = {Stamped(p, q)}]
  BY DEF Stamp, Stamped
<1> QED
  BY <1>2, <1>3, <1>7, <1>8

\* The initial state is well typed.
LEMMA InitType == Init => TypeOK
<1> SUFFICES ASSUME Init PROVE TypeOK
  OBVIOUS
<1> USE ConstantsAssumption
<1>1. vector!New \in vector!Clock
  BY DEF vector!New, vector!Clock
<1>2. \A p \in Pid : matrix!New(IF ClockType[p] = "matrix" THEN AllPIDs[p] ELSE {})
                        \in matrix!Clock
  BY DEF matrix!New, matrix!Clock
<1>3. vectorClock \in [Pid -> vector!Clock] /\ matrixClock \in [Pid -> matrix!Clock]
  BY <1>1, <1>2 DEF Init
<1>4. /\ hbq \in [Pid -> Seq(Message)]
      /\ inbound \in [Pid -> Seq(Message)]
      /\ chan \in [Pid -> [Pid -> Seq(Message)]]
      /\ todo \in [Caller -> Seq(Pid \X Pid)]
  BY DEF Init
<1>5. /\ cur \in [Pid -> SUBSET Handling]
      /\ sending \in [Caller -> SUBSET Message]
      /\ past \in [Pid -> SUBSET EventId]
      /\ delivered \in [Pid -> SUBSET EventId]
  BY DEF Init
<1>6. /\ lamportClock \in [Pid -> Nat]
      /\ ticks \in [Pid -> Nat]
      /\ receipts \in [Pid -> Nat]
      /\ mode \in [Pid -> Mode]
      /\ flushing \in SUBSET Pid
      /\ late \in SUBSET Message
      /\ log \in SUBSET Event
      /\ sent \in SUBSET Message
      /\ alwaysCausal \in SUBSET Pid
  BY DEF Init
<1> QED
  BY <1>3, <1>4, <1>5, <1>6 DEF TypeOK

\* What is in a queue, in cur or under way is a message, and queues shrink and
\* grow within their type.
LEMMA QueueTyping ==
    ASSUME NEW s \in Seq(Message), s # <<>>
    PROVE  Head(s) \in Message /\ Tail(s) \in Seq(Message)
OBVIOUS

\* The locked part of Send keeps the types.
LEMMA StampStep ==
    ASSUME TypeOK, NEW c \in Caller, NEW p \in Pid, NEW q \in Pid, Stamp(c, p, q),
           todo' \in [Caller -> Seq(Pid \X Pid)]
    PROVE  TypeOK'
<1>1. /\ Stamped(p, q) \in Message
      /\ sent' = sent \cup {Stamped(p, q)}
      /\ sending' = [sending EXCEPT ![c] = {Stamped(p, q)}]
      /\ lamportClock' \in [Pid -> Nat]
      /\ vectorClock' \in [Pid -> vector!Clock]
      /\ matrixClock' \in [Pid -> matrix!Clock]
      /\ ticks' \in [Pid -> Nat]
      /\ past' \in [Pid -> SUBSET EventId]
      /\ log' \in SUBSET Event
  BY StampTyping
<1>2. sent' \in SUBSET Message /\ sending' \in [Caller -> SUBSET Message]
  BY <1>1, Zenon DEF TypeOK
<1>3. UNCHANGED <<mode, hbq, flushing, cur, inbound, chan, late, delivered,
                  receipts, alwaysCausal>>
  BY DEF Stamp, network
<1> QED
  BY <1>1, <1>2, <1>3, Zenon DEF TypeOK

\* So does every step of an API call, up to the transport.
LEMMA CallerType ==
    ASSUME TypeOK, NEW c \in Caller, CallerStep(c)
    PROVE  TypeOK'
<1> USE ConstantsAssumption
<1>1. ASSUME NEW p \in Pid, NEW q \in Pid, Send(c, p, q) PROVE TypeOK'
  BY <1>1, StampStep, Zenon DEF Send, TypeOK
<1>2. ASSUME NEW p \in Pid, Broadcast(c, p) PROVE TypeOK'
  <2>1. Peers[p] \in Seq(Pid) /\ Peers[p] # <<>>
    BY <1>2 DEF Broadcast
  <2>2. Head(Peers[p]) \in Pid /\ Tail(Peers[p]) \in Seq(Pid)
    BY <2>1
  <2>3. [i \in 1..Len(Tail(Peers[p])) |-> <<p, Tail(Peers[p])[i]>>] \in Seq(Pid \X Pid)
    BY <2>2
  <2>4. todo' \in [Caller -> Seq(Pid \X Pid)]
    BY <1>2, <2>3, Zenon DEF Broadcast, TypeOK
  <2>5. Stamp(c, p, Head(Peers[p]))
    BY <1>2 DEF Broadcast
  <2> QED
    BY <2>2, <2>4, <2>5, StampStep
<1>3. CASE BroadcastNext(c)
  <2>1. todo[c] \in Seq(Pid \X Pid) /\ todo[c] # <<>>
    BY <1>3 DEF BroadcastNext, TypeOK
  <2>2. Head(todo[c]) \in Pid \X Pid /\ Tail(todo[c]) \in Seq(Pid \X Pid)
    BY <2>1
  <2>3. Head(todo[c])[1] \in Pid /\ Head(todo[c])[2] \in Pid
    BY <2>2
  <2>4. todo' \in [Caller -> Seq(Pid \X Pid)]
    BY <1>3, <2>2, Zenon DEF BroadcastNext, TypeOK
  <2> QED
    BY <1>3, <2>3, <2>4, StampStep, Zenon DEF BroadcastNext
<1>4. CASE XportSend(c)
  <2>1. PICK m \in sending[c] :
             /\ chan' = [chan EXCEPT ![m.from][m.to] = Append(@, m)]
             /\ late' \in {late} \cup (IF "dup" \in Faults THEN {late \cup {m}} ELSE {})
             /\ Hand(c)
             /\ UNCHANGED <<clocks, mode, hbq, flushing, cur, inbound, todo, history,
                            sent, delivered, receipts, alwaysCausal>>
    BY <1>4, Zenon DEF XportSend
  <2>2. m \in Message
    BY DEF TypeOK
  <2>3. m.from \in Pid /\ m.to \in Pid
    BY <2>2 DEF Message
  <2>4. chan' \in [Pid -> [Pid -> Seq(Message)]]
    <3>1. chan \in [Pid -> [Pid -> Seq(Message)]]
      BY DEF TypeOK
    <3>2. chan[m.from] \in [Pid -> Seq(Message)]
      BY <2>3, <3>1
    <3>3. Append(chan[m.from][m.to], m) \in Seq(Message)
      BY <2>2, <2>3, <3>2
    <3>4. chan' = [chan EXCEPT ![m.from][m.to] = Append(chan[m.from][m.to], m)]
      BY <2>1, Zenon
    <3> QED
      BY <2>3, <3>1, <3>2, <3>3, <3>4
  <2>5. late' \in SUBSET Message
    BY <2>1, <2>2, Zenon DEF TypeOK
  <2>6. sending' \in [Caller -> SUBSET Message]
    BY <2>1, Zenon DEF TypeOK, Hand
  <2> QED
    BY <2>1, <2>4, <2>5, <2>6, Zenon DEF TypeOK, clocks, history
<1>5. CASE XportFail(c)
  <2>1. sending' \in [Caller -> SUBSET Message]
    BY <1>5, Zenon DEF XportFail, Hand, TypeOK
  <2>2. todo' \in [Caller -> Seq(Pid \X Pid)]
    <3>1. todo \in [Caller -> Seq(Pid \X Pid)] /\ todo' = [todo EXCEPT ![c] = <<>>]
      BY <1>5, Zenon DEF XportFail, TypeOK
    <3>2. <<>> \in Seq(Pid \X Pid)
      OBVIOUS
    <3> QED
      BY <3>1, <3>2, Zenon
  <2> QED
    BY <1>5, <2>1, <2>2, Zenon DEF XportFail, TypeOK, clocks, history, network
<1>6. CASE XportDrop(c)
  <2>1. sending' \in [Caller -> SUBSET Message]
    BY <1>6, Zenon DEF XportDrop, Hand, TypeOK
  <2> QED
    BY <1>6, <2>1, Zenon DEF XportDrop, TypeOK, clocks, history, network
<1>7. CASE XportDelay(c)
  <2>1. sending' \in [Caller -> SUBSET Message]
    BY <1>7, Zenon DEF XportDelay, Hand, TypeOK
  <2>2. late' \in SUBSET Message
    BY <1>7 DEF XportDelay, TypeOK
  <2> QED
    BY <1>7, <2>1, <2>2, Zenon DEF XportDelay, TypeOK, clocks, history
<1> QED
  BY <1>1, <1>2, <1>3, <1>4, <1>5, <1>6, <1>7, Zenon DEF CallerStep, FinishSend

\* So do the transport's own steps.
LEMMA ReleaseForwardType ==
    ASSUME TypeOK,
           \/ \E m \in late : XportRelease(m)
           \/ \E p, q \in Pid : Forward(p, q)
    PROVE  TypeOK'
<1>1. ASSUME NEW m \in late, XportRelease(m) PROVE TypeOK'
  <2>1. m \in Message /\ m.from \in Pid /\ m.to \in Pid
    BY Zenon DEF TypeOK, Message
  <2>2. chan[m.from][m.to] \in Seq(Message) /\ chan[m.from] \in [Pid -> Seq(Message)]
    <3>1. chan \in [Pid -> [Pid -> Seq(Message)]]
      BY Zenon DEF TypeOK
    <3>2. chan[m.from] \in [Pid -> Seq(Message)]
      BY <2>1, <3>1, Zenon
    <3> QED
      BY <2>1, <3>2, Zenon
  <2>3. Append(chan[m.from][m.to], m) \in Seq(Message)
    BY <2>1, <2>2
  <2>4. chan' \in [Pid -> [Pid -> Seq(Message)]]
    BY <1>1, <2>1, <2>2, <2>3, Zenon DEF TypeOK, XportRelease
  <2>5. late' \in SUBSET Message
    BY <1>1, Zenon DEF TypeOK, XportRelease
  <2> QED
    BY <1>1, <2>4, <2>5, Zenon DEF TypeOK, XportRelease, clocks, calls, history
<1>2. ASSUME NEW p \in Pid, NEW q \in Pid, Forward(p, q) PROVE TypeOK'
  <2>1. chan[p][q] \in Seq(Message) /\ chan[p] \in [Pid -> Seq(Message)]
        /\ inbound[q] \in Seq(Message) /\ chan[p][q] # <<>>
    BY <1>2 DEF TypeOK, Forward
  <2>2. Head(chan[p][q]) \in Message /\ Tail(chan[p][q]) \in Seq(Message)
    BY <2>1, QueueTyping
  <2>3. Append(inbound[q], Head(chan[p][q])) \in Seq(Message)
    BY <2>1, <2>2
  <2>4. chan' \in [Pid -> [Pid -> Seq(Message)]]
    BY <1>2, <2>1, <2>2, Zenon DEF TypeOK, Forward
  <2>5. inbound' \in [Pid -> Seq(Message)]
    BY <1>2, <2>3 DEF TypeOK, Forward
  <2> QED
    BY <1>2, <2>4, <2>5, Zenon DEF TypeOK, Forward, clocks, calls, history
<1> QED
  BY <1>1, <1>2

\* What a run goroutine works on is a message, a mode and a clock.
LEMMA CurTyping ==
    ASSUME TypeOK, NEW p \in Pid, NEW h \in cur[p]
    PROVE  /\ h.msg \in Message
           /\ h.mode \in Mode
           /\ h.localVC \in vector!Clock
           /\ h.msg.from \in Pid
           /\ h.msg.SentVC \in vector!Clock
<1>1. h \in Handling
  BY DEF TypeOK
<1>2. h.msg \in Message
  BY <1>1 DEF Handling
<1> QED
  BY <1>1, <1>2 DEF Handling, Message

\* So does every step of a run goroutine.
LEMMA RunType ==
    ASSUME TypeOK, NEW p \in Pid, RunStep(p)
    PROVE  TypeOK'
<1>1. CASE handleMessage(p)
  <2>1. Head(inbound[p]) \in Message /\ Tail(inbound[p]) \in Seq(Message)
    BY <1>1, QueueTyping, Zenon DEF handleMessage, TypeOK
  <2>2. [msg |-> Head(inbound[p]), mode |-> mode[p], localVC |-> vectorClock[p]]
           \in Handling
    BY <2>1 DEF TypeOK, Handling
  <2>3. cur' \in [Pid -> SUBSET Handling]
    BY <1>1, <2>2, Zenon DEF handleMessage, TypeOK
  <2>4. inbound' \in [Pid -> Seq(Message)]
    BY <1>1, <2>1, Zenon DEF handleMessage, TypeOK
  <2> QED
    BY <1>1, <2>3, <2>4, Zenon DEF handleMessage, TypeOK, clocks, network, calls, history
<1>2. CASE deliverImmediate(p)
  <2>1. PICK h \in cur[p] :
             /\ receiveClock(p, h.msg)
             /\ Deliver(p, h.msg)
             /\ cur' = [cur EXCEPT ![p] = {}]
             /\ UNCHANGED <<mode, hbq, flushing, inbound, network, calls, sent,
                            alwaysCausal>>
    BY <1>2 DEF deliverImmediate
  <2>2. h.msg \in Message
    BY CurTyping
  <2>3. /\ lamportClock' \in [Pid -> Nat]
        /\ vectorClock' \in [Pid -> vector!Clock]
        /\ matrixClock' \in [Pid -> matrix!Clock]
    BY <2>1, <2>2, ReceiveTyping
  <2>4. /\ ticks' \in [Pid -> Nat]
        /\ past' \in [Pid -> SUBSET EventId]
        /\ log' \in SUBSET Event
        /\ delivered' \in [Pid -> SUBSET EventId]
        /\ receipts' \in [Pid -> Nat]
    BY <2>1, <2>2, <2>3, DeliverTyping, Zenon
  <2>5. cur' \in [Pid -> SUBSET Handling]
    BY <2>1, Zenon DEF TypeOK
  <2> QED
    BY <2>1, <2>3, <2>4, <2>5 DEF TypeOK, network, calls
<1>3. CASE deliverCausal(p)
  <2>1. PICK h \in cur[p] :
             /\ vectorClock' = [vectorClock EXCEPT
                                  ![p] = vector!Receive(@, h.msg.SentVC, p)]
             /\ UNCHANGED <<lamportClock, matrixClock>>
             /\ Deliver(p, h.msg)
             /\ cur' = [cur EXCEPT ![p] = {}]
             /\ flushing' = flushing \cup {p}
             /\ UNCHANGED <<mode, hbq, inbound, network, calls, sent, alwaysCausal>>
    BY <1>3, Zenon DEF deliverCausal
  <2>2. h.msg \in Message /\ h.msg.SentVC \in vector!Clock
        /\ vectorClock[p] \in vector!Clock
    BY CurTyping, Zenon DEF TypeOK
  <2>3. vector!Receive(vectorClock[p], h.msg.SentVC, p) \in vector!Clock
    BY <2>2, VectorTyping, Zenon
  <2>4. vectorClock' \in [Pid -> vector!Clock] /\ lamportClock' \in [Pid -> Nat]
    BY <2>1, <2>3 DEF TypeOK
  <2>5. /\ ticks' \in [Pid -> Nat]
        /\ past' \in [Pid -> SUBSET EventId]
        /\ log' \in SUBSET Event
        /\ delivered' \in [Pid -> SUBSET EventId]
        /\ receipts' \in [Pid -> Nat]
    BY <2>1, <2>2, <2>4, DeliverTyping
  <2>6. cur' \in [Pid -> SUBSET Handling] /\ flushing' \in SUBSET Pid
    BY <2>1, Zenon DEF TypeOK
  <2> QED
    BY <2>1, <2>4, <2>5, <2>6 DEF TypeOK, network, calls
<1>4. CASE Enqueue(p)
  <2>1. PICK h \in cur[p] :
             /\ hbq' = [hbq EXCEPT ![p] = Append(@, h.msg)]
             /\ cur' = [cur EXCEPT ![p] = {}]
             /\ UNCHANGED <<clocks, mode, flushing, inbound, network, calls, history,
                            sent, delivered, receipts, alwaysCausal>>
    BY <1>4, Zenon DEF Enqueue
  <2>2. h.msg \in Message /\ hbq[p] \in Seq(Message)
    BY CurTyping, Zenon DEF TypeOK
  <2>3. Append(hbq[p], h.msg) \in Seq(Message)
    BY <2>2
  <2>4. hbq' \in [Pid -> Seq(Message)] /\ cur' \in [Pid -> SUBSET Handling]
    BY <2>1, <2>3, Zenon DEF TypeOK
  <2> QED
    BY <2>1, <2>4 DEF TypeOK, clocks, network, calls, history
<1>5. CASE TryDeliver(p)
  <2>1. PICK i \in 1..Len(hbq[p]) :
             /\ vectorClock' = [vectorClock EXCEPT
                  ![p] = HeldReceive(@, hbq[p][i].SentVC, hbq[p][i].from, p)]
             /\ UNCHANGED <<lamportClock, matrixClock>>
             /\ Deliver(p, hbq[p][i])
             /\ hbq' = [hbq EXCEPT ![p] = SwapRemove(@, i)]
    BY <1>5, Zenon DEF TryDeliver
  <2>2. hbq[p] \in Seq(Message) /\ vectorClock[p] \in vector!Clock
    BY DEF TypeOK
  <2>3. hbq[p][i] \in Message
    BY <2>2
  <2>4. hbq[p][i].SentVC \in vector!Clock /\ hbq[p][i].from \in Pid
    BY <2>3, Zenon DEF Message
  <2>5. HeldReceive(vectorClock[p], hbq[p][i].SentVC, hbq[p][i].from, p) \in vector!Clock
    BY <2>2, <2>4, VectorTyping, Zenon
  <2>6. vectorClock' \in [Pid -> vector!Clock] /\ lamportClock' \in [Pid -> Nat]
    BY <2>1, <2>5, Zenon DEF TypeOK
  <2>7. /\ ticks' \in [Pid -> Nat]
        /\ past' \in [Pid -> SUBSET EventId]
        /\ log' \in SUBSET Event
        /\ delivered' \in [Pid -> SUBSET EventId]
        /\ receipts' \in [Pid -> Nat]
    BY <2>1, <2>3, <2>6, DeliverTyping, Zenon
  <2>8. SwapRemove(hbq[p], i) \in Seq(Message)
    BY <2>2, SwapRemoveTyping
  <2>9. hbq' \in [Pid -> Seq(Message)]
    BY <2>1, <2>8, Zenon DEF TypeOK
  <2> QED
    BY <1>5, <2>1, <2>6, <2>7, <2>9, Zenon DEF TryDeliver, TypeOK, network, calls
<1>6. CASE TryDeliverReturn(p)
  BY <1>6, Zenon DEF TryDeliverReturn, TypeOK, clocks, network, calls, history
<1> QED
  BY <1>1, <1>2, <1>3, <1>4, <1>5, <1>6 DEF RunStep

\* Every step keeps the types.
LEMMA NextType ==
    ASSUME TypeOK, [Next]_vars
    PROVE  TypeOK'
<1>1. ASSUME NEW p \in Pid, InternalEvent(p) PROVE TypeOK'
  <2>1. tickClock(p) /\ Happens(p, {})
    BY <1>1 DEF InternalEvent
  <2>2. /\ lamportClock' \in [Pid -> Nat]
        /\ vectorClock' \in [Pid -> vector!Clock]
        /\ matrixClock' \in [Pid -> matrix!Clock]
    BY <2>1, TickTyping
  <2>3. /\ ticks' \in [Pid -> Nat]
        /\ past' \in [Pid -> SUBSET EventId]
        /\ log' \in SUBSET Event
    BY <2>1, <2>2, HappensTyping
  <2> QED
    BY <1>1, <2>2, <2>3, Zenon DEF InternalEvent, TypeOK, network, calls
<1>2. ASSUME NEW p \in Pid, NEW md \in Mode, SetDeliveryMode(p, md) PROVE TypeOK'
  <2>1. mode' \in [Pid -> Mode] /\ alwaysCausal' \in SUBSET Pid
    BY <1>2, Zenon DEF SetDeliveryMode, TypeOK
  <2> QED
    BY <1>2, <2>1, Zenon DEF SetDeliveryMode, TypeOK, clocks, network, calls, history
<1>3. CASE UNCHANGED vars
  BY <1>3 DEF vars, TypeOK, clocks, network, calls, history
<1> QED
  BY <1>1, <1>2, <1>3, CallerType, ReleaseForwardType, RunType DEF Next

\* Every variable of the processes, the queues and the network keeps its type:
\* the clocks stay total counters whatever is received, and no step puts
\* anything but a stamped message in a queue.
THEOREM Typing == Spec => []TypeOK
<1>1. TypeOK /\ [Next]_vars => TypeOK'
  BY NextType
<1> QED
  BY InitType, <1>1, PTL DEF Spec
=============================================================================
