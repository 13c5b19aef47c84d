-------------------------- MODULE ProcessTheorems --------------------------
(***************************************************************************)
(* The properties of Process, proved from the inductive invariant of       *)
(* ProcessCausality: what the vector clocks mean, what vector.Compare      *)
(* answers, and what causal delivery guarantees.                           *)
(***************************************************************************)
EXTENDS ProcessCausality

-----------------------------------------------------------------------------
(* Vector clocks count the causal past. *)

\* The events a timestamp stands for, element by element.
LEMMA EventsMember ==
    ASSUME NEW vc \in [Pid -> Nat], NEW q \in Pid, NEW n \in Nat
    PROVE  <<q, n>> \in EventsOf(vc) <=> 1 <= n /\ n <= vc[q]
<1>1. ASSUME <<q, n>> \in EventsOf(vc) PROVE 1 <= n /\ n <= vc[q]
  <2>1. PICK r \in Pid : <<q, n>> \in {<<r, i>> : i \in 1..vc[r]}
    BY <1>1 DEF EventsOf
  <2>2. PICK i \in 1..vc[r] : <<q, n>> = <<r, i>>
    BY <2>1
  <2> QED
    BY <2>2
<1>2. ASSUME 1 <= n, n <= vc[q] PROVE <<q, n>> \in EventsOf(vc)
  <2>1. n \in 1..vc[q]
    BY <1>2
  <2> QED
    BY <2>1 DEF EventsOf
<1> QED
  BY <1>1, <1>2

\* A timestamp stands for events.
LEMMA EventsTyping ==
    ASSUME NEW vc \in [Pid -> Nat], NEW e \in EventsOf(vc)
    PROVE  \E q \in Pid, n \in Nat : e = <<q, n>>
<1>1. PICK q \in Pid : e \in {<<q, n>> : n \in 1..vc[q]}
  BY DEF EventsOf
<1>2. PICK n \in 1..vc[q] : e = <<q, n>>
  BY <1>1
<1> QED
  BY <1>2

\* Adding p's next event to a set of events is raising p's own component.
LEMMA EventsAdd ==
    ASSUME NEW a \in [Pid -> Nat], NEW b \in [Pid -> Nat], NEW p \in Pid,
           b[p] = a[p] + 1, \A k \in Pid \ {p} : b[k] = a[k]
    PROVE  EventsOf(b) = EventsOf(a) \cup {<<p, a[p] + 1>>}
<1>1. ASSUME NEW q \in Pid, NEW n \in Nat
      PROVE  <<q, n>> \in EventsOf(b)
                <=> <<q, n>> \in EventsOf(a) \/ <<q, n>> = <<p, a[p] + 1>>
  <2>1. 1 <= n /\ n <= b[q] <=> (1 <= n /\ n <= a[q]) \/ (q = p /\ n = a[p] + 1)
    OBVIOUS
  <2>2. <<q, n>> = <<p, a[p] + 1>> <=> q = p /\ n = a[p] + 1
    OBVIOUS
  <2> QED
    BY <2>1, <2>2, EventsMember
<1>2. a[p] + 1 \in Nat
  OBVIOUS
<1>3. \A e \in EventsOf(b) : e \in EventsOf(a) \cup {<<p, a[p] + 1>>}
  BY <1>1, EventsTyping
<1>4. \A e \in EventsOf(a) \cup {<<p, a[p] + 1>>} : e \in EventsOf(b)
  BY <1>1, <1>2, EventsTyping
<1> QED
  BY <1>3, <1>4

\* Merging two timestamps is uniting their events.
LEMMA EventsMerge ==
    ASSUME NEW a \in [Pid -> Nat], NEW b \in [Pid -> Nat]
    PROVE  EventsOf(vector!MergePassive(a, b)) = EventsOf(a) \cup EventsOf(b)
<1> DEFINE c == vector!MergePassive(a, b)
<1>1. c \in [Pid -> Nat]
  BY DEF vector!MergePassive
<1>2. \A k \in Pid : c[k] = IF a[k] < b[k] THEN b[k] ELSE a[k]
  BY DEF vector!MergePassive
<1> HIDE DEF c
<1>3. ASSUME NEW q \in Pid, NEW n \in Nat
      PROVE  <<q, n>> \in EventsOf(c)
                <=> <<q, n>> \in EventsOf(a) \/ <<q, n>> \in EventsOf(b)
  <2>1. n <= c[q] <=> n <= a[q] \/ n <= b[q]
    BY <1>2
  <2> QED
    BY <1>1, <2>1, EventsMember
<1>4. \A e \in EventsOf(c) : e \in EventsOf(a) \cup EventsOf(b)
  BY <1>1, <1>3, EventsTyping
<1>5. \A e \in EventsOf(a) \cup EventsOf(b) : e \in EventsOf(c)
  BY <1>3, EventsTyping
<1>6. EventsOf(c) = EventsOf(a) \cup EventsOf(b)
  BY <1>4, <1>5
<1> QED
  BY <1>6 DEF c

\* ClockIsCausalPast is preserved by a tick, which is p's next event ...
LEMMA PastTick ==
    ASSUME TypeOK, TypeOK', AllVector, Stamps, ClockIsCausalPast,
           NEW p \in Pid, TickStep(p)
    PROVE  ClockIsCausalPast'
<1>0. /\ vectorClock \in [Pid -> [Pid -> Nat]] /\ past \in [Pid -> SUBSET EventId]
      /\ vectorClock' \in [Pid -> [Pid -> Nat]]
  BY DEF TypeOK, vector!Clock
<1>1. \A r, k \in Pid : vectorClock'[r][k] =
         IF r = p /\ k = p THEN vectorClock[r][k] + 1 ELSE vectorClock[r][k]
  BY TickComponents
<1>2. \A r \in Pid \ {p} : vectorClock'[r] = vectorClock[r]
  BY <1>0 DEF TickStep
<1>3. vectorClock[p][p] = ticks[p]
  BY DEF Stamps
<1>4. EventsOf(vectorClock'[p]) = EventsOf(vectorClock[p]) \cup {<<p, ticks[p] + 1>>}
  <2>1. /\ vectorClock[p] \in [Pid -> Nat] /\ vectorClock'[p] \in [Pid -> Nat]
        /\ vectorClock'[p][p] = vectorClock[p][p] + 1
        /\ \A k \in Pid \ {p} : vectorClock'[p][k] = vectorClock[p][k]
    BY <1>0, <1>1
  <2> QED
    BY <1>3, <2>1, EventsAdd
<1>5. past' = [past EXCEPT ![p] = (past[p] \cup {}) \cup {<<p, ticks[p] + 1>>}]
  BY DEF TickStep, Happens
<1>6. past'[p] = past[p] \cup {<<p, ticks[p] + 1>>}
      /\ \A r \in Pid \ {p} : past'[r] = past[r]
  BY <1>0, <1>5
<1>7. past'[p] = EventsOf(vectorClock'[p])
  BY <1>4, <1>6 DEF ClockIsCausalPast
<1>8. \A r \in Pid : past'[r] = EventsOf(vectorClock'[r])
  BY <1>2, <1>6, <1>7 DEF ClockIsCausalPast
<1>9. ASSUME NEW m \in sent' PROVE m.past = EventsOf(m.SentVC)
  <2>1. CASE m \in sent
    BY <2>1 DEF ClockIsCausalPast
  <2>2. ASSUME NEW q \in Pid, m = Stamped(p, q) PROVE m.past = EventsOf(m.SentVC)
    <3>1. m.SentVC = vectorClock'[p] /\ m.past = past[p] \cup {<<p, ticks[p] + 1>>}
      BY <2>2, NewStamp
    <3> QED
      BY <1>6, <1>7, <3>1
  <2> QED
    BY <2>1, <2>2 DEF TickStep
<1> QED
  BY <1>8, <1>9 DEF ClockIsCausalPast, AllVector

\* ... and by the receipt of a message, which adds the message's past.
LEMMA PastReceive ==
    ASSUME TypeOK, TypeOK', AllVector, Stamps, ClockIsCausalPast,
           NEW p \in Pid, NEW m \in To(p), ReceiveStep(p, m)
    PROVE  ClockIsCausalPast'
<1>0. /\ vectorClock \in [Pid -> [Pid -> Nat]] /\ past \in [Pid -> SUBSET EventId]
      /\ m.SentVC \in [Pid -> Nat] /\ m \in sent
  BY Zenon DEF TypeOK, vector!Clock, To, Message
<1> DEFINE merged == vector!MergePassive(vectorClock[p], m.SentVC)
<1>1. merged \in [Pid -> Nat]
  BY <1>0 DEF vector!MergePassive
<1>2. vectorClock' = [vectorClock EXCEPT ![p] = [merged EXCEPT ![p] = @ + 1]]
  BY DEF ReceiveStep, vector!Receive, vector!Tick
<1>3. m.SentVC[p] <= vectorClock[p][p] /\ vectorClock[p][p] = ticks[p]
  BY <1>0 DEF Stamps
<1>4. merged[p] = ticks[p]
  BY <1>0, <1>3 DEF vector!MergePassive
<1>5. EventsOf(merged) = EventsOf(vectorClock[p]) \cup EventsOf(m.SentVC)
  BY <1>0, EventsMerge
<1> HIDE DEF merged
<1>6. /\ vectorClock'[p] \in [Pid -> Nat]
      /\ vectorClock'[p][p] = merged[p] + 1
      /\ \A k \in Pid \ {p} : vectorClock'[p][k] = merged[k]
      /\ \A r \in Pid \ {p} : vectorClock'[r] = vectorClock[r]
  BY <1>0, <1>1, <1>2
<1>7. EventsOf(vectorClock'[p]) = EventsOf(merged) \cup {<<p, ticks[p] + 1>>}
  BY <1>1, <1>4, <1>6, EventsAdd
<1>8. past' = [past EXCEPT ![p] = (past[p] \cup m.past) \cup {<<p, ticks[p] + 1>>}]
  BY DEF ReceiveStep, Deliver, Happens
<1>9. /\ past'[p] = (past[p] \cup m.past) \cup {<<p, ticks[p] + 1>>}
      /\ \A r \in Pid \ {p} : past'[r] = past[r]
  BY <1>0, <1>8
<1>10. past[p] = EventsOf(vectorClock[p]) /\ m.past = EventsOf(m.SentVC)
  BY <1>0 DEF ClockIsCausalPast
<1>11. past'[p] = EventsOf(vectorClock'[p])
  BY <1>5, <1>7, <1>9, <1>10
<1>12. \A r \in Pid : past'[r] = EventsOf(vectorClock'[r])
  BY <1>6, <1>9, <1>11 DEF ClockIsCausalPast
<1>13. sent' = sent
  BY DEF ReceiveStep
<1> QED
  BY <1>12, <1>13, Zenon DEF ClockIsCausalPast, AllVector

\* Every step preserves ClockIsCausalPast.
LEMMA PastStep ==
    ASSUME AllVector, TypeOK, TypeOK', CausalInv, ClockIsCausalPast, [Next]_vars
    PROVE  ClockIsCausalPast'
<1>1. \/ \E p \in Pid : TickStep(p)
      \/ \E p \in Pid : \E m \in To(p) : ReceiveStep(p, m)
      \/ QuietStep
  BY StepKinds DEF CausalInv
<1>2. CASE QuietStep
  BY <1>2 DEF QuietStep, ClockIsCausalPast, AllVector
<1>3. Stamps
  BY DEF CausalInv
<1>4. ASSUME NEW p \in Pid, TickStep(p) PROVE ClockIsCausalPast'
  BY <1>3, <1>4, PastTick
<1>5. ASSUME NEW p \in Pid, NEW m \in To(p), ReceiveStep(p, m)
      PROVE  ClockIsCausalPast'
  BY <1>3, <1>5, PastReceive
<1> QED
  BY <1>1, <1>2, <1>4, <1>5

\* It holds of the zero clocks.
LEMMA PastInit == AllVector /\ Init => ClockIsCausalPast
<1> SUFFICES ASSUME AllVector, Init PROVE ClockIsCausalPast
  OBVIOUS
<1>1. vector!New \in [Pid -> Nat] /\ \A q \in Pid : vector!New[q] = 0
  BY DEF vector!New
<1>2. ASSUME NEW q \in Pid, NEW n \in Nat PROVE <<q, n>> \notin EventsOf(vector!New)
  <2>1. <<q, n>> \in EventsOf(vector!New) <=> 1 <= n /\ n <= vector!New[q]
    BY <1>1, EventsMember
  <2> QED
    BY <1>1, <2>1
<1>3. EventsOf(vector!New) = {}
  BY <1>1, <1>2, EventsTyping
<1> QED
  BY <1>3 DEF Init, ClockIsCausalPast

\* The vector clock of a process counts exactly the events of its causal past,
\* in every delivery mode and whatever the transport does.
THEOREM ClocksAreCausalPasts == ASSUME AllVector PROVE Spec => []ClockIsCausalPast
<1>1. TypeOK /\ TypeOK' /\ CausalInv /\ ClockIsCausalPast /\ [Next]_vars
        => ClockIsCausalPast'
  BY PastStep
<1>2. Init => ClockIsCausalPast
  BY PastInit
<1> QED
  BY <1>1, <1>2, Typing, CausalInvHolds, PTL DEF Spec

-----------------------------------------------------------------------------
(* Causal delivery. *)

\* A process that was never in immediate mode receives no message before one
\* of that message's causal past that was sent to it (deliverCausal and
\* TryDeliver), whatever is lost, delayed, duplicated or concurrent.
THEOREM CausalDelivery == ASSUME AllVector PROVE Spec => []CausalOrder
<1>1. TypeOK /\ CausalInv /\ ClockIsCausalPast => CausalOrder
  <2> SUFFICES ASSUME TypeOK, CausalInv, ClockIsCausalPast,
                      NEW p \in alwaysCausal, NEW m \in sent, NEW n \in sent,
                      m.id \in delivered[p], n.to = p, n.from # p, n.id \in m.past
               PROVE  n.id \in delivered[p]
    BY Zenon DEF CausalOrder
  <2>1. /\ p \in Pid /\ n.from \in Pid
        /\ m.SentVC \in [Pid -> Nat] /\ n.SentVC \in [Pid -> Nat]
        /\ vectorClock[p] \in [Pid -> Nat]
    BY Zenon DEF TypeOK, Message, vector!Clock
  <2>2. n.id = <<n.from, n.SentVC[n.from]>>
    BY DEF CausalInv, Stamps
  <2>3. <<n.from, n.SentVC[n.from]>> \in EventsOf(m.SentVC)
    BY <2>2, Zenon DEF ClockIsCausalPast, AllVector
  <2>4. n.SentVC[n.from] \in Nat
    BY <2>1
  <2>5. n.SentVC[n.from] <= m.SentVC[n.from]
    BY <2>1, <2>3, <2>4, EventsMember
  <2>6. m.SentVC[n.from] <= vectorClock[p][n.from]
    BY <2>1 DEF CausalInv, Received
  <2>7. n.SentVC[n.from] <= vectorClock[p][n.from]
    BY <2>1, <2>5, <2>6
  <2> QED
    BY <2>7 DEF CausalInv, Prefix, To
<1> QED
  BY <1>1, Typing, CausalInvHolds, ClocksAreCausalPasts, PTL

\* The clock deliverCausal copied before it released p.mu gives the same verdict
\* as the clock it acts on.
THEOREM NoStaleVerdict == ASSUME AllVector PROVE Spec => []VerdictNotStale
<1>1. TypeOK /\ CausalInv => VerdictNotStale
  BY SameVerdict DEF CausalInv, VerdictNotStale
<1> QED
  BY <1>1, Typing, CausalInvHolds, PTL

-----------------------------------------------------------------------------
(* The hold-back queue. *)

\* The heart of HeldIsBlocked: nothing deliverable is held outside TryDeliver.
NothingReady ==
    \A p \in alwaysCausal \ flushing : \A m \in Contents(hbq[p]) :
        ~vector!canDeliver(m.SentVC, m.from, vectorClock[p])

\* p's own ticks, from API calls that run between two messages, make no held
\* message deliverable.
LEMMA ReadyTick ==
    ASSUME TypeOK, CausalInv, NothingReady, NEW p \in Pid, TickStep(p)
    PROVE  NothingReady'
<1>0. vectorClock \in [Pid -> [Pid -> Nat]]
  BY Zenon DEF TypeOK, vector!Clock
<1>1. \A r, k \in Pid : vectorClock'[r][k] =
         IF r = p /\ k = p THEN vectorClock[r][k] + 1 ELSE vectorClock[r][k]
  BY TickComponents
<1>2. UNCHANGED <<hbq, flushing, alwaysCausal>>
  BY DEF TickStep
<1> SUFFICES ASSUME NEW r \in alwaysCausal \ flushing, NEW m \in Contents(hbq[r]),
                    vector!canDeliver(m.SentVC, m.from, vectorClock'[r])
             PROVE  FALSE
  BY <1>2, Zenon DEF NothingReady
<1>3. r \in Pid /\ m \in sent /\ m.from # r
  BY Zenon DEF TypeOK, CausalInv, Transit, To
<1>4. m.from \in Pid /\ m.SentVC \in [Pid -> Nat]
  BY <1>3, Zenon DEF TypeOK, Message, vector!Clock
<1>5. m.SentVC[r] <= vectorClock[r][r]
  BY <1>3, Zenon DEF CausalInv, Stamps
<1>6. \A k \in Pid \ {r} : vectorClock'[r][k] = vectorClock[r][k]
  BY <1>1, <1>3, Zenon
<1>7. vector!canDeliver(m.SentVC, m.from, vectorClock[r])
  BY <1>0, <1>3, <1>4, <1>5, <1>6 DEF vector!canDeliver
<1> QED
  BY <1>7 DEF NothingReady

\* A step that leaves every clock and queue but p's alone needs a look at p only.
LEMMA ReadyElsewhere ==
    ASSUME NothingReady, NEW p \in Pid, alwaysCausal' \subseteq alwaysCausal,
           alwaysCausal' \subseteq Pid,
           \A r \in Pid \ {p} : /\ vectorClock'[r] = vectorClock[r]
                                /\ hbq'[r] = hbq[r]
                                /\ r \in flushing' <=> r \in flushing,
           p \in alwaysCausal' \ flushing' =>
               \A m \in Contents(hbq'[p]) :
                   ~vector!canDeliver(m.SentVC, m.from, vectorClock'[p])
    PROVE  NothingReady'
<1> SUFFICES ASSUME NEW r \in alwaysCausal' \ flushing', NEW m \in Contents(hbq'[r])
             PROVE  ~vector!canDeliver(m.SentVC, m.from, vectorClock'[r])
  BY DEF NothingReady, Contents
<1> QED
  BY DEF NothingReady

\* A step of the run goroutine leaves nothing deliverable outside TryDeliver.
LEMMA ReadyRun ==
    ASSUME TypeOK, TypeOK', AllVector, CausalInv, NothingReady,
           NEW p \in Pid, RunStep(p)
    PROVE  NothingReady'
<1>0. /\ vectorClock \in [Pid -> vector!Clock] /\ hbq \in [Pid -> Seq(Message)]
      /\ flushing \subseteq Pid /\ alwaysCausal \subseteq Pid
      /\ alwaysCausal' \subseteq Pid
  BY Zenon DEF TypeOK
<1>1. CASE handleMessage(p)
  <2>1. UNCHANGED <<vectorClock, hbq, flushing, alwaysCausal>>
    BY <1>1, Zenon DEF handleMessage, clocks
  <2> QED
    BY <2>1 DEF NothingReady, Contents
<1>2. CASE deliverImmediate(p)
  <2>1. PICK h \in cur[p] :
             /\ ~Causal(h.mode) /\ receiveClock(p, h.msg)
             /\ UNCHANGED <<hbq, flushing, alwaysCausal>>
    BY <1>2 DEF deliverImmediate
  <2>2. p \notin alwaysCausal
    BY <2>1, Zenon DEF CausalInv, Copied
  <2>3. \A r \in Pid \ {p} : vectorClock'[r] = vectorClock[r]
    BY <1>0, <2>1, Zenon DEF receiveClock, AllVector
  <2> QED
    BY <1>0, <2>1, <2>2, <2>3, ReadyElsewhere
<1>3. CASE deliverCausal(p)
  <2>1. PICK h \in cur[p] :
             /\ vectorClock' = [vectorClock EXCEPT
                                  ![p] = vector!Receive(@, h.msg.SentVC, p)]
             /\ flushing' = flushing \cup {p}
             /\ UNCHANGED <<hbq, alwaysCausal>>
    BY <1>3, Zenon DEF deliverCausal
  <2>2. \A r \in Pid \ {p} : vectorClock'[r] = vectorClock[r]
                              /\ (r \in flushing' <=> r \in flushing)
    BY <1>0, <2>1
  <2>3. p \in flushing'
    BY <2>1, Zenon
  <2> QED
    BY <1>0, <2>1, <2>2, <2>3, ReadyElsewhere
<1>4. CASE Enqueue(p)
  <2>1. PICK h \in cur[p] :
             /\ ~vector!canDeliver(h.msg.SentVC, h.msg.from, h.localVC)
             /\ hbq' = [hbq EXCEPT ![p] = Append(@, h.msg)]
             /\ UNCHANGED <<vectorClock, flushing, alwaysCausal>>
    BY <1>4, Zenon DEF Enqueue, clocks
  <2>2. h.msg \in Message
    BY CurTyping, Zenon
  <2>3. /\ hbq'[p] = Append(hbq[p], h.msg)
        /\ \A r \in Pid \ {p} : hbq'[r] = hbq[r]
        /\ hbq[p] \in Seq(Message)
    BY <1>0, <2>1
  <2>4. Contents(hbq'[p]) = Contents(hbq[p]) \cup {h.msg}
    BY <2>2, <2>3, QueueContents
  <2>5. ~vector!canDeliver(h.msg.SentVC, h.msg.from, vectorClock[p])
    BY <2>1, SameVerdict DEF CausalInv
  <2>6. p \in alwaysCausal \ flushing =>
           \A m \in Contents(hbq'[p]) :
               ~vector!canDeliver(m.SentVC, m.from, vectorClock[p])
    BY <2>4, <2>5, Zenon DEF NothingReady
  <2> QED
    BY <1>0, <2>1, <2>3, <2>6, ReadyElsewhere
<1>5. CASE TryDeliver(p)
  <2>1. PICK i \in 1..Len(hbq[p]) :
             /\ vectorClock' = [vectorClock EXCEPT
                  ![p] = HeldReceive(@, hbq[p][i].SentVC, hbq[p][i].from, p)]
             /\ hbq' = [hbq EXCEPT ![p] = SwapRemove(@, i)]
    BY <1>5, Zenon DEF TryDeliver
  <2>2. p \in flushing /\ UNCHANGED <<flushing, alwaysCausal>>
    BY <1>5, Zenon DEF TryDeliver
  <2>3. \A r \in Pid \ {p} : vectorClock'[r] = vectorClock[r] /\ hbq'[r] = hbq[r]
    BY <1>0, <2>1
  <2> QED
    BY <1>0, <2>2, <2>3, ReadyElsewhere, Zenon
<1>6. CASE TryDeliverReturn(p)
  <2>1. /\ flushing' = flushing \ {p}
        /\ UNCHANGED <<vectorClock, hbq, alwaysCausal>>
        /\ \A i \in 1..Len(hbq[p]) :
              ~vector!canDeliver(hbq[p][i].SentVC, hbq[p][i].from, vectorClock[p])
    BY <1>6 DEF TryDeliverReturn, clocks
  <2>2. \A m \in Contents(hbq[p]) :
           ~vector!canDeliver(m.SentVC, m.from, vectorClock[p])
    BY <2>1, Zenon DEF Contents
  <2>3. \A r \in Pid \ {p} : r \in flushing' <=> r \in flushing
    BY <2>1
  <2> QED
    BY <1>0, <2>1, <2>2, <2>3, ReadyElsewhere
<1> QED
  BY <1>1, <1>2, <1>3, <1>4, <1>5, <1>6 DEF RunStep

\* Nor does any other step.
LEMMA ReadyStep ==
    ASSUME TypeOK, TypeOK', AllVector, CausalInv, NothingReady, [Next]_vars
    PROVE  NothingReady'
<1>1. ASSUME UNCHANGED <<vectorClock, hbq, flushing>>, alwaysCausal' \subseteq alwaysCausal
      PROVE  NothingReady'
  BY <1>1 DEF NothingReady, Contents
<1>2. ASSUME NEW p \in Pid, InternalEvent(p) PROVE NothingReady'
  <2>1. TickStep(p)
    BY <1>2 DEF InternalEvent, TickStep, tickClock, AllVector
  <2> QED
    BY <2>1, ReadyTick, Zenon
<1>3. ASSUME NEW p \in Pid, NEW md \in Mode, SetDeliveryMode(p, md)
      PROVE  NothingReady'
  BY <1>1, <1>3, Zenon DEF SetDeliveryMode, clocks
<1>4. ASSUME NEW c \in Caller, CallerStep(c) PROVE NothingReady'
  <2>1. ASSUME NEW p \in Pid, NEW q \in Pid, Stamp(c, p, q) PROVE NothingReady'
    <3>1. tickClock(p) /\ Happens(p, {}) /\ sent' = sent \cup {Stamped(p, q)}
          /\ UNCHANGED <<delivered, receipts, alwaysCausal, hbq, cur, flushing, mode>>
      BY <2>1 DEF Stamp, Stamped
    <3>2. TickStep(p)
      BY <3>1 DEF TickStep, tickClock, AllVector
    <3> QED
      BY <3>2, ReadyTick, Zenon
  <2>2. ASSUME NEW p \in Pid, NEW q \in Pid, Send(c, p, q) PROVE NothingReady'
    BY <2>1, <2>2 DEF Send
  <2>3. ASSUME NEW p \in Pid, Broadcast(c, p) PROVE NothingReady'
    <3>1. Peers[p] \in Seq(Pid) /\ Peers[p] # <<>>
      BY <2>3, ConstantsAssumption DEF Broadcast
    <3>2. Head(Peers[p]) \in Pid
      BY <3>1
    <3> QED
      BY <2>1, <2>3, <3>2 DEF Broadcast
  <2>4. ASSUME BroadcastNext(c) PROVE NothingReady'
    <3>1. todo[c] \in Seq(Pid \X Pid) /\ todo[c] # <<>>
      BY <2>4 DEF BroadcastNext, TypeOK
    <3>2. Head(todo[c]) \in Pid \X Pid
      BY <3>1
    <3>3. Head(todo[c])[1] \in Pid /\ Head(todo[c])[2] \in Pid
      BY <3>2, Zenon
    <3> QED
      BY <2>1, <2>4, <3>3, Zenon DEF BroadcastNext
  <2>5. ASSUME FinishSend(c) PROVE NothingReady'
    BY <1>1, <2>5, Zenon DEF FinishSend, XportSend, XportFail, XportDrop, XportDelay, clocks
  <2> QED
    BY <1>4, <2>2, <2>3, <2>4, <2>5 DEF CallerStep
<1>5. ASSUME NEW m \in late, XportRelease(m) PROVE NothingReady'
  BY <1>1, <1>5 DEF XportRelease, clocks
<1>6. ASSUME NEW p \in Pid, NEW q \in Pid, Forward(p, q) PROVE NothingReady'
  BY <1>1, <1>6 DEF Forward, clocks
<1>7. ASSUME NEW p \in Pid, RunStep(p) PROVE NothingReady'
  BY <1>7, ReadyRun
<1>8. CASE UNCHANGED vars
  BY <1>1, <1>8 DEF vars, clocks
<1> QED
  BY <1>2, <1>3, <1>4, <1>5, <1>6, <1>7, <1>8 DEF Next

\* No deliverable message stays in the hold-back queue once TryDeliver has
\* returned, and BlockedBy can name the blocker of every message that waits.
THEOREM HeldMessagesAreBlocked == ASSUME AllVector PROVE Spec => []HeldIsBlocked
<1>1. TypeOK /\ TypeOK' /\ CausalInv /\ NothingReady /\ [Next]_vars => NothingReady'
  BY ReadyStep, Zenon
<1>2. Init => NothingReady
  BY DEF Init, NothingReady, Contents
<1>3. TypeOK /\ CausalInv /\ NothingReady => HeldIsBlocked
  <2> SUFFICES ASSUME TypeOK, CausalInv, NothingReady,
                      NEW p \in alwaysCausal \ flushing, NEW m \in Contents(hbq[p]),
                      m.id \notin delivered[p]
               PROVE  BlockedBy(p, m) # {}
    BY Zenon DEF HeldIsBlocked, NothingReady
  <2>1. p \in Pid /\ p \in alwaysCausal /\ m \in To(p)
    BY Zenon DEF TypeOK, CausalInv, Transit
  <2>2. /\ m.from \in Pid /\ m.SentVC \in [Pid -> Nat]
        /\ vectorClock[p] \in [Pid -> Nat]
    BY <2>1, Zenon DEF TypeOK, To, Message, vector!Clock
  <2>3. ~(m.SentVC[m.from] <= vectorClock[p][m.from])
    BY <2>1 DEF CausalInv, Prefix
  <2>4. ~vector!canDeliver(m.SentVC, m.from, vectorClock[p])
    BY DEF NothingReady
  <2>5. \/ m.SentVC[m.from] > vectorClock[p][m.from] + 1
        \/ \E k \in Pid \ {m.from} : m.SentVC[k] > vectorClock[p][k] + 0
    BY <2>2, <2>3, <2>4 DEF vector!canDeliver
  <2> QED
    BY <2>2, <2>5, Zenon DEF BlockedBy
<1> QED
  BY <1>1, <1>2, <1>3, Typing, CausalInvHolds, PTL DEF Spec

-----------------------------------------------------------------------------
(* No duplicate deliveries. *)

\* What Cardinality needs on top of DeliveredAtMostOnce.
CountInv ==
    /\ \A p \in Pid : IsFiniteSet(delivered[p])
    /\ \A p \in alwaysCausal : Cardinality(delivered[p]) = receipts[p]

\* Every receipt of such a process is of a message it did not have.
LEMMA CountStep ==
    ASSUME TypeOK, AllVector, CausalInv, CountInv, [Next]_vars
    PROVE  CountInv'
<1>0. /\ delivered \in [Pid -> SUBSET EventId] /\ receipts \in [Pid -> Nat]
      /\ vectorClock \in [Pid -> [Pid -> Nat]] /\ alwaysCausal \subseteq Pid
  BY DEF TypeOK, vector!Clock
<1>1. ASSUME UNCHANGED <<delivered, receipts>>, alwaysCausal' \subseteq alwaysCausal
      PROVE  CountInv'
  BY <1>1, Zenon DEF CountInv
<1>2. ASSUME NEW p \in Pid, NEW m \in To(p), ReceiveStep(p, m) PROVE CountInv'
  <2>1. /\ delivered' = [delivered EXCEPT ![p] = @ \cup {m.id}]
        /\ receipts' = [receipts EXCEPT ![p] = @ + 1]
        /\ alwaysCausal' = alwaysCausal
    BY <1>2 DEF ReceiveStep, Deliver
  <2>2. /\ delivered'[p] = delivered[p] \cup {m.id} /\ receipts'[p] = receipts[p] + 1
        /\ \A r \in Pid \ {p} : delivered'[r] = delivered[r] /\ receipts'[r] = receipts[r]
    BY <1>0, <2>1
  <2>3. IsFiniteSet(delivered[p])
    BY DEF CountInv
  <2>4. IsFiniteSet(delivered'[p])
    <3>1. IsFiniteSet(delivered[p] \cup {m.id})
      BY <2>3, FS_AddElement
    <3> QED
      BY <2>2, <3>1, Zenon
  <2>5. ASSUME p \in alwaysCausal PROVE Cardinality(delivered'[p]) = receipts'[p]
    <3>1. vector!canDeliver(m.SentVC, m.from, vectorClock[p])
      BY <1>2, <2>5 DEF ReceiveStep
    <3>2. m \in sent /\ m.from \in Pid /\ m.SentVC \in [Pid -> Nat]
      BY Zenon DEF To, TypeOK, Message, vector!Clock
    <3>3. m.id \notin delivered[p]
      <4>1. SUFFICES ASSUME m.id \in delivered[p] PROVE FALSE
        BY Zenon
      <4>2. m.SentVC[m.from] <= vectorClock[p][m.from]
        BY <3>2, <4>1, Zenon DEF CausalInv, Received
      <4>3. m.SentVC[m.from] = vectorClock[p][m.from] + 1
        BY <3>1 DEF vector!canDeliver
      <4> QED
        BY <1>0, <3>2, <4>2, <4>3
    <3>4. Cardinality(delivered[p] \cup {m.id}) = Cardinality(delivered[p]) + 1
      BY <2>3, <3>3, FS_AddElement, Zenon
    <3> QED
      BY <2>2, <2>5, <3>4 DEF CountInv
  <2> QED
    BY <1>0, <2>1, <2>2, <2>4, <2>5, Zenon DEF CountInv
<1>3. \/ \E p \in Pid : TickStep(p)
      \/ \E p \in Pid : \E m \in To(p) : ReceiveStep(p, m)
      \/ QuietStep
  BY StepKinds DEF CausalInv
<1> QED
  BY <1>1, <1>2, <1>3 DEF TickStep, QuietStep

\* canDeliver rejects a message that was received already: a copy made by the
\* transport is never delivered to a process that was never in immediate mode.
THEOREM NoDuplicateDelivery == ASSUME AllVector PROVE Spec => []DeliveredAtMostOnce
<1>1. TypeOK /\ CausalInv /\ CountInv /\ [Next]_vars => CountInv'
  BY CountStep, Zenon
<1>2. Init => CountInv
  BY ConstantsAssumption, FS_EmptySet, Zenon DEF Init, CountInv
<1>3. CountInv => DeliveredAtMostOnce
  BY DEF CountInv, DeliveredAtMostOnce
<1> QED
  BY <1>1, <1>2, <1>3, Typing, CausalInvHolds, PTL DEF Spec
=============================================================================
