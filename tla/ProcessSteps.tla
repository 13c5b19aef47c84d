---------------------------- MODULE ProcessSteps ----------------------------
(***************************************************************************)
(* What vector clocks and causal delivery guarantee, proved for every set  *)
(* of processes and callers, every workload and every fault of Process:    *)
(* the inductive invariant, and the parts of it that are about clocks.     *)
(*                                                                         *)
(* The argument.  A step of the system changes the vector clocks in one of *)
(* two ways only: a process ticks its own component, or it receives one    *)
(* message (StepKinds).  Everything about clocks is proved on those two.   *)
(* Causal delivery then rests on one fact: a process that was never in     *)
(* immediate mode learns of the n-th event of s only by receiving from s,  *)
(* so whatever s sent to it up to that event it has received (Prefix).     *)
(***************************************************************************)
EXTENDS ProcessTyping, FiniteSetTheorems

\* The messages that can reach p.
To(p) == {m \in sent : m.to = p /\ m.from # p}

\* Everything under way is a message that was sent, on its way to its addressee.
Transit ==
    /\ \A m \in late : m \in sent /\ m.from # m.to
    /\ \A c \in Caller : sending[c] \subseteq sent
    /\ \A p, q \in Pid : Contents(chan[p][q]) \subseteq To(q)
    /\ \A p \in Pid : Contents(inbound[p]) \subseteq To(p)
    /\ \A p \in Pid : Contents(hbq[p]) \subseteq To(p)
    /\ \A p \in Pid : \A h \in cur[p] : h.msg \in To(p)

\* Nobody knows more events of q than q has had, q knows them all, and a
\* message is identified by its sender's own component.
Stamps ==
    /\ \A p \in Pid : vectorClock[p][p] = ticks[p]
    /\ \A p, q \in Pid : vectorClock[p][q] <= ticks[q]
    /\ \A m \in sent : /\ m.id = <<m.from, m.SentVC[m.from]>>
                       /\ m.SentVC[m.from] >= 1
                       /\ \A q \in Pid : m.SentVC[q] <= ticks[q]
    /\ \A m, n \in sent : m.id = n.id => m = n

\* The clock a run goroutine copied differs from the current one at most in
\* the own component, and there it already covers the message.
Copied ==
    /\ \A p \in alwaysCausal : Causal(mode[p])
    /\ \A p \in Pid : \A h \in cur[p] :
          /\ p \in alwaysCausal => Causal(h.mode)
          /\ p \notin flushing
          /\ \A k \in Pid \ {p} : h.localVC[k] = vectorClock[p][k]
          /\ h.localVC[p] <= vectorClock[p][p]
          /\ h.msg.SentVC[p] <= h.localVC[p]

\* A process knows what it received; and one that was never in immediate mode
\* has received all it was sent up to what it knows.
Received ==
    /\ \A p \in Pid : \A e \in delivered[p] : e[2] <= vectorClock[p][e[1]]
    /\ \A p \in Pid : \A m \in sent :
          m.id \in delivered[p] => \A k \in Pid : m.SentVC[k] <= vectorClock[p][k]

Prefix ==
    \A p \in alwaysCausal : \A m \in To(p) :
        m.SentVC[m.from] <= vectorClock[p][m.from] => m.id \in delivered[p]

-----------------------------------------------------------------------------
(* The two ways the clocks change. *)

TickStep(p) ==
    /\ vectorClock' = [vectorClock EXCEPT ![p] = vector!Tick(@, p)]
    /\ Happens(p, {})
    /\ UNCHANGED <<delivered, receipts, alwaysCausal, hbq, cur, flushing, mode>>
    /\ \/ sent' = sent
       \/ \E q \in Pid : sent' = sent \cup {Stamped(p, q)}

ReceiveStep(p, m) ==
    /\ vectorClock' = [vectorClock EXCEPT ![p] = vector!Receive(@, m.SentVC, p)]
    /\ p \in alwaysCausal => vector!canDeliver(m.SentVC, m.from, vectorClock[p])
    /\ Deliver(p, m)
    /\ UNCHANGED <<sent, alwaysCausal, mode>>

QuietStep ==
    /\ UNCHANGED <<vectorClock, ticks, past, log, sent, delivered, receipts>>
    /\ alwaysCausal' \subseteq alwaysCausal

\* Under canDeliver, the merge written out in TryDeliver is vector.Receive.
LEMMA HeldReceiveIsReceive ==
    ASSUME NEW a \in vector!Clock, NEW b \in vector!Clock,
           NEW s \in Pid, NEW p \in Pid, vector!canDeliver(b, s, a)
    PROVE  HeldReceive(a, b, s, p) = vector!Receive(a, b, p)
<1>1. \A k \in Pid : a[k] \in Nat /\ b[k] \in Nat
  BY DEF vector!Clock
<1>2. \A k \in Pid : (IF k = s \/ b[k] > a[k] THEN b[k] ELSE a[k])
                        = (IF a[k] < b[k] THEN b[k] ELSE a[k])
  BY <1>1 DEF vector!canDeliver
<1>3. [k \in Pid |-> IF k = s \/ b[k] > a[k] THEN b[k] ELSE a[k]]
        = vector!MergePassive(a, b)
  BY <1>2 DEF vector!MergePassive
<1> QED
  BY <1>3 DEF HeldReceive, vector!Receive

\* A copied clock gives the same verdict as the current one.
LEMMA SameVerdict ==
    ASSUME TypeOK, Transit, Copied, NEW p \in Pid, NEW h \in cur[p]
    PROVE  vector!canDeliver(h.msg.SentVC, h.msg.from, h.localVC)
              <=> vector!canDeliver(h.msg.SentVC, h.msg.from, vectorClock[p])
<1>1. /\ h.msg.from \in Pid /\ h.msg.from # p
      /\ h.msg.SentVC \in [Pid -> Nat]
      /\ h.localVC \in [Pid -> Nat]
      /\ vectorClock[p] \in [Pid -> Nat]
  BY CurTyping, Zenon DEF Transit, To, TypeOK, vector!Clock
<1>2. /\ \A k \in Pid \ {p} : h.localVC[k] = vectorClock[p][k]
      /\ h.localVC[p] <= vectorClock[p][p]
      /\ h.msg.SentVC[p] <= h.localVC[p]
  BY DEF Copied
<1>3. h.msg.SentVC[p] <= vectorClock[p][p]
  BY <1>1, <1>2
<1> QED
  BY <1>1, <1>2, <1>3 DEF vector!canDeliver

\* Every step is a tick, a receipt of a message addressed to the process, or
\* leaves clocks and deliveries alone.
LEMMA StepKinds ==
    ASSUME TypeOK, AllVector, Transit, Copied, [Next]_vars
    PROVE  \/ \E p \in Pid : TickStep(p)
           \/ \E p \in Pid : \E m \in To(p) : ReceiveStep(p, m)
           \/ QuietStep
<1> USE DEF QuietStep, clocks, history, network, calls
<1>1. ASSUME NEW p \in Pid, InternalEvent(p) PROVE TickStep(p)
  BY <1>1 DEF InternalEvent, TickStep, tickClock, AllVector
<1>2. ASSUME NEW c \in Caller, NEW p \in Pid, NEW q \in Pid, Stamp(c, p, q)
      PROVE  TickStep(p)
  <2>1. sent' = sent \cup {Stamped(p, q)}
    BY <1>2 DEF Stamp, Stamped
  <2>2. tickClock(p) /\ Happens(p, {})
    BY <1>2 DEF Stamp
  <2>3. UNCHANGED <<delivered, receipts, alwaysCausal, hbq, cur, flushing, mode>>
    BY <1>2 DEF Stamp
  <2> QED
    BY <2>1, <2>2, <2>3 DEF TickStep, tickClock, AllVector
<1>3. ASSUME NEW p \in Pid, NEW md \in Mode, SetDeliveryMode(p, md) PROVE QuietStep
  BY <1>3 DEF SetDeliveryMode
<1>4. ASSUME NEW c \in Caller, CallerStep(c)
      PROVE  QuietStep \/ \E p \in Pid : TickStep(p)
  <2>1. ASSUME NEW p \in Pid, NEW q \in Pid, Send(c, p, q) PROVE TickStep(p)
    BY <2>1, <1>2 DEF Send
  <2>2. ASSUME NEW p \in Pid, Broadcast(c, p) PROVE TickStep(p)
    <3>1. Peers[p] \in Seq(Pid) /\ Peers[p] # <<>>
      BY <2>2, ConstantsAssumption DEF Broadcast
    <3>2. Head(Peers[p]) \in Pid
      BY <3>1
    <3> QED
      BY <2>2, <3>2, <1>2 DEF Broadcast
  <2>3. ASSUME BroadcastNext(c) PROVE \E p \in Pid : TickStep(p)
    <3>1. todo[c] \in Seq(Pid \X Pid) /\ todo[c] # <<>>
      BY <2>3 DEF BroadcastNext, TypeOK
    <3>2. Head(todo[c]) \in Pid \X Pid
      BY <3>1
    <3>3. Head(todo[c])[1] \in Pid /\ Head(todo[c])[2] \in Pid
      BY <3>2, Zenon
    <3> QED
      BY <2>3, <3>3, <1>2 DEF BroadcastNext
  <2>4. ASSUME FinishSend(c) PROVE QuietStep
    BY <2>4, Zenon DEF FinishSend, XportSend, XportFail, XportDrop, XportDelay
  <2> QED
    BY <1>4, <2>1, <2>2, <2>3, <2>4 DEF CallerStep
<1>5. ASSUME NEW m \in late, XportRelease(m) PROVE QuietStep
  BY <1>5 DEF XportRelease
<1>6. ASSUME NEW p \in Pid, NEW q \in Pid, Forward(p, q) PROVE QuietStep
  BY <1>6 DEF Forward
<1>7. ASSUME NEW p \in Pid, RunStep(p)
      PROVE  QuietStep \/ \E m \in To(p) : ReceiveStep(p, m)
  <2>1. ASSUME deliverImmediate(p) PROVE \E m \in To(p) : ReceiveStep(p, m)
    <3>1. PICK h \in cur[p] :
               /\ ~Causal(h.mode)
               /\ receiveClock(p, h.msg)
               /\ Deliver(p, h.msg)
               /\ UNCHANGED <<sent, alwaysCausal, mode>>
      BY <2>1 DEF deliverImmediate
    <3>2. h.msg \in To(p) /\ p \notin alwaysCausal
      BY <3>1 DEF Transit, Copied
    <3> QED
      BY <3>1, <3>2, Zenon DEF ReceiveStep, receiveClock, AllVector
  <2>2. ASSUME deliverCausal(p) PROVE \E m \in To(p) : ReceiveStep(p, m)
    <3>1. PICK h \in cur[p] :
               /\ vector!canDeliver(h.msg.SentVC, h.msg.from, h.localVC)
               /\ vectorClock' = [vectorClock EXCEPT
                                    ![p] = vector!Receive(@, h.msg.SentVC, p)]
               /\ Deliver(p, h.msg)
               /\ UNCHANGED <<sent, alwaysCausal, mode>>
      BY <2>2, Zenon DEF deliverCausal
    <3>2. h.msg \in To(p)
      BY <3>1 DEF Transit
    <3>3. vector!canDeliver(h.msg.SentVC, h.msg.from, vectorClock[p])
      BY <3>1, SameVerdict
    <3> QED
      BY <3>1, <3>2, <3>3, Zenon DEF ReceiveStep
  <2>3. ASSUME TryDeliver(p) PROVE \E m \in To(p) : ReceiveStep(p, m)
    <3>1. PICK i \in 1..Len(hbq[p]) :
               /\ vector!canDeliver(hbq[p][i].SentVC, hbq[p][i].from, vectorClock[p])
               /\ vectorClock' = [vectorClock EXCEPT
                    ![p] = HeldReceive(@, hbq[p][i].SentVC, hbq[p][i].from, p)]
               /\ Deliver(p, hbq[p][i])
      BY <2>3, Zenon DEF TryDeliver
    <3>2. hbq[p][i] \in To(p)
      BY DEF Transit, Contents
    <3>3. hbq[p][i].SentVC \in vector!Clock /\ hbq[p][i].from \in Pid
          /\ vectorClock[p] \in vector!Clock
      BY <3>2, Zenon DEF To, TypeOK, Message
    <3>4. HeldReceive(vectorClock[p], hbq[p][i].SentVC, hbq[p][i].from, p)
            = vector!Receive(vectorClock[p], hbq[p][i].SentVC, p)
      BY <3>1, <3>3, HeldReceiveIsReceive
    <3>5. UNCHANGED <<sent, alwaysCausal, mode>>
      BY <2>3 DEF TryDeliver
    <3> QED
      BY <3>1, <3>2, <3>4, <3>5, Zenon DEF ReceiveStep
  <2>4. ASSUME handleMessage(p) \/ Enqueue(p) \/ TryDeliverReturn(p)
        PROVE  QuietStep
    BY <2>4 DEF handleMessage, Enqueue, TryDeliverReturn
  <2> QED
    BY <1>7, <2>1, <2>2, <2>3, <2>4 DEF RunStep
<1>8. ASSUME UNCHANGED vars PROVE QuietStep
  BY <1>8 DEF vars
<1> QED
  BY <1>1, <1>3, <1>4, <1>5, <1>6, <1>7, <1>8 DEF Next

\* The clocks after a tick, component by component.
LEMMA TickComponents ==
    ASSUME TypeOK, NEW p \in Pid, TickStep(p)
    PROVE  /\ \A r, k \in Pid : vectorClock'[r][k] =
                 IF r = p /\ k = p THEN vectorClock[r][k] + 1 ELSE vectorClock[r][k]
           /\ \A r \in Pid : ticks'[r] = IF r = p THEN ticks[r] + 1 ELSE ticks[r]
<1>1. vectorClock \in [Pid -> [Pid -> Nat]] /\ ticks \in [Pid -> Nat]
  BY DEF TypeOK, vector!Clock
<1>2. vectorClock' = [vectorClock EXCEPT ![p] = [vectorClock[p] EXCEPT ![p] = @ + 1]]
  BY DEF TickStep, vector!Tick
<1>3. ticks' = [ticks EXCEPT ![p] = @ + 1]
  BY Zenon DEF TickStep, Happens
<1> QED
  BY <1>1, <1>2, <1>3

\* The clocks after a receipt, component by component.
LEMMA ReceiveComponents ==
    ASSUME TypeOK, NEW p \in Pid, NEW m \in To(p), ReceiveStep(p, m)
    PROVE  /\ \A k \in Pid \ {p} : vectorClock'[p][k] =
                 IF vectorClock[p][k] < m.SentVC[k] THEN m.SentVC[k] ELSE vectorClock[p][k]
           /\ vectorClock'[p][p] =
                 (IF vectorClock[p][p] < m.SentVC[p] THEN m.SentVC[p]
                                                     ELSE vectorClock[p][p]) + 1
           /\ \A r \in Pid \ {p} : vectorClock'[r] = vectorClock[r]
           /\ \A r \in Pid : ticks'[r] = IF r = p THEN ticks[r] + 1 ELSE ticks[r]
<1>1. vectorClock \in [Pid -> [Pid -> Nat]] /\ ticks \in [Pid -> Nat]
      /\ m.SentVC \in [Pid -> Nat]
  BY Zenon DEF TypeOK, vector!Clock, To, Message
<1>2. vectorClock' = [vectorClock EXCEPT
                        ![p] = vector!Receive(vectorClock[p], m.SentVC, p)]
  BY DEF ReceiveStep
<1>3. vectorClock'[p] = [vector!MergePassive(vectorClock[p], m.SentVC) EXCEPT ![p] = @ + 1]
  BY <1>1, <1>2 DEF vector!Receive, vector!Tick
<1>4. ticks' = [ticks EXCEPT ![p] = @ + 1]
  BY DEF ReceiveStep, Deliver, Happens
<1>5. \A r \in Pid \ {p} : vectorClock'[r] = vectorClock[r]
  BY <1>1, <1>2
<1>6. \A r \in Pid : ticks'[r] = IF r = p THEN ticks[r] + 1 ELSE ticks[r]
  BY <1>1, <1>4
<1>7. \A k \in Pid : vector!MergePassive(vectorClock[p], m.SentVC)[k] =
         IF vectorClock[p][k] < m.SentVC[k] THEN m.SentVC[k] ELSE vectorClock[p][k]
  BY DEF vector!MergePassive
<1>8. vector!MergePassive(vectorClock[p], m.SentVC) \in [Pid -> Nat]
  BY <1>1, Zenon DEF vector!MergePassive
<1> QED
  BY <1>3, <1>5, <1>6, <1>7, <1>8

\* The stamp of a new message, with vector clocks.
LEMMA NewStamp ==
    ASSUME TypeOK, AllVector, Stamps, NEW p \in Pid, NEW q \in Pid, TickStep(p)
    PROVE  /\ Stamped(p, q).SentVC = vectorClock'[p]
           /\ Stamped(p, q).from = p /\ Stamped(p, q).to = q
           /\ Stamped(p, q).id = <<p, ticks[p] + 1>>
           /\ Stamped(p, q).past = past[p] \cup {<<p, ticks[p] + 1>>}
           /\ vectorClock'[p][p] = ticks[p] + 1
<1>1. vectorClock'[p][p] = ticks[p] + 1
  BY TickComponents DEF Stamps
<1> QED
  BY <1>1 DEF Stamped, AllVector

\* Stamps is preserved by each of the three kinds of step.
LEMMA StampsStep ==
    ASSUME TypeOK, TypeOK', AllVector, Stamps,
           \/ \E p \in Pid : TickStep(p)
           \/ \E p \in Pid : \E m \in To(p) : ReceiveStep(p, m)
           \/ QuietStep
    PROVE  Stamps'
<1>0. /\ vectorClock \in [Pid -> [Pid -> Nat]] /\ ticks \in [Pid -> Nat]
      /\ vectorClock' \in [Pid -> [Pid -> Nat]] /\ ticks' \in [Pid -> Nat]
      /\ \A m \in sent : m.SentVC \in [Pid -> Nat] /\ m.from \in Pid
  BY Zenon DEF TypeOK, vector!Clock, Message
<1>1. ASSUME NEW p \in Pid, TickStep(p) PROVE Stamps'
  <2>1. /\ \A r, k \in Pid : vectorClock'[r][k] =
               IF r = p /\ k = p THEN vectorClock[r][k] + 1 ELSE vectorClock[r][k]
        /\ \A r \in Pid : ticks'[r] = IF r = p THEN ticks[r] + 1 ELSE ticks[r]
    BY <1>1, TickComponents
  <2>2. /\ \A r \in Pid : vectorClock'[r][r] = ticks'[r]
        /\ \A r, q \in Pid : vectorClock'[r][q] <= ticks'[q]
    BY <1>0, <2>1 DEF Stamps
  <2>3. \A m \in sent : /\ m.id = <<m.from, m.SentVC[m.from]>>
                        /\ m.SentVC[m.from] >= 1
                        /\ \A q \in Pid : m.SentVC[q] <= ticks'[q]
    <3>1. \A q \in Pid : ticks[q] <= ticks'[q]
      BY <1>0, <2>1
    <3> QED
      BY <1>0, <3>1 DEF Stamps
  <2>4. CASE sent' = sent
    BY <2>2, <2>3, <2>4, Zenon DEF Stamps
  <2>5. ASSUME NEW q \in Pid, sent' = sent \cup {Stamped(p, q)} PROVE Stamps'
    <3>1. /\ Stamped(p, q).SentVC = vectorClock'[p]
          /\ Stamped(p, q).from = p
          /\ Stamped(p, q).id = <<p, ticks[p] + 1>>
          /\ vectorClock'[p][p] = ticks[p] + 1
      BY <1>1, NewStamp, Zenon
    <3>2. /\ Stamped(p, q).id = <<p, Stamped(p, q).SentVC[p]>>
          /\ Stamped(p, q).SentVC[p] >= 1
          /\ \A k \in Pid : Stamped(p, q).SentVC[k] <= ticks'[k]
      BY <1>0, <2>2, <3>1
    <3>3. \A m \in sent : m.id # Stamped(p, q).id
      BY <1>0, <3>1 DEF Stamps
    <3>4. \A m \in sent' : /\ m.id = <<m.from, m.SentVC[m.from]>>
                           /\ m.SentVC[m.from] >= 1
                           /\ \A k \in Pid : m.SentVC[k] <= ticks'[k]
      BY <2>3, <2>5, <3>1, <3>2, Zenon
    <3>5. \A m, n \in sent' : m.id = n.id => m = n
      BY <2>5, <3>3 DEF Stamps
    <3> QED
      BY <2>2, <3>4, <3>5 DEF Stamps
  <2> QED
    BY <1>1, <2>4, <2>5 DEF TickStep
<1>2. ASSUME NEW p \in Pid, NEW m \in To(p), ReceiveStep(p, m) PROVE Stamps'
  <2>1. /\ \A k \in Pid \ {p} : vectorClock'[p][k] =
               IF vectorClock[p][k] < m.SentVC[k] THEN m.SentVC[k] ELSE vectorClock[p][k]
        /\ vectorClock'[p][p] =
               (IF vectorClock[p][p] < m.SentVC[p] THEN m.SentVC[p]
                                                   ELSE vectorClock[p][p]) + 1
        /\ \A r \in Pid \ {p} : vectorClock'[r] = vectorClock[r]
        /\ \A r \in Pid : ticks'[r] = IF r = p THEN ticks[r] + 1 ELSE ticks[r]
    BY <1>2, ReceiveComponents, Zenon
  <2>2. \A k \in Pid : m.SentVC[k] <= ticks[k]
    BY Zenon DEF To, Stamps
  <2>3. vectorClock'[p][p] = ticks'[p]
    BY <1>0, <2>1, <2>2 DEF Stamps, To
  <2>4. \A q \in Pid : ticks[q] <= ticks'[q]
    BY <1>0, <2>1
  <2>5. \A r, q \in Pid : vectorClock'[r][q] <= ticks'[q]
    <3>1. \A q \in Pid \ {p} : vectorClock'[p][q] <= ticks'[q]
      BY <1>0, <2>1, <2>2, Zenon DEF Stamps
    <3>2. \A r \in Pid \ {p} : \A q \in Pid : vectorClock'[r][q] <= ticks'[q]
      BY <1>0, <2>1, <2>4 DEF Stamps
    <3>3. vectorClock'[p][p] <= ticks'[p]
      BY <1>0, <2>3
    <3> QED
      BY <3>1, <3>2, <3>3, Zenon
  <2>6. sent' = sent
    BY <1>2, Zenon DEF ReceiveStep
  <2>7. \A r \in Pid : vectorClock'[r][r] = ticks'[r]
    BY <2>1, <2>3 DEF Stamps
  <2>8. \A n \in sent : \A q \in Pid : n.SentVC[q] <= ticks'[q]
    BY <1>0, <2>4 DEF Stamps
  <2> QED
    BY <2>5, <2>6, <2>7, <2>8, Zenon DEF Stamps
<1>3. CASE QuietStep
  BY <1>3 DEF QuietStep, Stamps
<1> QED
  BY <1>1, <1>2, <1>3, Zenon

\* Received is preserved: a receipt merges the message's stamp into the clock.
LEMMA ReceivedStep ==
    ASSUME TypeOK, TypeOK', AllVector, Stamps, Stamps', Received,
           \/ \E p \in Pid : TickStep(p)
           \/ \E p \in Pid : \E m \in To(p) : ReceiveStep(p, m)
           \/ QuietStep
    PROVE  Received'
<1>4. ASSUME NEW p \in Pid, NEW e \in delivered[p]
      PROVE  e[1] \in Pid /\ e[2] \in Nat
  <2>1. e \in EventId
    BY Zenon DEF TypeOK
  <2> QED
    BY <2>1, Zenon DEF EventId
<1>0. /\ vectorClock \in [Pid -> [Pid -> Nat]]
      /\ vectorClock' \in [Pid -> [Pid -> Nat]]
      /\ \A m \in sent : m.SentVC \in [Pid -> Nat] /\ m.from \in Pid
      /\ \A p \in Pid : \A e \in delivered[p] : e[1] \in Pid /\ e[2] \in Nat
  BY <1>4, Zenon DEF TypeOK, vector!Clock, Message
<1>1. ASSUME NEW p \in Pid, TickStep(p) PROVE Received'
  <2>1. \A r, k \in Pid : vectorClock[r][k] <= vectorClock'[r][k]
    BY <1>0, <1>1, TickComponents
  <2>2. delivered' = delivered
    BY <1>1, Zenon DEF TickStep
  <2>3. \A r \in Pid : \A e \in delivered'[r] : e[2] <= vectorClock'[r][e[1]]
    BY <1>0, <2>1, <2>2 DEF Received
  <2>4. \A r \in Pid : \A m \in sent :
           m.id \in delivered'[r] => \A k \in Pid : m.SentVC[k] <= vectorClock'[r][k]
    BY <1>0, <2>1, <2>2 DEF Received
  <2>5. ASSUME NEW q \in Pid, sent' = sent \cup {Stamped(p, q)}, NEW r \in Pid
        PROVE  Stamped(p, q).id \notin delivered'[r]
    <3>1. Stamped(p, q).id = <<p, ticks[p] + 1>>
      BY <1>1, NewStamp
    <3>2. vectorClock[r][p] <= ticks[p] /\ vectorClock[r][p] \in Nat /\ ticks[p] \in Nat
      <4>1. vectorClock[r][p] <= ticks[p]
        BY Zenon DEF Stamps
      <4>2. vectorClock[r][p] \in Nat
        BY <1>0, Zenon
      <4>3. ticks[p] \in Nat
        BY Zenon DEF TypeOK
      <4> QED
        BY <4>1, <4>2, <4>3, Zenon
    <3>3. ASSUME <<p, ticks[p] + 1>> \in delivered[r] PROVE FALSE
      <4>1. ticks[p] + 1 <= vectorClock[r][p]
        BY <3>3 DEF Received
      <4> QED
        BY <3>2, <4>1
    <3> QED
      BY <2>2, <3>1, <3>3, Zenon
  <2> QED
    BY <1>1, <2>3, <2>4, <2>5 DEF TickStep, Received
<1>2. ASSUME NEW p \in Pid, NEW m \in To(p), ReceiveStep(p, m) PROVE Received'
  <2>1. /\ \A k \in Pid : m.SentVC[k] <= vectorClock'[p][k]
        /\ \A r, k \in Pid : vectorClock[r][k] <= vectorClock'[r][k]
    BY <1>0, <1>2, ReceiveComponents DEF To
  <2>2. sent' = sent /\ delivered' = [delivered EXCEPT ![p] = @ \cup {m.id}]
    BY <1>2 DEF ReceiveStep, Deliver
  <2>3. m \in sent /\ m.id = <<m.from, m.SentVC[m.from]>> /\ m.from \in Pid
    BY <1>0, Zenon DEF Stamps, To
  <2>4. delivered \in [Pid -> SUBSET EventId]
    BY Zenon DEF TypeOK
  <2>5. \A r \in Pid : \A e \in delivered[r] : e[2] <= vectorClock'[r][e[1]]
    BY <1>0, <2>1 DEF Received
  <2>6. m.id[2] <= vectorClock'[p][m.id[1]]
    BY <2>1, <2>3
  <2>7. \A r \in Pid : \A e \in delivered'[r] : e[2] <= vectorClock'[r][e[1]]
    BY <2>2, <2>4, <2>5, <2>6, Zenon
  <2>8. \A r \in Pid : \A n \in sent :
           n.id \in delivered[r] => \A k \in Pid : n.SentVC[k] <= vectorClock'[r][k]
    BY <1>0, <2>1 DEF Received
  <2>9. \A n \in sent : n.id = m.id => n = m
    BY <2>3, Zenon DEF Stamps
  <2>10. \A r \in Pid : \A n \in sent :
           n.id \in delivered'[r] => \A k \in Pid : n.SentVC[k] <= vectorClock'[r][k]
    BY <2>1, <2>2, <2>4, <2>8, <2>9
  <2> QED
    BY <2>2, <2>7, <2>10, Zenon DEF Received
<1>3. CASE QuietStep
  BY <1>3, Zenon DEF QuietStep, Received
<1> QED
  BY <1>1, <1>2, <1>3

\* Prefix is preserved: canDeliver lets the sender's component grow by one only.
LEMMA PrefixStep ==
    ASSUME TypeOK, TypeOK', AllVector, Stamps, Prefix,
           \/ \E p \in Pid : TickStep(p)
           \/ \E p \in Pid : \E m \in To(p) : ReceiveStep(p, m)
           \/ QuietStep
    PROVE  Prefix'
<1>0. /\ vectorClock \in [Pid -> [Pid -> Nat]] /\ ticks \in [Pid -> Nat]
      /\ alwaysCausal \in SUBSET Pid
      /\ \A m \in sent : m.SentVC \in [Pid -> Nat] /\ m.from \in Pid
  BY Zenon DEF TypeOK, vector!Clock, Message
<1>1. ASSUME NEW p \in Pid, TickStep(p) PROVE Prefix'
  <2>1. UNCHANGED <<delivered, alwaysCausal>>
    BY <1>1 DEF TickStep
  <2>2. ASSUME NEW r \in alwaysCausal, NEW m \in sent, m.to = r, m.from # r,
               m.SentVC[m.from] <= vectorClock'[r][m.from]
        PROVE  m.id \in delivered[r]
    <3>1. vectorClock'[r][m.from] = vectorClock[r][m.from]
      BY <1>0, <1>1, <2>2, TickComponents
    <3> QED
      BY <2>2, <3>1, Zenon DEF Prefix, To
  <2>3. ASSUME NEW q \in Pid, NEW r \in alwaysCausal, r # p
        PROVE  ~(Stamped(p, q).SentVC[Stamped(p, q).from]
                    <= vectorClock'[r][Stamped(p, q).from])
    <3>1. Stamped(p, q).SentVC[p] = ticks[p] + 1 /\ Stamped(p, q).from = p
      BY <1>1, NewStamp
    <3>2. vectorClock'[r][p] = vectorClock[r][p]
      BY <1>0, <1>1, <2>3, TickComponents
    <3>3. vectorClock[r][p] <= ticks[p] /\ vectorClock[r][p] \in Nat /\ ticks[p] \in Nat
      BY <1>0, Zenon DEF Stamps
    <3> QED
      BY <3>1, <3>2, <3>3
  <2>4. \A q \in Pid : Stamped(p, q).from = p
    BY <1>1, NewStamp, Zenon
  <2>5. ASSUME NEW r \in alwaysCausal, NEW m \in To(r)',
               m.SentVC[m.from] <= vectorClock'[r][m.from]
        PROVE  m.id \in delivered[r]
    <3>1. m \in sent' /\ m.to = r /\ m.from # r
      BY Zenon DEF To
    <3>2. m \in sent
      BY <1>1, <2>3, <2>4, <2>5, <3>1, Zenon DEF TickStep
    <3> QED
      BY <2>2, <2>5, <3>1, <3>2
  <2> QED
    BY <2>1, <2>5 DEF Prefix
<1>2. ASSUME NEW p \in Pid, NEW m \in To(p), ReceiveStep(p, m) PROVE Prefix'
  <2>1. /\ sent' = sent /\ alwaysCausal' = alwaysCausal
        /\ delivered' = [delivered EXCEPT ![p] = @ \cup {m.id}]
        /\ delivered \in [Pid -> SUBSET EventId]
    BY <1>2 DEF ReceiveStep, Deliver, TypeOK
  <2>2. \A r \in Pid \ {p} : vectorClock'[r] = vectorClock[r]
    BY <1>2, ReceiveComponents, Zenon
  <2>3. ASSUME NEW n \in To(p), p \in alwaysCausal,
               n.SentVC[n.from] <= vectorClock'[p][n.from]
        PROVE  n.id \in delivered'[p]
    <3>1. vector!canDeliver(m.SentVC, m.from, vectorClock[p])
      BY <1>2, <2>3 DEF ReceiveStep
    <3>2. n \in sent /\ m \in sent /\ n.from # p /\ m.from # p
      BY Zenon DEF To
    <3>3. vectorClock'[p][n.from] = IF n.from = m.from THEN m.SentVC[m.from]
                                                       ELSE vectorClock[p][n.from]
      BY <1>0, <1>2, <3>1, <3>2, ReceiveComponents DEF vector!canDeliver
    <3>4. CASE n.SentVC[n.from] <= vectorClock[p][n.from]
      BY <2>1, <2>3, <3>4 DEF Prefix
    <3>5. CASE ~(n.SentVC[n.from] <= vectorClock[p][n.from])
      <4>1. n.from = m.from
        BY <2>3, <3>3, <3>5, Zenon
      <4>2. /\ n.SentVC[m.from] \in Nat /\ m.SentVC[m.from] \in Nat
            /\ vectorClock[p][m.from] \in Nat
        BY <1>0, <3>2, <4>1, Zenon
      <4>3. n.SentVC[n.from] = m.SentVC[m.from]
        BY <2>3, <3>1, <3>3, <3>5, <4>1, <4>2 DEF vector!canDeliver
      <4>4. n.id = m.id
        BY <3>2, <4>1, <4>3, Zenon DEF Stamps
      <4> QED
        BY <2>1, <4>4, Zenon
    <3> QED
      BY <3>4, <3>5, Zenon
  <2>4. To(p)' = To(p) /\ \A r \in Pid : To(r)' = To(r)
    BY <2>1 DEF To
  <2>5. ASSUME NEW r \in alwaysCausal, NEW n \in To(r),
               n.SentVC[n.from] <= vectorClock'[r][n.from]
        PROVE  n.id \in delivered'[r]
    <3>1. CASE r = p
      BY <2>3, <2>5, <3>1, Zenon
    <3>2. CASE r # p
      <4>1. vectorClock'[r] = vectorClock[r] /\ delivered'[r] = delivered[r]
        BY <1>0, <2>1, <2>2, <3>2, Zenon
      <4> QED
        BY <2>5, <4>1, Zenon DEF Prefix
    <3> QED
      BY <3>1, <3>2
  <2> QED
    BY <1>0, <2>1, <2>4, <2>5, Zenon DEF Prefix
<1>3. CASE QuietStep
  <2>1. UNCHANGED <<vectorClock, sent, delivered>> /\ alwaysCausal' \subseteq alwaysCausal
    BY <1>3 DEF QuietStep
  <2> QED
    BY <2>1 DEF Prefix, To
<1> QED
  BY <1>1, <1>2, <1>3, Zenon
=============================================================================
