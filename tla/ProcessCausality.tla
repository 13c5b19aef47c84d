-------------------------- MODULE ProcessCausality --------------------------
(***************************************************************************)
(* The rest of the inductive invariant of ProcessSteps, which follows the  *)
(* messages through the queues action by action: Transit and Copied.  Its  *)
(* last lemma, CausalInvHolds, is what the theorems rest on.               *)
(***************************************************************************)
EXTENDS ProcessSteps

-----------------------------------------------------------------------------
(* Messages under way, and the copied clock, action by action. *)

\* The messages in a queue after each queue operation.
LEMMA QueueContents ==
    ASSUME NEW s \in Seq(Message), NEW m \in Message
    PROVE  /\ Contents(Append(s, m)) = Contents(s) \cup {m}
           /\ s # <<>> => Head(s) \in Contents(s) /\ Contents(Tail(s)) \subseteq Contents(s)
<1>1. Contents(Append(s, m)) \subseteq Contents(s) \cup {m}
  BY DEF Contents
<1>2. m \in Contents(Append(s, m))
  <2>1. Append(s, m)[Len(s) + 1] = m /\ Len(s) + 1 \in 1..Len(Append(s, m))
    OBVIOUS
  <2> QED
    BY <2>1 DEF Contents
<1>3. Contents(s) \subseteq Contents(Append(s, m))
  <2>1. \A i \in 1..Len(s) : Append(s, m)[i] = s[i] /\ i \in 1..Len(Append(s, m))
    OBVIOUS
  <2> QED
    BY <2>1 DEF Contents
<1>4. ASSUME s # <<>> PROVE Head(s) \in Contents(s)
  <2>1. Head(s) = s[1] /\ 1 \in 1..Len(s)
    BY <1>4
  <2> QED
    BY <2>1 DEF Contents
<1>5. ASSUME s # <<>> PROVE Contents(Tail(s)) \subseteq Contents(s)
  <2>1. \A i \in 1..Len(Tail(s)) : Tail(s)[i] = s[i + 1] /\ i + 1 \in 1..Len(s)
    BY <1>5
  <2> QED
    BY <2>1 DEF Contents
<1> QED
  BY <1>1, <1>2, <1>3, <1>4, <1>5

\* Transit is preserved: a message moves from a queue to the next, or is dropped.
LEMMA TransitStep ==
    ASSUME TypeOK, Transit, [Next]_vars
    PROVE  Transit'
<1>0. ASSUME sent \subseteq sent' PROVE \A p : To(p) \subseteq To(p)'
  BY <1>0 DEF To
<1>1. ASSUME NEW p \in Pid, InternalEvent(p) PROVE Transit'
  BY <1>1 DEF InternalEvent, Transit, network, calls, To
<1>2. ASSUME NEW c \in Caller, NEW p \in Pid, NEW q \in Pid, Stamp(c, p, q)
      PROVE  Transit'
  <2>1. /\ sent' = sent \cup {Stamped(p, q)}
        /\ sending' = [sending EXCEPT ![c] = {Stamped(p, q)}]
    BY <1>2 DEF Stamp, Stamped
  <2>2. UNCHANGED <<late, chan, inbound, hbq, cur>>
    BY <1>2 DEF Stamp, network
  <2>3. \A d \in Caller : sending'[d] \subseteq sent'
    BY <2>1 DEF Transit, TypeOK
  <2>4. sent \subseteq sent' /\ \A r : To(r) \subseteq To(r)'
    BY <1>0, <2>1
  <2> QED
    BY <2>2, <2>3, <2>4 DEF Transit
<1>3. ASSUME NEW p \in Pid, NEW md \in Mode, SetDeliveryMode(p, md) PROVE Transit'
  BY <1>3 DEF SetDeliveryMode, Transit, network, calls, To
<1>4. ASSUME NEW m \in sent, m.from # m.to,
             chan' = [chan EXCEPT ![m.from][m.to] = Append(@, m)]
      PROVE  \A p, q \in Pid : Contents(chan'[p][q]) \subseteq To(q)
  <2>1. m.from \in Pid /\ m.to \in Pid /\ m \in Message /\ m \in To(m.to)
    BY <1>4 DEF TypeOK, Message, To
  <2>2. chan \in [Pid -> [Pid -> Seq(Message)]]
    BY DEF TypeOK
  <2>3. chan[m.from][m.to] \in Seq(Message)
    BY <2>1, <2>2
  <2>4. Contents(Append(chan[m.from][m.to], m)) = Contents(chan[m.from][m.to]) \cup {m}
    BY <2>1, <2>3, QueueContents
  <2>5. \A p, q \in Pid : chan'[p][q] = IF p = m.from /\ q = m.to
                                        THEN Append(chan[m.from][m.to], m)
                                        ELSE chan[p][q]
    BY <1>4, <2>1, <2>2, Zenon
  <2> QED
    BY <2>1, <2>4, <2>5 DEF Transit
<1>5. ASSUME NEW c \in Caller, XportSend(c) PROVE Transit'
  <2>1. PICK m \in sending[c] :
             /\ m.from # m.to
             /\ chan' = [chan EXCEPT ![m.from][m.to] = Append(@, m)]
             /\ late' \in {late} \cup (IF "dup" \in Faults THEN {late \cup {m}} ELSE {})
             /\ Hand(c)
             /\ UNCHANGED <<hbq, cur, inbound, sent>>
    BY <1>5, Zenon DEF XportSend
  <2>2. m \in sent
    BY DEF Transit
  <2>3. \A d \in Caller : sending'[d] \subseteq sent
    BY <2>1 DEF Hand, Transit, TypeOK
  <2>4. \A x \in late' : x \in sent /\ x.from # x.to
    BY <2>1, <2>2 DEF Transit
  <2>5. \A p, q \in Pid : Contents(chan'[p][q]) \subseteq To(q)
    BY <1>4, <2>1, <2>2, Zenon
  <2>6. \A p : To(p)' = To(p)
    BY <2>1 DEF To
  <2> QED
    BY <2>1, <2>3, <2>4, <2>5, <2>6, Zenon DEF Transit
<1>6. ASSUME NEW c \in Caller, XportFail(c) \/ XportDrop(c) PROVE Transit'
  <2>1. Hand(c) /\ UNCHANGED <<hbq, cur, inbound, chan, late, sent>>
    BY <1>6 DEF XportFail, XportDrop, network
  <2>2. \A d \in Caller : sending'[d] \subseteq sent
    BY <2>1 DEF Hand, Transit, TypeOK
  <2> QED
    BY <2>1, <2>2 DEF Transit, To
<1>7. ASSUME NEW c \in Caller, XportDelay(c) PROVE Transit'
  <2>1. Hand(c) /\ UNCHANGED <<hbq, cur, inbound, chan, sent>>
    BY <1>7, Zenon DEF XportDelay
  <2>2. \A d \in Caller : sending'[d] \subseteq sent
    BY <2>1 DEF Hand, Transit, TypeOK
  <2>3. \A x \in late' : x \in sent /\ x.from # x.to
    BY <1>7 DEF XportDelay, Transit
  <2> QED
    BY <2>1, <2>2, <2>3 DEF Transit, To
<1>8. ASSUME NEW m \in late, XportRelease(m) PROVE Transit'
  <2>1. \A p, q \in Pid : Contents(chan'[p][q]) \subseteq To(q)
    BY <1>4, <1>8, Zenon DEF XportRelease, Transit
  <2>2. late' \subseteq late /\ UNCHANGED <<hbq, cur, inbound, sending, sent>>
    BY <1>8 DEF XportRelease, calls
  <2>3. \A p : To(p)' = To(p)
    BY <2>2 DEF To
  <2> QED
    BY <2>1, <2>2, <2>3, Zenon DEF Transit
<1>9. ASSUME NEW p \in Pid, NEW q \in Pid, Forward(p, q) PROVE Transit'
  <2>1. chan \in [Pid -> [Pid -> Seq(Message)]] /\ inbound \in [Pid -> Seq(Message)]
    BY DEF TypeOK
  <2>2. chan[p][q] \in Seq(Message) /\ inbound[q] \in Seq(Message) /\ chan[p][q] # <<>>
    BY <1>9, <2>1 DEF Forward
  <2>3. Head(chan[p][q]) \in Message
    BY <2>2, QueueTyping
  <2>4. /\ Head(chan[p][q]) \in Contents(chan[p][q])
        /\ Contents(Tail(chan[p][q])) \subseteq Contents(chan[p][q])
        /\ Contents(Append(inbound[q], Head(chan[p][q])))
              = Contents(inbound[q]) \cup {Head(chan[p][q])}
    BY <2>2, <2>3, QueueContents
  <2>5. \A r, s \in Pid : chan'[r][s] = IF r = p /\ s = q THEN Tail(chan[p][q])
                                                          ELSE chan[r][s]
    BY <1>9, <2>1, Zenon DEF Forward
  <2>6. \A r, s \in Pid : Contents(chan'[r][s]) \subseteq To(s)
    BY <2>4, <2>5 DEF Transit
  <2>7. \A r \in Pid : inbound'[r] = IF r = q THEN Append(inbound[q], Head(chan[p][q]))
                                              ELSE inbound[r]
    BY <1>9, <2>1 DEF Forward
  <2>8. \A r \in Pid : Contents(inbound'[r]) \subseteq To(r)
    BY <2>4, <2>7 DEF Transit
  <2>9. UNCHANGED <<hbq, cur, late, sending, sent>> /\ \A r : To(r)' = To(r)
    BY <1>9 DEF Forward, calls, To
  <2> QED
    BY <2>6, <2>8, <2>9 DEF Transit
<1>10. ASSUME NEW p \in Pid, handleMessage(p) PROVE Transit'
  <2>1. inbound \in [Pid -> Seq(Message)] /\ cur \in [Pid -> SUBSET Handling]
    BY Zenon DEF TypeOK
  <2>2. inbound[p] \in Seq(Message) /\ inbound[p] # <<>>
    BY <1>10, <2>1 DEF handleMessage
  <2>3. Head(inbound[p]) \in Message
    BY <2>2, QueueTyping
  <2>4. /\ Head(inbound[p]) \in Contents(inbound[p])
        /\ Contents(Tail(inbound[p])) \subseteq Contents(inbound[p])
    BY <2>2, <2>3, QueueContents
  <2>5. \A r \in Pid : inbound'[r] = IF r = p THEN Tail(inbound[p]) ELSE inbound[r]
    BY <1>10, <2>1 DEF handleMessage
  <2>6. \A r \in Pid : Contents(inbound'[r]) \subseteq To(r)
    BY <2>4, <2>5 DEF Transit
  <2>7. \A r \in Pid : \A h \in cur'[r] : h \in cur[r] \/ (r = p /\ h.msg = Head(inbound[p]))
    <3> DEFINE new == [msg |-> Head(inbound[p]), mode |-> mode[p],
                       localVC |-> vectorClock[p]]
    <3>1. \A r \in Pid : cur'[r] = IF r = p THEN {new} ELSE cur[r]
      BY <1>10, <2>1 DEF handleMessage
    <3>2. new.msg = Head(inbound[p])
      BY Zenon
    <3> HIDE DEF new
    <3> QED
      BY <3>1, <3>2
  <2>8. \A r \in Pid : \A h \in cur'[r] : h.msg \in To(r)
    BY <2>4, <2>7 DEF Transit
  <2>9. UNCHANGED <<hbq, chan, late, sending, sent>> /\ \A r : To(r)' = To(r)
    BY <1>10 DEF handleMessage, network, calls, To
  <2> QED
    BY <2>6, <2>8, <2>9 DEF Transit
<1>11. ASSUME NEW p \in Pid, deliverImmediate(p) \/ deliverCausal(p) PROVE Transit'
  <2>1. cur' = [cur EXCEPT ![p] = {}]
        /\ UNCHANGED <<hbq, inbound, chan, late, sending, sent>>
    BY <1>11 DEF deliverImmediate, deliverCausal, network, calls
  <2>2. \A r \in Pid : cur'[r] \subseteq cur[r]
    BY <2>1 DEF TypeOK
  <2> QED
    BY <2>1, <2>2 DEF Transit, To
<1>12. ASSUME NEW p \in Pid, Enqueue(p) PROVE Transit'
  <2>1. PICK h \in cur[p] : hbq' = [hbq EXCEPT ![p] = Append(@, h.msg)]
    BY <1>12, Zenon DEF Enqueue
  <2>2. cur' = [cur EXCEPT ![p] = {}]
        /\ UNCHANGED <<inbound, chan, late, sending, sent>>
    BY <1>12 DEF Enqueue, network, calls
  <2>3. \A r \in Pid : cur'[r] \subseteq cur[r]
    BY <2>2 DEF TypeOK
  <2>4. hbq[p] \in Seq(Message) /\ hbq \in [Pid -> Seq(Message)] /\ h.msg \in Message
    BY CurTyping, Zenon DEF TypeOK
  <2>5. h.msg \in To(p)
    BY DEF Transit
  <2>6. Contents(Append(hbq[p], h.msg)) = Contents(hbq[p]) \cup {h.msg}
    BY <2>4, QueueContents
  <2>7. \A r \in Pid : hbq'[r] = IF r = p THEN Append(hbq[p], h.msg) ELSE hbq[r]
    BY <2>1, <2>4
  <2>8. \A r \in Pid : Contents(hbq'[r]) \subseteq To(r)
    BY <2>5, <2>6, <2>7 DEF Transit
  <2>9. \A r : To(r)' = To(r)
    BY <2>2 DEF To
  <2> QED
    BY <2>2, <2>3, <2>8, <2>9 DEF Transit
<1>13. ASSUME NEW p \in Pid, TryDeliver(p) PROVE Transit'
  <2>1. PICK i \in 1..Len(hbq[p]) : hbq' = [hbq EXCEPT ![p] = SwapRemove(@, i)]
    BY <1>13, Zenon DEF TryDeliver
  <2>2. UNCHANGED <<cur, inbound, chan, late, sending, sent>>
    BY <1>13 DEF TryDeliver, network, calls
  <2>3. hbq[p] \in Seq(Message) /\ hbq \in [Pid -> Seq(Message)]
    BY DEF TypeOK
  <2>4. Contents(SwapRemove(hbq[p], i)) \subseteq Contents(hbq[p])
    BY <2>3, SwapRemoveTyping
  <2>5. \A r \in Pid : hbq'[r] = IF r = p THEN SwapRemove(hbq[p], i) ELSE hbq[r]
    BY <2>1, <2>3, Zenon
  <2>6. \A r \in Pid : Contents(hbq'[r]) \subseteq To(r)
    BY <2>4, <2>5 DEF Transit
  <2>7. \A r : To(r)' = To(r)
    BY <2>2, Zenon DEF To
  <2> QED
    BY <2>2, <2>6, <2>7 DEF Transit
<1>14. ASSUME NEW p \in Pid, TryDeliverReturn(p) PROVE Transit'
  BY <1>14 DEF TryDeliverReturn, Transit, network, calls, To
<1>15. ASSUME NEW c \in Caller, CallerStep(c) PROVE Transit'
  <2>1. ASSUME NEW p \in Pid, NEW q \in Pid, Send(c, p, q) PROVE Transit'
    BY <1>2, <2>1 DEF Send
  <2>2. ASSUME NEW p \in Pid, Broadcast(c, p) PROVE Transit'
    <3>1. Peers[p] \in Seq(Pid) /\ Peers[p] # <<>>
      BY <2>2, ConstantsAssumption DEF Broadcast
    <3>2. Head(Peers[p]) \in Pid
      BY <3>1
    <3> QED
      BY <1>2, <2>2, <3>2 DEF Broadcast
  <2>3. ASSUME BroadcastNext(c) PROVE Transit'
    <3>1. todo[c] \in Seq(Pid \X Pid) /\ todo[c] # <<>>
      BY <2>3 DEF BroadcastNext, TypeOK
    <3>2. Head(todo[c]) \in Pid \X Pid
      BY <3>1
    <3>3. Head(todo[c])[1] \in Pid /\ Head(todo[c])[2] \in Pid
      BY <3>2, Zenon
    <3> QED
      BY <1>2, <2>3, <3>3 DEF BroadcastNext
  <2> QED
    BY <1>5, <1>6, <1>7, <1>15, <2>1, <2>2, <2>3 DEF CallerStep, FinishSend
<1>16. CASE UNCHANGED vars
  BY <1>16, Zenon DEF vars, Transit, network, calls, To
<1> QED
  BY <1>1, <1>3, <1>8, <1>9, <1>10, <1>11, <1>12, <1>13, <1>14, <1>15, <1>16
  DEF Next, RunStep

\* A tick of p leaves every copied clock as good as it was.
LEMMA CopiedTick ==
    ASSUME TypeOK, Copied, NEW p \in Pid, TickStep(p)
    PROVE  Copied'
<1>1. /\ vectorClock \in [Pid -> [Pid -> Nat]]
      /\ \A r \in Pid : \A h \in cur[r] : h.localVC \in [Pid -> Nat]
  BY CurTyping, Zenon DEF TypeOK, vector!Clock
<1>2. UNCHANGED <<cur, flushing, mode, alwaysCausal>>
  BY DEF TickStep
<1>3. /\ \A r \in Pid : \A k \in Pid \ {r} : vectorClock'[r][k] = vectorClock[r][k]
      /\ \A r \in Pid : vectorClock[r][r] <= vectorClock'[r][r]
      /\ \A r \in Pid : vectorClock'[r][r] \in Nat
  BY <1>1, TickComponents
<1>4. ASSUME NEW r \in Pid, NEW h \in cur[r]
      PROVE  h.localVC[r] <= vectorClock'[r][r]
  <2>1. h.localVC[r] <= vectorClock[r][r]
    BY Zenon DEF Copied
  <2>2. /\ h.localVC[r] \in Nat /\ vectorClock[r][r] \in Nat /\ vectorClock'[r][r] \in Nat
        /\ vectorClock[r][r] <= vectorClock'[r][r]
    BY <1>1, <1>3, Zenon
  <2> QED
    BY <2>1, <2>2
<1>5. ASSUME NEW r \in Pid, NEW h \in cur[r]
      PROVE  \A k \in Pid \ {r} : h.localVC[k] = vectorClock'[r][k]
  BY <1>3, Zenon DEF Copied
<1> QED
  BY <1>2, <1>4, <1>5, Zenon DEF Copied

\* A step of p's run goroutine changes no clock but p's, and ends with nothing
\* copied unless nothing changed.
LEMMA CopiedRun ==
    ASSUME TypeOK, Copied, NEW p \in Pid,
           \A r \in Pid \ {p} : vectorClock'[r] = vectorClock[r] /\ cur'[r] = cur[r],
           cur'[p] = {},
           flushing' \subseteq flushing \cup {p},
           UNCHANGED <<mode, alwaysCausal>>
    PROVE  Copied'
<1>1. ASSUME NEW r \in Pid, NEW h \in cur'[r]
      PROVE  /\ r # p /\ h \in cur[r] /\ r \notin flushing'
             /\ vectorClock'[r] = vectorClock[r]
  BY DEF Copied
<1> QED
  BY <1>1 DEF Copied

\* Copied is preserved: between handleMessage and the verdict only API calls touch
\* p's clock, and they only tick its own component.
LEMMA CopiedStep ==
    ASSUME TypeOK, AllVector, Transit, Stamps, Copied, [Next]_vars
    PROVE  Copied'
<1>0. vectorClock \in [Pid -> vector!Clock] /\ cur \in [Pid -> SUBSET Handling]
  BY Zenon DEF TypeOK
<1>1. ASSUME UNCHANGED <<vectorClock, cur, flushing, mode, alwaysCausal>>
      PROVE  Copied'
  BY <1>1 DEF Copied
<1>2. ASSUME NEW p \in Pid, InternalEvent(p) PROVE Copied'
  <2>1. TickStep(p)
    BY <1>2, Zenon DEF InternalEvent, TickStep, tickClock, AllVector
  <2> QED
    BY <2>1, CopiedTick
<1>3. ASSUME NEW p \in Pid, NEW md \in Mode, SetDeliveryMode(p, md) PROVE Copied'
  <2>1. /\ mode' = [mode EXCEPT ![p] = md]
        /\ alwaysCausal' = IF Causal(md) THEN alwaysCausal ELSE alwaysCausal \ {p}
        /\ UNCHANGED <<vectorClock, cur, flushing>>
    BY <1>3, Zenon DEF SetDeliveryMode, clocks
  <2>2. \A r \in alwaysCausal' : Causal(mode'[r]) /\ r \in alwaysCausal
    BY <2>1 DEF Copied, TypeOK
  <2> QED
    BY <2>1, <2>2 DEF Copied
<1>4. ASSUME NEW c \in Caller, CallerStep(c) PROVE Copied'
  <2>1. ASSUME NEW p \in Pid, NEW q \in Pid, Stamp(c, p, q) PROVE Copied'
    <3>1. tickClock(p) /\ Happens(p, {}) /\ sent' = sent \cup {Stamped(p, q)}
          /\ UNCHANGED <<delivered, receipts, alwaysCausal, hbq, cur, flushing, mode>>
      BY <2>1, Zenon DEF Stamp, Stamped
    <3>2. TickStep(p)
      BY <3>1 DEF TickStep, tickClock, AllVector
    <3> QED
      BY <3>2, CopiedTick
  <2>2. ASSUME NEW p \in Pid, NEW q \in Pid, Send(c, p, q) PROVE Copied'
    BY <2>1, <2>2 DEF Send
  <2>3. ASSUME NEW p \in Pid, Broadcast(c, p) PROVE Copied'
    <3>1. Peers[p] \in Seq(Pid) /\ Peers[p] # <<>>
      BY <2>3, ConstantsAssumption, Zenon DEF Broadcast
    <3>2. Head(Peers[p]) \in Pid
      BY <3>1
    <3> QED
      BY <2>1, <2>3, <3>2 DEF Broadcast
  <2>4. ASSUME BroadcastNext(c) PROVE Copied'
    <3>1. todo[c] \in Seq(Pid \X Pid) /\ todo[c] # <<>>
      BY <2>4 DEF BroadcastNext, TypeOK
    <3>2. Head(todo[c]) \in Pid \X Pid
      BY <3>1
    <3>3. Head(todo[c])[1] \in Pid /\ Head(todo[c])[2] \in Pid
      BY <3>2, Zenon
    <3> QED
      BY <2>1, <2>4, <3>3 DEF BroadcastNext
  <2>5. ASSUME FinishSend(c) PROVE Copied'
    BY <1>1, <2>5, Zenon DEF FinishSend, XportSend, XportFail, XportDrop, XportDelay, clocks
  <2> QED
    BY <1>4, <2>2, <2>3, <2>4, <2>5 DEF CallerStep
<1>5. ASSUME NEW m \in late, XportRelease(m) PROVE Copied'
  BY <1>1, <1>5 DEF XportRelease, clocks
<1>6. ASSUME NEW p \in Pid, NEW q \in Pid, Forward(p, q) PROVE Copied'
  BY <1>1, <1>6 DEF Forward, clocks
<1>7. ASSUME NEW p \in Pid, handleMessage(p) PROVE Copied'
  <2> DEFINE new == [msg |-> Head(inbound[p]), mode |-> mode[p],
                     localVC |-> vectorClock[p]]
  <2>1. \A r \in Pid : cur'[r] = IF r = p THEN {new} ELSE cur[r]
    BY <1>0, <1>7, Zenon DEF handleMessage
  <2>2. UNCHANGED <<vectorClock, flushing, mode, alwaysCausal>> /\ p \notin flushing
    BY <1>7, Zenon DEF handleMessage, clocks, Free
  <2>3. inbound[p] \in Seq(Message) /\ inbound[p] # <<>>
    BY <1>7 DEF handleMessage, TypeOK
  <2>4. Head(inbound[p]) \in Contents(inbound[p])
    BY <2>3, QueueTyping, QueueContents
  <2>5. new.msg \in sent /\ new.localVC = vectorClock[p] /\ new.mode = mode[p]
    BY <2>4, Zenon DEF Transit, To
  <2> HIDE DEF new
  <2>6. new.msg.SentVC[p] <= new.localVC[p]
    BY <2>5 DEF Stamps
  <2>7. vectorClock[p][p] <= vectorClock[p][p]
    BY <1>0 DEF vector!Clock
  <2>8. \A r \in Pid : \A h \in cur'[r] : h \in cur[r] \/ (r = p /\ h = new)
    BY <2>1, Zenon
  <2>9. /\ p \in alwaysCausal => Causal(new.mode)
        /\ \A k \in Pid \ {p} : new.localVC[k] = vectorClock[p][k]
        /\ new.localVC[p] <= vectorClock[p][p]
    BY <2>5, <2>7, Zenon DEF Copied
  <2> QED
    BY <2>2, <2>6, <2>8, <2>9 DEF Copied
<1>8. ASSUME NEW p \in Pid, deliverImmediate(p) PROVE Copied'
  <2>1. PICK h \in cur[p] : receiveClock(p, h.msg) /\ cur' = [cur EXCEPT ![p] = {}]
                            /\ UNCHANGED <<flushing, mode, alwaysCausal>>
    BY <1>8 DEF deliverImmediate
  <2>2. \A r \in Pid \ {p} : vectorClock'[r] = vectorClock[r] /\ cur'[r] = cur[r]
    BY <1>0, <2>1 DEF receiveClock, AllVector
  <2>3. cur'[p] = {}
    BY <1>0, <2>1
  <2> QED
    BY <2>1, <2>2, <2>3, CopiedRun
<1>9. ASSUME NEW p \in Pid, deliverCausal(p) PROVE Copied'
  <2>1. PICK h \in cur[p] :
             /\ vectorClock' = [vectorClock EXCEPT
                                  ![p] = vector!Receive(@, h.msg.SentVC, p)]
             /\ cur' = [cur EXCEPT ![p] = {}]
             /\ flushing' = flushing \cup {p}
             /\ UNCHANGED <<mode, alwaysCausal>>
    BY <1>9, Zenon DEF deliverCausal
  <2>2. \A r \in Pid \ {p} : vectorClock'[r] = vectorClock[r] /\ cur'[r] = cur[r]
    BY <1>0, <2>1
  <2>3. cur'[p] = {}
    BY <1>0, <2>1
  <2> QED
    BY <2>1, <2>2, <2>3, CopiedRun
<1>10. ASSUME NEW p \in Pid, Enqueue(p) PROVE Copied'
  <2>1. /\ cur' = [cur EXCEPT ![p] = {}]
        /\ UNCHANGED <<vectorClock, flushing, mode, alwaysCausal>>
    BY <1>10 DEF Enqueue, clocks
  <2>2. \A r \in Pid \ {p} : vectorClock'[r] = vectorClock[r] /\ cur'[r] = cur[r]
    BY <1>0, <2>1
  <2>3. cur'[p] = {}
    BY <1>0, <2>1
  <2> QED
    BY <2>1, <2>2, <2>3, CopiedRun
<1>11. ASSUME NEW p \in Pid, TryDeliver(p) PROVE Copied'
  <2>1. PICK i \in 1..Len(hbq[p]) : vectorClock' = [vectorClock EXCEPT
             ![p] = HeldReceive(@, hbq[p][i].SentVC, hbq[p][i].from, p)]
    BY <1>11, Zenon DEF TryDeliver
  <2>2. p \in flushing /\ UNCHANGED <<cur, flushing, mode, alwaysCausal>>
    BY <1>11, Zenon DEF TryDeliver
  <2>3. cur[p] = {}
    BY <2>2 DEF Copied
  <2>4. \A r \in Pid \ {p} : vectorClock'[r] = vectorClock[r] /\ cur'[r] = cur[r]
    BY <1>0, <2>1, <2>2
  <2> QED
    BY <2>2, <2>3, <2>4, CopiedRun, Zenon
<1>12. ASSUME NEW p \in Pid, TryDeliverReturn(p) PROVE Copied'
  BY <1>12 DEF TryDeliverReturn, clocks, Copied
<1>13. CASE UNCHANGED vars
  BY <1>1, <1>13 DEF vars, clocks
<1> QED
  BY <1>2, <1>3, <1>4, <1>5, <1>6, <1>7, <1>8, <1>9, <1>10, <1>11, <1>12, <1>13
  DEF Next, RunStep

-----------------------------------------------------------------------------
(* The inductive invariant. *)

CausalInv == Transit /\ Stamps /\ Copied /\ Received /\ Prefix

\* The invariant holds when no process has done anything.
LEMMA CausalInvInit == AllVector /\ Init => CausalInv
<1> SUFFICES ASSUME AllVector, Init PROVE CausalInv
  BY Zenon
<1>1. Transit
  BY DEF Init, Transit, Contents
<1>2. Stamps
  BY DEF Init, Stamps, vector!New
<1>3. Copied /\ Received
  BY Zenon DEF Init, Copied, Received
<1>4. Prefix
  BY DEF Init, Prefix, To
<1> QED
  BY <1>1, <1>2, <1>3, <1>4 DEF CausalInv

\* Every step preserves it.
LEMMA CausalInvStep ==
    ASSUME AllVector, TypeOK, TypeOK', CausalInv, [Next]_vars
    PROVE  CausalInv'
<1>1. \/ \E p \in Pid : TickStep(p)
      \/ \E p \in Pid : \E m \in To(p) : ReceiveStep(p, m)
      \/ QuietStep
  BY StepKinds DEF CausalInv
<1>2. Transit' /\ Copied'
  BY TransitStep, CopiedStep DEF CausalInv
<1>3. Stamps'
  BY <1>1, StampsStep DEF CausalInv
<1>4. Received' /\ Prefix'
  BY <1>1, <1>3, ReceivedStep, PrefixStep DEF CausalInv
<1> QED
  BY <1>2, <1>3, <1>4 DEF CausalInv

\* It holds in every reachable state.
LEMMA CausalInvHolds == ASSUME AllVector PROVE Spec => []CausalInv
<1>1. TypeOK /\ TypeOK' /\ CausalInv /\ [Next]_vars => CausalInv'
  BY CausalInvStep
<1>2. Init => CausalInv
  BY CausalInvInit
<1> QED
  BY <1>1, <1>2, Typing, PTL DEF Spec
=============================================================================
