---------------------------- MODULE ProcessOrder ----------------------------
(***************************************************************************)
(* Timestamps and happened-before, for every computation of Process:       *)
(* vector.Compare decides it, and LamportClock is consistent with it.  The *)
(* strengthenings are about the log of events: LogInv and LamportInv.      *)
(***************************************************************************)
EXTENDS ProcessTheorems

-----------------------------------------------------------------------------
(* Vector clocks. *)

\* vc knows everything that the events it counts knew.
Covers(vc) ==
    \A e \in log : e.id[2] <= vc[e.id[1]] => \A k \in Pid : e.vc[k] <= vc[k]

\* The log, event by event: an event is the number of its own component in its
\* timestamp, its past is the rest of its timestamp, ids are unique, and every
\* clock, stamp and timestamp covers what it counts.
LogInv ==
    /\ \A e \in log : /\ e.vc[e.id[1]] = e.id[2]
                      /\ e.id[2] >= 1
                      /\ e.past = EventsOf(e.vc) \ {e.id}
                      /\ \A k \in Pid : e.vc[k] <= ticks[k]
                      /\ Covers(e.vc)
    /\ \A e, f \in log : e.id = f.id => e = f
    /\ \A e, f \in log : e.id # f.id /\ e.id[2] <= f.vc[e.id[1]]
                            => e.vc[f.id[1]] < f.id[2]
    /\ \A p \in Pid : Covers(vectorClock[p])
    /\ \A m \in sent : Covers(m.SentVC)

\* Types of the log's records.
LEMMA LogTyping ==
    ASSUME TypeOK, NEW e \in log
    PROVE  /\ e.id \in EventId /\ e.id[1] \in Pid /\ e.id[2] \in Nat
           /\ e.id = <<e.id[1], e.id[2]>>
           /\ e.vc \in [Pid -> Nat]
<1>1. e \in Event
  BY DEF TypeOK
<1> QED
  BY <1>1 DEF Event, EventId, vector!Clock

\* What a step of p must leave true for its event to enter the log: the other
\* clocks stay, p's new clock covers the events it counts, and a message sent
\* by the step carries that clock.
OthersKeepClocks(p) == \A r \in Pid \ {p} : vectorClock'[r] = vectorClock[r]

CoversOld(p) ==
    \A e \in log : e.id[2] <= vectorClock'[p][e.id[1]]
                      => \A k \in Pid : e.vc[k] <= vectorClock'[p][k]

StampsWithClock(p) == \A m \in sent' : m \in sent \/ m.SentVC = vectorClock'[p]

\* What an event at p adds to the log, given p's new clock.
LEMMA LogStep ==
    ASSUME TypeOK, TypeOK', AllVector, LogInv, Stamps, Stamps', ClockIsCausalPast,
           ClockIsCausalPast',
           NEW p \in Pid, NEW seen, Happens(p, seen),
           <<p, ticks[p] + 1>> \notin seen,
           OthersKeepClocks(p), CoversOld(p), StampsWithClock(p)
    PROVE  LogInv'
<1> DEFINE new == [id |-> <<p, ticks[p] + 1>>, past |-> past[p] \cup seen,
                   lc |-> lamportClock'[p], vc |-> vectorClock'[p]]
<1>0. /\ ticks \in [Pid -> Nat] /\ ticks' = [ticks EXCEPT ![p] = @ + 1]
      /\ past \in [Pid -> SUBSET EventId]
      /\ vectorClock' \in [Pid -> [Pid -> Nat]]
      /\ log' = log \cup {new}
      /\ past' = [past EXCEPT ![p] = (@ \cup seen) \cup {<<p, ticks[p] + 1>>}]
  BY DEF TypeOK, Happens, vector!Clock
<1>1. /\ ticks'[p] = ticks[p] + 1 /\ ticks[p] \in Nat
      /\ \A k \in Pid \ {p} : ticks'[k] = ticks[k]
      /\ \A k \in Pid : ticks[k] <= ticks'[k] /\ ticks[k] \in Nat /\ ticks'[k] \in Nat
  BY <1>0
<1>2. /\ vectorClock'[p][p] = ticks[p] + 1
      /\ \A k \in Pid : vectorClock'[p][k] <= ticks'[k]
      /\ \A r \in Pid \ {p} : vectorClock'[r][p] <= ticks[p]
  BY <1>1 DEF Stamps, OthersKeepClocks
<1>3. /\ new.id = <<p, ticks[p] + 1>> /\ new.vc = vectorClock'[p]
      /\ new.id[1] = p /\ new.id[2] = ticks[p] + 1
      /\ new.past = past[p] \cup seen
  BY Zenon
<1> HIDE DEF new
<1>4. \A e \in log : /\ e.id[1] \in Pid /\ e.id[2] \in Nat /\ e.vc \in [Pid -> Nat]
                     /\ e.id = <<e.id[1], e.id[2]>>
                     /\ e.vc[e.id[1]] = e.id[2] /\ e.id[2] >= 1
                     /\ \A k \in Pid : e.vc[k] <= ticks[k]
                     /\ e.id[2] <= ticks[e.id[1]]
  BY LogTyping DEF LogInv
<1>5. \A e \in log : e.id # new.id
  BY <1>1, <1>3, <1>4
<1>6. \A e \in log' : e \in log \/ e = new
  BY <1>0
\* The new event is counted by p's new clock only.
<1>7. ASSUME NEW vc \in [Pid -> Nat], Covers(vc), vc[p] <= ticks[p]
      PROVE  Covers(vc)'
  <2>1. ~(new.id[2] <= vc[new.id[1]])
    BY <1>1, <1>3, <1>7
  <2> QED
    BY <1>6, <1>7, <2>1 DEF Covers
<1>8. \A e \in log' : e.id[2] <= vectorClock'[p][e.id[1]]
                        => \A k \in Pid : e.vc[k] <= vectorClock'[p][k]
  <2>1. \A k \in Pid : new.vc[k] <= vectorClock'[p][k]
    BY <1>0, <1>3
  <2> QED
    BY <1>6, <2>1 DEF CoversOld
<1>9. ASSUME NEW e \in log'
      PROVE  /\ e.vc[e.id[1]] = e.id[2]
             /\ e.id[2] >= 1
             /\ e.past = EventsOf(e.vc) \ {e.id}
             /\ \A k \in Pid : e.vc[k] <= ticks'[k]
             /\ Covers(e.vc)'
  <2>1. CASE e \in log
    <3>1. \A k \in Pid : e.vc[k] <= ticks'[k]
      BY <1>1, <1>4, <2>1
    <3>2. Covers(e.vc) /\ e.vc \in [Pid -> Nat] /\ e.vc[p] <= ticks[p]
      BY <1>4, <2>1 DEF LogInv
    <3>3. Covers(e.vc)'
      BY <1>7, <3>2
    <3> QED
      BY <1>4, <2>1, <3>1, <3>3 DEF LogInv
  <2>2. CASE e = new
    <3>1. Covers(e.vc)'
      BY <1>3, <1>8, <2>2 DEF Covers
    <3>2. past'[p] = (past[p] \cup seen) \cup {new.id}
      BY <1>0, <1>3
    <3>3. past'[p] = EventsOf(vectorClock'[p])
      BY DEF ClockIsCausalPast, AllVector
    <3>4. new.id \notin past[p] \cup seen
      <4>1. past[p] = EventsOf(vectorClock[p]) /\ vectorClock[p] \in [Pid -> Nat]
            /\ vectorClock[p][p] = ticks[p]
        BY Zenon DEF ClockIsCausalPast, AllVector, TypeOK, vector!Clock, Stamps
      <4>2. ticks[p] + 1 \in Nat /\ ~(ticks[p] + 1 <= vectorClock[p][p])
        BY <1>1, <4>1
      <4>3. <<p, ticks[p] + 1>> \notin past[p]
        BY <4>1, <4>2, EventsMember
      <4> QED
        BY <1>3, <4>3, Zenon
    <3>5. EventsOf(new.vc) = new.past \cup {new.id} /\ new.id \notin new.past
      BY <1>3, <3>2, <3>3, <3>4
    <3>6. new.past = EventsOf(new.vc) \ {new.id}
      BY <3>5
    <3> QED
      BY <1>1, <1>2, <1>3, <2>2, <3>1, <3>6
  <2> QED
    BY <1>6, <2>1, <2>2
<1>10. \A e, f \in log' : e.id = f.id => e = f
  BY <1>5, <1>6, Zenon DEF LogInv
<1>11. ASSUME NEW e \in log', NEW f \in log', e.id # f.id, e.id[2] <= f.vc[e.id[1]]
       PROVE  e.vc[f.id[1]] < f.id[2]
  <2>1. CASE e \in log /\ f \in log
    BY <1>11, <2>1 DEF LogInv
  <2>2. CASE e \in log /\ f = new
    <3>1. e.vc[p] <= ticks[p] /\ e.vc[p] \in Nat
      BY <1>4, <2>2
    <3> QED
      BY <1>1, <1>3, <2>2, <3>1
  <2>3. CASE e = new /\ f \in log
    <3>1. f.vc[p] <= ticks[p] /\ f.vc[p] \in Nat
      BY <1>4, <2>3
    <3> QED
      BY <1>1, <1>3, <1>11, <2>3, <3>1
  <2> QED
    BY <1>6, <1>11, <2>1, <2>2, <2>3
<1>12. ASSUME NEW r \in Pid PROVE Covers(vectorClock[r])'
  <2>1. CASE r = p
    BY <1>8, <2>1, Zenon DEF Covers
  <2>2. CASE r # p
    <3>1. vectorClock[r] \in [Pid -> Nat] /\ vectorClock[r][p] <= ticks[p]
      BY Zenon DEF TypeOK, vector!Clock, Stamps
    <3>2. \A e \in log' : e.id[2] <= vectorClock[r][e.id[1]]
                            => \A k \in Pid : e.vc[k] <= vectorClock[r][k]
      <4>1. ~(new.id[2] <= vectorClock[r][new.id[1]])
        BY <1>1, <1>3, <3>1
      <4> QED
        BY <1>6, <4>1, Zenon DEF LogInv, Covers
    <3> QED
      BY <2>2, <3>2, Zenon DEF Covers, OthersKeepClocks
  <2> QED
    BY <2>1, <2>2
<1>13. ASSUME NEW m \in sent' PROVE Covers(m.SentVC)'
  <2>1. CASE m \in sent
    <3>1. Covers(m.SentVC) /\ m.SentVC \in [Pid -> Nat] /\ m.SentVC[p] <= ticks[p]
      BY <2>1, Zenon DEF LogInv, Stamps, TypeOK, Message, vector!Clock
    <3> QED
      BY <1>7, <3>1
  <2>2. CASE m.SentVC = vectorClock'[p]
    BY <1>8, <2>2 DEF Covers
  <2> QED
    BY <2>1, <2>2 DEF StampsWithClock
<1> QED
  BY <1>9, <1>10, <1>11, <1>12, <1>13, Zenon DEF LogInv

\* An internal event or a sending keeps the log in order ...
LEMMA LogTick ==
    ASSUME TypeOK, TypeOK', AllVector, LogInv, Stamps, Stamps', ClockIsCausalPast,
           ClockIsCausalPast', NEW p \in Pid, TickStep(p)
    PROVE  LogInv'
<1>0. vectorClock \in [Pid -> [Pid -> Nat]] /\ ticks \in [Pid -> Nat]
  BY Zenon DEF TypeOK, vector!Clock
<1>1. \A r, k \in Pid : vectorClock'[r][k] =
         IF r = p /\ k = p THEN vectorClock[r][k] + 1 ELSE vectorClock[r][k]
  BY TickComponents
<1>2. \A r \in Pid \ {p} : vectorClock'[r] = vectorClock[r]
  BY <1>0 DEF TickStep
<1>3. ASSUME NEW e \in log, e.id[2] <= vectorClock'[p][e.id[1]]
      PROVE  \A k \in Pid : e.vc[k] <= vectorClock'[p][k]
  <2>1. /\ e.id[1] \in Pid /\ e.id[2] \in Nat /\ e.vc \in [Pid -> Nat]
        /\ e.id[2] <= ticks[e.id[1]]
    BY LogTyping, Zenon DEF LogInv
  <2>2. e.id[2] <= vectorClock[p][e.id[1]]
    BY <1>0, <1>1, <1>3, <2>1 DEF Stamps
  <2>3. \A k \in Pid : e.vc[k] <= vectorClock[p][k]
    BY <2>2 DEF LogInv, Covers
  <2> QED
    BY <1>0, <1>1, <2>1, <2>3
<1>4. \A m \in sent' : m \in sent \/ m.SentVC = vectorClock'[p]
  <2>1. \A q \in Pid : Stamped(p, q).SentVC = vectorClock'[p]
    BY NewStamp
  <2> QED
    BY <2>1, Zenon DEF TickStep
<1>5. Happens(p, {}) /\ <<p, ticks[p] + 1>> \notin {}
  BY DEF TickStep
<1>6. OthersKeepClocks(p) /\ CoversOld(p) /\ StampsWithClock(p)
  BY <1>2, <1>3, <1>4 DEF OthersKeepClocks, CoversOld, StampsWithClock
<1> QED
  BY <1>5, <1>6, LogStep, Zenon

\* ... and so does a receipt.
LEMMA LogReceive ==
    ASSUME TypeOK, TypeOK', AllVector, LogInv, Stamps, Stamps', ClockIsCausalPast,
           ClockIsCausalPast', NEW p \in Pid, NEW m \in To(p), ReceiveStep(p, m)
    PROVE  LogInv'
<1>0. /\ vectorClock \in [Pid -> [Pid -> Nat]] /\ ticks \in [Pid -> Nat]
      /\ vectorClock'[p] \in [Pid -> Nat]
      /\ m.SentVC \in [Pid -> Nat] /\ m \in sent
  BY Zenon DEF TypeOK, vector!Clock, To, Message
<1>1. /\ \A k \in Pid \ {p} : vectorClock'[p][k] =
            IF vectorClock[p][k] < m.SentVC[k] THEN m.SentVC[k] ELSE vectorClock[p][k]
      /\ vectorClock'[p][p] =
            (IF vectorClock[p][p] < m.SentVC[p] THEN m.SentVC[p]
                                                ELSE vectorClock[p][p]) + 1
      /\ \A r \in Pid \ {p} : vectorClock'[r] = vectorClock[r]
  BY ReceiveComponents, Zenon
<1>2. \A k \in Pid : /\ vectorClock[p][k] <= vectorClock'[p][k]
                     /\ m.SentVC[k] <= vectorClock'[p][k]
  BY <1>0, <1>1
<1>3. ASSUME NEW e \in log, e.id[2] <= vectorClock'[p][e.id[1]]
      PROVE  \A k \in Pid : e.vc[k] <= vectorClock'[p][k]
  <2>1. /\ e.id[1] \in Pid /\ e.id[2] \in Nat /\ e.vc \in [Pid -> Nat]
        /\ e.id[2] <= ticks[e.id[1]]
    BY LogTyping, Zenon DEF LogInv
  <2>2. e.id[2] <= vectorClock[p][e.id[1]] \/ e.id[2] <= m.SentVC[e.id[1]]
    BY <1>0, <1>1, <1>3, <2>1 DEF Stamps
  <2>3. \/ \A k \in Pid : e.vc[k] <= vectorClock[p][k]
        \/ \A k \in Pid : e.vc[k] <= m.SentVC[k]
    BY <1>0, <2>2, Zenon DEF LogInv, Covers
  <2> QED
    BY <1>0, <1>2, <2>1, <2>3
<1>4. Happens(p, m.past) /\ sent' = sent
  BY Zenon DEF ReceiveStep, Deliver
<1>5. <<p, ticks[p] + 1>> \notin m.past
  <2>1. m.past = EventsOf(m.SentVC) /\ m.SentVC[p] <= ticks[p]
    BY <1>0, Zenon DEF ClockIsCausalPast, AllVector, Stamps
  <2>2. ticks[p] + 1 \in Nat /\ ~(ticks[p] + 1 <= m.SentVC[p])
    BY <1>0, <2>1
  <2> QED
    BY <1>0, <2>1, <2>2, EventsMember, Zenon
<1>6. OthersKeepClocks(p) /\ CoversOld(p) /\ StampsWithClock(p)
  BY <1>1, <1>3, <1>4 DEF OthersKeepClocks, CoversOld, StampsWithClock
<1> QED
  BY <1>4, <1>5, <1>6, LogStep, Zenon

\* Every step preserves LogInv.
LEMMA LogInvStep ==
    ASSUME AllVector, TypeOK, TypeOK', CausalInv, CausalInv', ClockIsCausalPast,
           ClockIsCausalPast', LogInv, [Next]_vars
    PROVE  LogInv'
<1>1. \/ \E p \in Pid : TickStep(p)
      \/ \E p \in Pid : \E m \in To(p) : ReceiveStep(p, m)
      \/ QuietStep
  BY StepKinds, Zenon DEF CausalInv
<1>2. CASE QuietStep
  BY <1>2 DEF QuietStep, LogInv, Covers
<1>3. Stamps /\ Stamps'
  BY DEF CausalInv
<1>4. ASSUME NEW p \in Pid, TickStep(p) PROVE LogInv'
  BY <1>3, <1>4, LogTick
<1>5. ASSUME NEW p \in Pid, NEW m \in To(p), ReceiveStep(p, m) PROVE LogInv'
  BY <1>3, <1>5, LogReceive
<1> QED
  BY <1>1, <1>2, <1>4, <1>5, Zenon

\* vector.Compare on the timestamps of two events answers HappenedBefore
\* exactly when one happened before the other.
THEOREM CompareDecidesCausality ==
    ASSUME AllVector PROVE Spec => []CompareIsHappenedBefore
<1>1. TypeOK /\ TypeOK' /\ CausalInv /\ CausalInv' /\ ClockIsCausalPast
        /\ ClockIsCausalPast' /\ LogInv /\ [Next]_vars => LogInv'
  BY LogInvStep, Zenon
<1>2. Init => LogInv
  BY Zenon DEF Init, LogInv, Covers
<1>3. TypeOK /\ LogInv => CompareIsHappenedBefore
  <2> SUFFICES ASSUME TypeOK, LogInv, NEW e \in log, NEW f \in log
               PROVE  e.id \in f.past <=> vector!Compare(e.vc, f.vc) = "HappenedBefore"
    BY DEF CompareIsHappenedBefore
  <2>1. /\ e.id[1] \in Pid /\ e.id[2] \in Nat /\ e.vc \in [Pid -> Nat]
        /\ f.id[1] \in Pid /\ f.id[2] \in Nat /\ f.vc \in [Pid -> Nat]
        /\ e.id = <<e.id[1], e.id[2]>>
    BY LogTyping, Zenon
  <2>2. /\ e.vc[e.id[1]] = e.id[2] /\ f.vc[f.id[1]] = f.id[2] /\ e.id[2] >= 1
        /\ f.past = EventsOf(f.vc) \ {f.id}
    BY Zenon DEF LogInv
  <2>3. e.id \in f.past <=> e.id # f.id /\ e.id[2] <= f.vc[e.id[1]]
    <3>1. <<e.id[1], e.id[2]>> \in EventsOf(f.vc)
             <=> 1 <= e.id[2] /\ e.id[2] <= f.vc[e.id[1]]
      BY <2>1, EventsMember
    <3> QED
      BY <2>1, <2>2, <3>1
  <2>4. vector!Compare(e.vc, f.vc) = "HappenedBefore"
           <=> /\ \E k \in Pid : e.vc[k] < f.vc[k]
               /\ ~\E k \in Pid : f.vc[k] < e.vc[k]
    BY DEF vector!Compare
  <2>5. ASSUME e.id # f.id, e.id[2] <= f.vc[e.id[1]]
        PROVE  /\ \E k \in Pid : e.vc[k] < f.vc[k]
               /\ ~\E k \in Pid : f.vc[k] < e.vc[k]
    <3>1. e.vc[f.id[1]] < f.vc[f.id[1]]
      BY <2>2, <2>5, Zenon DEF LogInv
    <3>2. \A k \in Pid : e.vc[k] <= f.vc[k]
      BY <2>5, Zenon DEF LogInv, Covers
    <3> QED
      BY <2>1, <3>1, <3>2
  <2>6. ASSUME NEW k \in Pid, e.vc[k] < f.vc[k], ~\E j \in Pid : f.vc[j] < e.vc[j]
        PROVE  e.id # f.id /\ e.id[2] <= f.vc[e.id[1]]
    <3>1. e.id[2] <= f.vc[e.id[1]]
      BY <2>1, <2>2, <2>6
    <3>2. e # f
      BY <2>1, <2>6
    <3> QED
      BY <3>1, <3>2, Zenon DEF LogInv
  <2> QED
    BY <2>3, <2>4, <2>5, <2>6
<1> QED
  BY <1>1, <1>2, <1>3, Typing, CausalInvHolds, ClocksAreCausalPasts, PTL DEF Spec

-----------------------------------------------------------------------------
(* Lamport clocks. *)

\* With Lamport clocks the vector clocks, stamps and copies stay zero ...
NoVectors ==
    /\ \A p \in Pid : vectorClock[p] = vector!New
    /\ \A m \in sent : m.SentVC = vector!New
    /\ \A p \in Pid : \A h \in cur[p] : h.localVC = vector!New

\* ... so that canDeliver never holds: only immediate mode delivers.
LEMMA NothingDeliverable ==
    ASSUME NEW p \in Pid PROVE ~vector!canDeliver(vector!New, p, vector!New)
BY DEF vector!canDeliver, vector!New

\* The three kinds of step, with Lamport clocks.
LamportTick(p) ==
    /\ lamportClock' = [lamportClock EXCEPT ![p] = lamport!Tick(@)]
    /\ Happens(p, {})
    /\ sent' = sent \/ \E q \in Pid : sent' = sent \cup {Stamped(p, q)}

LamportReceive(p, m) ==
    /\ lamportClock' = [lamportClock EXCEPT ![p] = lamport!Receive(@, m.SentLC)]
    /\ Happens(p, m.past)
    /\ sent' = sent

LamportQuiet == UNCHANGED <<lamportClock, ticks, past, log, sent>>

\* Every step is of one of these kinds, and leaves the vectors alone.
LEMMA LamportKinds ==
    ASSUME TypeOK, AllLamport, Transit, NoVectors, [Next]_vars
    PROVE  /\ \/ \E p \in Pid : LamportTick(p)
              \/ \E p \in Pid : \E m \in To(p) : LamportReceive(p, m)
              \/ LamportQuiet
           /\ vectorClock' = vectorClock
           /\ \A p \in Pid : \A h \in cur'[p] : h \in cur[p] \/ h.localVC = vectorClock[p]
<1> USE DEF clocks, history, network, calls
<1> DEFINE Kinds == \/ \E p \in Pid : LamportTick(p)
                    \/ \E p \in Pid : \E m \in To(p) : LamportReceive(p, m)
                    \/ LamportQuiet
           Vectors == /\ vectorClock' = vectorClock
                      /\ \A p \in Pid : \A h \in cur'[p] :
                             h \in cur[p] \/ h.localVC = vectorClock[p]
<1>0. cur \in [Pid -> SUBSET Handling]
  BY DEF TypeOK
<1>1. ASSUME NEW p \in Pid, InternalEvent(p) PROVE Kinds /\ Vectors
  BY <1>1 DEF InternalEvent, LamportTick, tickClock, AllLamport
<1>2. ASSUME NEW c \in Caller, NEW p \in Pid, NEW q \in Pid, Stamp(c, p, q)
      PROVE  Kinds /\ Vectors
  <2>1. sent' = sent \cup {Stamped(p, q)}
    BY <1>2 DEF Stamp, Stamped
  <2>2. tickClock(p) /\ Happens(p, {}) /\ cur' = cur
    BY <1>2 DEF Stamp
  <2>3. LamportTick(p) /\ vectorClock' = vectorClock
    BY <2>1, <2>2 DEF LamportTick, tickClock, AllLamport
  <2> QED
    BY <2>2, <2>3
<1>3. ASSUME NEW p \in Pid, NEW md \in Mode, SetDeliveryMode(p, md) PROVE Kinds /\ Vectors
  BY <1>3 DEF SetDeliveryMode, LamportQuiet
<1>4. ASSUME NEW c \in Caller, CallerStep(c) PROVE Kinds /\ Vectors
  <2> HIDE DEF Kinds, Vectors
  <2>1. ASSUME NEW p \in Pid, NEW q \in Pid, Send(c, p, q) PROVE Kinds /\ Vectors
    BY <2>1, <1>2 DEF Send
  <2>2. ASSUME NEW p \in Pid, Broadcast(c, p) PROVE Kinds /\ Vectors
    <3>1. Peers[p] \in Seq(Pid) /\ Peers[p] # <<>>
      BY <2>2, ConstantsAssumption DEF Broadcast
    <3>2. Head(Peers[p]) \in Pid
      BY <3>1
    <3> QED
      BY <2>2, <3>2, <1>2 DEF Broadcast
  <2>3. ASSUME BroadcastNext(c) PROVE Kinds /\ Vectors
    <3>1. todo[c] \in Seq(Pid \X Pid) /\ todo[c] # <<>>
      BY <2>3 DEF BroadcastNext, TypeOK
    <3>2. Head(todo[c]) \in Pid \X Pid
      BY <3>1
    <3>3. Head(todo[c])[1] \in Pid /\ Head(todo[c])[2] \in Pid
      BY <3>2, Zenon
    <3> QED
      BY <2>3, <3>3, <1>2 DEF BroadcastNext
  <2>4. ASSUME FinishSend(c) PROVE Kinds /\ Vectors
    BY <2>4, Zenon DEF FinishSend, XportSend, XportFail, XportDrop, XportDelay,
                       LamportQuiet, Kinds, Vectors
  <2> QED
    BY <1>4, <2>1, <2>2, <2>3, <2>4 DEF CallerStep
<1>5. ASSUME NEW m \in late, XportRelease(m) PROVE Kinds /\ Vectors
  BY <1>5 DEF XportRelease, LamportQuiet
<1>6. ASSUME NEW p \in Pid, NEW q \in Pid, Forward(p, q) PROVE Kinds /\ Vectors
  BY <1>6 DEF Forward, LamportQuiet
<1>7. ASSUME NEW p \in Pid, RunStep(p) PROVE Kinds /\ Vectors
  <2>1. ASSUME deliverImmediate(p) PROVE Kinds /\ Vectors
    <3>1. PICK h \in cur[p] : /\ receiveClock(p, h.msg) /\ Happens(p, h.msg.past)
                              /\ sent' = sent /\ cur' = [cur EXCEPT ![p] = {}]
      BY <2>1 DEF deliverImmediate, Deliver
    <3>2. h.msg \in To(p)
      BY <3>1 DEF Transit
    <3>3. LamportReceive(p, h.msg) /\ vectorClock' = vectorClock
      BY <3>1 DEF LamportReceive, receiveClock, AllLamport
    <3> QED
      BY <1>0, <3>1, <3>2, <3>3
  <2>2. ~deliverCausal(p)
    <3> SUFFICES ASSUME NEW h \in cur[p]
                 PROVE  ~vector!canDeliver(h.msg.SentVC, h.msg.from, h.localVC)
      BY Zenon DEF deliverCausal
    <3>1. h.msg \in sent /\ h.msg.from \in Pid
      BY CurTyping, Zenon DEF Transit, To
    <3> QED
      BY <3>1, NothingDeliverable, Zenon DEF NoVectors
  <2>3. ~TryDeliver(p)
    <3> SUFFICES ASSUME NEW i \in 1..Len(hbq[p])
                 PROVE  ~vector!canDeliver(hbq[p][i].SentVC, hbq[p][i].from, vectorClock[p])
      BY Zenon DEF TryDeliver
    <3>1. hbq[p][i] \in To(p)
      BY DEF Transit, Contents
    <3>2. hbq[p][i] \in sent /\ hbq[p][i].from \in Pid
      BY <3>1, Zenon DEF To, TypeOK, Message
    <3> QED
      BY <3>2, NothingDeliverable, Zenon DEF NoVectors
  <2>4. ASSUME handleMessage(p) PROVE Kinds /\ Vectors
    <3>1. cur' = [cur EXCEPT ![p] = {[msg |-> Head(inbound[p]), mode |-> mode[p],
                                      localVC |-> vectorClock[p]]}]
      BY <2>4 DEF handleMessage
    <3>2. LamportQuiet /\ vectorClock' = vectorClock
      BY <2>4 DEF handleMessage, LamportQuiet
    <3> QED
      BY <1>0, <3>1, <3>2
  <2>5. ASSUME Enqueue(p) \/ TryDeliverReturn(p) PROVE Kinds /\ Vectors
    <3>1. LamportQuiet /\ vectorClock' = vectorClock
          /\ (cur' = cur \/ cur' = [cur EXCEPT ![p] = {}])
      BY <2>5 DEF Enqueue, TryDeliverReturn, LamportQuiet
    <3> QED
      BY <1>0, <3>1
  <2> HIDE DEF Kinds, Vectors
  <2> QED
    BY <1>7, <2>1, <2>2, <2>3, <2>4, <2>5 DEF RunStep
<1>8. ASSUME UNCHANGED vars PROVE Kinds /\ Vectors
  BY <1>8 DEF vars, LamportQuiet
<1> HIDE DEF Kinds, Vectors
<1>9. Kinds /\ Vectors
  BY <1>1, <1>3, <1>4, <1>5, <1>6, <1>7, <1>8 DEF Next
<1> QED
  BY <1>9 DEF Kinds, Vectors


\* Events that have happened.
Known(events) == \A x \in events : x[2] <= ticks[x[1]]

\* n is at least the Lamport time of every one of the events.
AtMost(events, n) == \A e \in log : e.id \in events => e.lc <= n

\* The inductive invariant: a process's Lamport clock has reached the times of
\* the events of its past, the stamp of a message those of the message's past,
\* and nobody's past contains an event to come.
LamportInv ==
    /\ NoVectors
    /\ \A p \in Pid : Known(past[p]) /\ AtMost(past[p], lamportClock[p])
    /\ \A m \in sent : Known(m.past) /\ AtMost(m.past, m.SentLC)
    /\ \A f \in log : Known(f.past) /\ Known({f.id})
    /\ LamportClockCondition

\* An event at p with a time above those of all it knows of keeps the invariant.
LEMMA LamportEvent ==
    ASSUME TypeOK, TypeOK', AllLamport, LamportInv, NoVectors',
           NEW p \in Pid, NEW seen \in SUBSET EventId, Happens(p, seen), Known(seen),
           \A e \in log : e.id \in past[p] \cup seen => e.lc < lamportClock'[p],
           \A r \in Pid \ {p} : lamportClock'[r] = lamportClock[r],
           \A m \in sent' : m \in sent \/ (m.past = past'[p] /\ m.SentLC = lamportClock'[p])
    PROVE  LamportInv'
<1> DEFINE id == <<p, ticks[p] + 1>>
           new == [id |-> id, past |-> past[p] \cup seen,
                   lc |-> lamportClock'[p], vc |-> vectorClock'[p]]
           KnownThen(events) == \A x \in events : x[2] <= ticks'[x[1]]
           AtMostThen(events, n) == \A e \in log' : e.id \in events => e.lc <= n
<1>1. /\ ticks \in [Pid -> Nat] /\ past \in [Pid -> SUBSET EventId]
      /\ lamportClock' \in [Pid -> Nat]
      /\ ticks' = [ticks EXCEPT ![p] = @ + 1]
      /\ past' = [past EXCEPT ![p] = (@ \cup seen) \cup {id}]
      /\ log' = log \cup {new}
  BY DEF TypeOK, Happens
<1>2. new.id = id /\ new.past = past[p] \cup seen /\ new.lc = lamportClock'[p]
  BY Zenon
<1>3. id[1] = p /\ id[2] = ticks[p] + 1 /\ ticks'[p] = ticks[p] + 1 /\ ticks[p] \in Nat
  BY <1>1
<1>4. \A k \in Pid : ticks[k] \in Nat /\ ticks'[k] \in Nat /\ ticks[k] <= ticks'[k]
  BY <1>1
<1>5. past'[p] = (past[p] \cup seen) \cup {id} /\ \A r \in Pid \ {p} : past'[r] = past[r]
  BY <1>1
<1>6. \A e \in log' : e \in log \/ e = new
  BY <1>1
<1>7. \A e \in log : e.id \in EventId /\ e.past \in SUBSET EventId /\ e.lc \in Nat
  BY Zenon DEF TypeOK, Event
<1> HIDE DEF new, id
\* What was known is still known, and does not contain the new event.
<1>8. ASSUME NEW events \in SUBSET EventId, Known(events)
      PROVE  KnownThen(events) /\ id \notin events
  <2>1. \A x \in events : x[1] \in Pid /\ x[2] \in Nat
    BY Zenon DEF EventId
  <2>2. ASSUME NEW x \in events PROVE x[2] <= ticks'[x[1]]
    <3>1. x[2] <= ticks[x[1]] /\ x[1] \in Pid /\ x[2] \in Nat
      BY <1>8, <2>1 DEF Known
    <3> QED
      BY <1>4, <3>1
  <2>3. ~(id[2] <= ticks[id[1]])
    BY <1>3
  <2> QED
    BY <1>8, <2>2, <2>3 DEF Known
<1>9. KnownThen({id})
  BY <1>3
<1>10. ASSUME NEW events \in SUBSET EventId, NEW n, Known(events), AtMost(events, n)
       PROVE  AtMostThen(events, n)
  BY <1>2, <1>6, <1>8, <1>10 DEF AtMost
<1>11. past[p] \cup seen \in SUBSET EventId /\ Known(past[p] \cup seen)
  BY <1>1 DEF LamportInv, Known
<1>12. \A e \in log : e.id # id
  <2> SUFFICES ASSUME NEW e \in log PROVE e.id # id
    OBVIOUS
  <2>1. {e.id} \in SUBSET EventId /\ Known({e.id})
    BY <1>7 DEF LamportInv
  <2> QED
    BY <1>8, <2>1
<1>13. KnownThen(past'[p]) /\ AtMostThen(past'[p], lamportClock'[p])
  <2>1. KnownThen(past[p] \cup seen)
    BY <1>8, <1>11
  <2>2. KnownThen(past'[p])
    BY <1>5, <1>9, <2>1
  <2>3. ASSUME NEW e \in log', e.id \in past'[p] PROVE e.lc <= lamportClock'[p]
    <3>1. CASE e = new
      BY <1>1, <1>2, <3>1
    <3>2. CASE e \in log
      <4>1. e.id \in past[p] \cup seen
        BY <1>5, <1>12, <2>3, <3>2
      <4>2. e.lc < lamportClock'[p] /\ e.lc \in Nat /\ lamportClock'[p] \in Nat
        BY <1>1, <1>7, <3>2, <4>1
      <4> QED
        BY <4>2
    <3> QED
      BY <1>6, <3>1, <3>2
  <2> QED
    BY <2>2, <2>3
<1>14. ASSUME NEW r \in Pid
       PROVE  KnownThen(past'[r]) /\ AtMostThen(past'[r], lamportClock'[r])
  <2>1. CASE r = p
    BY <1>13, <2>1
  <2>2. CASE r # p
    <3>1. past[r] \in SUBSET EventId /\ Known(past[r]) /\ AtMost(past[r], lamportClock[r])
      BY <1>1 DEF LamportInv
    <3>2. KnownThen(past[r]) /\ AtMostThen(past[r], lamportClock[r])
      <4> HIDE DEF KnownThen, AtMostThen
      <4> QED BY <1>8, <1>10, <3>1
    <3>3. past'[r] = past[r] /\ lamportClock'[r] = lamportClock[r]
      BY <1>5, <2>2
    <3> HIDE DEF KnownThen, AtMostThen
    <3> QED
      BY <3>2, <3>3
  <2> QED
    BY <2>1, <2>2
<1>15. ASSUME NEW m \in sent' PROVE KnownThen(m.past) /\ AtMostThen(m.past, m.SentLC)
  <2> HIDE DEF KnownThen, AtMostThen
  <2>1. CASE m \in sent
    <3>1. m.past \in SUBSET EventId /\ Known(m.past) /\ AtMost(m.past, m.SentLC)
      BY <2>1, Zenon DEF LamportInv, TypeOK, Message
    <3> QED
      BY <1>8, <1>10, <3>1
  <2>2. CASE m.past = past'[p] /\ m.SentLC = lamportClock'[p]
    BY <1>13, <2>2
  <2> QED
    BY <2>1, <2>2
<1>16. ASSUME NEW f \in log' PROVE KnownThen(f.past) /\ KnownThen({f.id})
  <2> HIDE DEF KnownThen
  <2>1. CASE f \in log
    <3>1. /\ f.past \in SUBSET EventId /\ Known(f.past)
          /\ {f.id} \in SUBSET EventId /\ Known({f.id})
      BY <1>7, <2>1 DEF LamportInv
    <3> QED
      BY <1>8, <3>1
  <2>2. CASE f = new
    BY <1>2, <1>8, <1>9, <1>11, <2>2
  <2> QED
    BY <1>6, <2>1, <2>2
<1>17. ASSUME NEW e \in log', NEW f \in log', e.id \in f.past PROVE e.lc < f.lc
  <2>1. CASE e \in log /\ f \in log
    BY <1>17, <2>1 DEF LamportInv, LamportClockCondition
  <2>2. CASE e \in log /\ f = new
    BY <1>2, <1>17, <2>2
  <2>3. CASE e = new
    <3>1. f.past \in SUBSET EventId /\ Known(f.past)
      BY <1>2, <1>6, <1>7, <1>11 DEF LamportInv
    <3>2. id \notin f.past
      BY <1>8, <3>1
    <3> QED
      BY <1>2, <1>17, <2>3, <3>2
  <2> QED
    BY <1>6, <2>1, <2>2, <2>3
<1>18. LamportClockCondition'
  BY <1>17 DEF LamportClockCondition
<1> QED
  BY <1>14, <1>15, <1>16, <1>18 DEF LamportInv, Known, AtMost

\* Every step preserves the invariant.
LEMMA LamportStep ==
    ASSUME TypeOK, TypeOK', AllLamport, Transit, LamportInv, [Next]_vars
    PROVE  LamportInv'
<1>0. NoVectors
  BY DEF LamportInv
<1>1. /\ \/ \E p \in Pid : LamportTick(p)
         \/ \E p \in Pid : \E m \in To(p) : LamportReceive(p, m)
         \/ LamportQuiet
      /\ vectorClock' = vectorClock
      /\ \A p \in Pid : \A h \in cur'[p] : h \in cur[p] \/ h.localVC = vectorClock[p]
  BY <1>0, LamportKinds
<1>2. /\ lamportClock \in [Pid -> Nat] /\ past \in [Pid -> SUBSET EventId]
      /\ \A e \in log : e.lc \in Nat
  BY Zenon DEF TypeOK, Event
<1>3. \A m \in sent' : m \in sent \/ m.SentVC = vector!New
  <2>1. \A p, q \in Pid : Stamped(p, q).SentVC = vector!New
    BY DEF Stamped, AllLamport
  <2> QED
    BY <1>1, <2>1, Zenon DEF LamportTick, LamportReceive, LamportQuiet
<1>4. NoVectors'
  BY <1>0, <1>1, <1>3, Zenon DEF NoVectors
<1>5. ASSUME NEW p \in Pid, LamportTick(p) PROVE LamportInv'
  <2>1. /\ lamportClock'[p] = lamportClock[p] + 1 /\ lamportClock[p] \in Nat
        /\ \A r \in Pid \ {p} : lamportClock'[r] = lamportClock[r]
    BY <1>2, <1>5 DEF LamportTick, lamport!Tick
  <2>2. ASSUME NEW e \in log, e.id \in past[p] \cup {} PROVE e.lc < lamportClock'[p]
    <3>1. e.lc <= lamportClock[p] /\ e.lc \in Nat
      BY <1>2, <2>2 DEF LamportInv, AtMost
    <3> QED
      BY <2>1, <3>1
  <2>3. past'[p] = past[p] \cup {<<p, ticks[p] + 1>>}
    BY <1>2, <1>5 DEF LamportTick, Happens
  <2>4. \A q \in Pid : /\ Stamped(p, q).past = past[p] \cup {<<p, ticks[p] + 1>>}
                      /\ Stamped(p, q).SentLC = lamportClock'[p]
    BY Zenon DEF Stamped
  <2>5. \A m \in sent' : m \in sent \/ (m.past = past'[p] /\ m.SentLC = lamportClock'[p])
    BY <1>5, <2>3, <2>4, Zenon DEF LamportTick
  <2>6. Happens(p, {}) /\ Known({}) /\ {} \in SUBSET EventId
    BY <1>5 DEF LamportTick, Known
  <2> QED
    BY <1>4, <2>1, <2>2, <2>5, <2>6, LamportEvent
<1>6. ASSUME NEW p \in Pid, NEW m \in To(p), LamportReceive(p, m) PROVE LamportInv'
  <2>0. m \in sent /\ m.SentLC \in Nat /\ m.past \in SUBSET EventId
    BY Zenon DEF To, TypeOK, Message
  <2>1. /\ lamportClock'[p] = lamport!Receive(lamportClock[p], m.SentLC)
        /\ \A r \in Pid \ {p} : lamportClock'[r] = lamportClock[r]
    BY <1>2, <1>6 DEF LamportReceive
  <2>2. /\ lamportClock'[p] \in Nat /\ lamportClock[p] \in Nat
        /\ lamportClock[p] < lamportClock'[p] /\ m.SentLC < lamportClock'[p]
    BY <1>2, <2>0, <2>1 DEF lamport!Receive
  <2>3. ASSUME NEW e \in log, e.id \in past[p] \cup m.past PROVE e.lc < lamportClock'[p]
    <3>1. (e.lc <= lamportClock[p] \/ e.lc <= m.SentLC) /\ e.lc \in Nat
      BY <1>2, <2>0, <2>3 DEF LamportInv, AtMost
    <3> QED
      BY <2>0, <2>2, <3>1
  <2>4. Happens(p, m.past) /\ Known(m.past) /\ sent' = sent
    BY <1>6, <2>0 DEF LamportReceive, LamportInv
  <2> QED
    BY <1>4, <2>0, <2>1, <2>3, <2>4, LamportEvent
<1>7. CASE LamportQuiet
  BY <1>4, <1>7 DEF LamportQuiet, LamportInv, Known, AtMost, LamportClockCondition
<1> QED
  BY <1>1, <1>5, <1>6, <1>7

\* Of LamportClock, whatever the interleaving, the modes and the faults: an event
\* that happened before another has the smaller value.
THEOREM LamportConsistent == ASSUME AllLamport PROVE Spec => []LamportClockCondition
<1>1. Init => Transit /\ LamportInv
  <2> SUFFICES ASSUME Init PROVE Transit /\ LamportInv
    OBVIOUS
  <2>1. Transit
    BY DEF Init, Transit, Contents
  <2>2. LamportInv
    BY DEF Init, LamportInv, NoVectors, Known, AtMost, LamportClockCondition
  <2> QED
    BY <2>1, <2>2
<1>2. TypeOK /\ TypeOK' /\ Transit /\ LamportInv /\ [Next]_vars => Transit' /\ LamportInv'
  BY TransitStep, LamportStep
<1>3. LamportInv => LamportClockCondition
  BY DEF LamportInv
<1> QED
  BY <1>1, <1>2, <1>3, Typing, PTL DEF Spec

=============================================================================
