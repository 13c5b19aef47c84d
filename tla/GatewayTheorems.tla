-------------------------- MODULE GatewayTheorems --------------------------
(***************************************************************************)
(* For every number of resets, overlapping in every way, and a Shutdown at *)
(* any time: the hub has one subscription and at most one fan-out          *)
(* goroutine, and no reset stops the simulation that is served.            *)
(***************************************************************************)
EXTENDS Gateway, FiniteSetTheorems, TLAPS

\* Reset r has not yet made its simulation the current one.
NotSwapped(r) == pc[r] \in {"idle", "swap"}

\* Reset r has replaced a simulation that it has not stopped yet.
Owes(r) == pc[r] \in {"stop", "close", "resub", "start", "graph", "halt"}

\* Simulation i has been the current one.
WasCurrent(i) == i = 1 \/ ~NotSwapped(i - 1)

\* The inductive invariant.  Channels: the goroutine that runDone belongs to is
\* the only one that may be alive, the one of a reset is started by that reset
\* only, and stop() closes a channel that exists.  Simulations: a reset that
\* has not swapped keeps its own alive, since only a simulation that was
\* current can be stopped by another; and none owes the current one a stop.
Channels ==
    /\ \A k \in Run : run[k] \notin {"none", "exited"} => k = runDone
    /\ \A r \in Reset : NotSwapped(r) \/ pc[r] \in {"stop", "close", "resub", "start"}
                            => run[r + 1] = "none"
    /\ \A a \in Actor : pc[a] = "close" => cancel[a] \in Run

Simulations ==
    /\ WasCurrent(sim)
    /\ \A r \in Reset : pc[r] = "swap" => simState[r + 1] = "live"
    /\ \A r \in Reset : Owes(r) => /\ oldSim[r] \in Sim
                                   /\ WasCurrent(oldSim[r])
                                   /\ oldSim[r] # sim

IInv == TypeOK /\ Channels /\ Simulations /\ OneSubscription /\ CurrentSimLive

-----------------------------------------------------------------------------

\* The sets the constants define: a reset's simulation is another one than the
\* first, and Shutdown is not a reset.
LEMMA Domains ==
    /\ \A r \in Reset : /\ r \in Nat /\ r # 0 /\ r \in Actor
                        /\ r + 1 \in Sim /\ r + 1 # 1 /\ (r + 1) - 1 = r
    /\ \A i \in Sim : i \in Nat /\ i # 0 /\ (i # 1 => i - 1 \in Reset)
    /\ 1 \in Sim /\ Run = Sim /\ Shut \in Actor /\ Shut \notin Reset
    /\ \A r, q \in Reset : r + 1 = q + 1 => r = q
BY ResetAssumption DEF Reset, Sim, Run, Shut, Actor

\* The state NewServerWithRateLimit creates satisfies the invariant.
LEMMA InitInv == Init => IInv
<1> SUFFICES ASSUME Init PROVE IInv
  OBVIOUS
<1>1. TypeOK
  BY Domains DEF Init, TypeOK
<1>2. Channels
  BY Domains DEF Init, Channels
<1>3. Simulations
  BY Domains DEF Init, Simulations, Owes, WasCurrent
<1>4. OneSubscription /\ CurrentSimLive
  BY Domains DEF Init, OneSubscription, CurrentSimLive
<1> QED
  BY <1>1, <1>2, <1>3, <1>4 DEF IInv

\* A reset that begins creates a live simulation of its own.
LEMMA ResetBeginInv ==
    ASSUME IInv, NEW r \in Reset, resetBegin(r)
    PROVE  IInv'
<1>1. TypeOK'
  BY Domains DEF IInv, TypeOK, Channels, Simulations, Owes, resetBegin, Goto, hub
<1>2. Channels'
  BY Domains DEF IInv, TypeOK, Channels, NotSwapped, resetBegin, Goto, hub
<1>3. Simulations'
  BY Domains DEF IInv, TypeOK, Simulations, Owes, WasCurrent, NotSwapped, resetBegin, Goto, hub
<1>4. OneSubscription'
  BY DEF IInv, OneSubscription, resetBegin, Goto, hub
<1>5. CurrentSimLive'
  BY Domains DEF IInv, TypeOK, CurrentSimLive, Simulations, Owes, resetBegin, Goto, hub
<1> QED
  BY <1>1, <1>2, <1>3, <1>4, <1>5 DEF IInv

\* setSim makes the new simulation current and owes the old one a stop.
LEMMA SwapSimInv ==
    ASSUME IInv, NEW r \in Reset, swapSim(r)
    PROVE  IInv'
<1>1. TypeOK'
  BY Domains DEF IInv, TypeOK, Channels, Simulations, Owes, swapSim, Goto, hub
<1>2. Channels'
  BY Domains DEF IInv, TypeOK, Channels, NotSwapped, swapSim, Goto, hub
<1>3. Simulations'
  BY Domains DEF IInv, TypeOK, Simulations, Owes, WasCurrent, NotSwapped, swapSim, Goto, hub
<1>4. OneSubscription'
  BY DEF IInv, OneSubscription, swapSim, Goto, hub
<1>5. CurrentSimLive'
  BY Domains DEF IInv, TypeOK, CurrentSimLive, Simulations, Owes, swapSim, Goto, hub
<1> QED
  BY <1>1, <1>2, <1>3, <1>4, <1>5 DEF IInv

\* reconnect exchanges the subscription.
LEMMA ResubscribeInv ==
    ASSUME IInv, NEW r \in Reset, resubscribe(r)
    PROVE  IInv'
<1>1. TypeOK'
  BY Domains DEF IInv, TypeOK, Channels, Simulations, Owes, resubscribe, Goto, server
<1>2. Channels'
  BY Domains DEF IInv, TypeOK, Channels, NotSwapped, resubscribe, Goto, server
<1>3. Simulations'
  BY Domains DEF IInv, TypeOK, Simulations, Owes, WasCurrent, NotSwapped, resubscribe, Goto,
     server
<1>4. OneSubscription'
  BY DEF IInv, OneSubscription, resubscribe, Goto, server
<1>5. CurrentSimLive'
  BY Domains DEF IInv, TypeOK, CurrentSimLive, Simulations, Owes, resubscribe, Goto, server
<1> QED
  BY <1>1, <1>2, <1>3, <1>4, <1>5 DEF IInv

\* start launches a goroutine once the previous one has closed runDone.
LEMMA StartHubInv ==
    ASSUME IInv, NEW r \in Reset, start(r)
    PROVE  IInv'
<1>1. TypeOK'
  BY Domains DEF IInv, TypeOK, Channels, Simulations, Owes, start, Goto, server
<1>2. Channels'
  BY Domains DEF IInv, TypeOK, Channels, NotSwapped, start, Goto, server
<1>3. Simulations'
  BY Domains DEF IInv, TypeOK, Simulations, Owes, WasCurrent, NotSwapped, start, Goto, server
<1>4. OneSubscription'
  BY DEF IInv, OneSubscription, start, Goto, server
<1>5. CurrentSimLive'
  BY Domains DEF IInv, TypeOK, CurrentSimLive, Simulations, Owes, start, Goto, server
<1> QED
  BY <1>1, <1>2, <1>3, <1>4, <1>5 DEF IInv

\* The graph subscriber is exchanged.
LEMMA SubscribeGraphInv ==
    ASSUME IInv, NEW r \in Reset, subscribeCausalGraph(r)
    PROVE  IInv'
<1>1. TypeOK'
  BY Domains DEF IInv, TypeOK, Channels, Simulations, Owes, subscribeCausalGraph, Goto, hub
<1>2. Channels'
  BY Domains DEF IInv, TypeOK, Channels, NotSwapped, subscribeCausalGraph, Goto, hub
<1>3. Simulations'
  BY Domains DEF IInv, TypeOK, Simulations, Owes, WasCurrent, NotSwapped,
     subscribeCausalGraph, Goto, hub
<1>4. OneSubscription'
  BY DEF IInv, OneSubscription, subscribeCausalGraph, Goto, hub
<1>5. CurrentSimLive'
  BY Domains DEF IInv, TypeOK, CurrentSimLive, Simulations, Owes, subscribeCausalGraph, Goto,
     hub
<1> QED
  BY <1>1, <1>2, <1>3, <1>4, <1>5 DEF IInv

\* The simulation that is stopped is not the current one.
LEMMA StopOldSimInv ==
    ASSUME IInv, NEW r \in Reset, stopOldSim(r)
    PROVE  IInv'
<1>1. TypeOK'
  BY Domains DEF IInv, TypeOK, Channels, Simulations, Owes, stopOldSim, Goto, hub
<1>2. Channels'
  BY Domains DEF IInv, TypeOK, Channels, NotSwapped, stopOldSim, Goto, hub
<1>3. Simulations'
  BY Domains DEF IInv, TypeOK, Simulations, Owes, WasCurrent, NotSwapped, stopOldSim, Goto, hub
<1>4. OneSubscription'
  BY DEF IInv, OneSubscription, stopOldSim, Goto, hub
<1>5. CurrentSimLive'
  BY Domains DEF IInv, TypeOK, CurrentSimLive, Simulations, Owes, stopOldSim, Goto, hub
<1> QED
  BY <1>1, <1>2, <1>3, <1>4, <1>5 DEF IInv

\* stop reads a channel that a started goroutine owns.
LEMMA StopReadInv ==
    ASSUME IInv, NEW a \in Actor, NEW next \in {"resub", "halt"},
           (a \in Reset /\ next = "resub") \/ (a = Shut /\ next = "halt"), stopRead(a, next)
    PROVE  IInv'
<1>1. TypeOK'
  BY Domains DEF IInv, TypeOK, Channels, Simulations, Owes, stopRead, Goto, server, hub
<1>2. Channels'
  BY Domains DEF IInv, TypeOK, Channels, NotSwapped, stopRead, Goto, server, hub
<1>3. Simulations'
  BY Domains DEF IInv, TypeOK, Simulations, Owes, WasCurrent, NotSwapped, stopRead, Goto,
     server, hub
<1>4. OneSubscription'
  BY DEF IInv, OneSubscription, stopRead, Goto, server, hub
<1>5. CurrentSimLive'
  BY Domains DEF IInv, TypeOK, CurrentSimLive, Simulations, Owes, stopRead, Goto, server, hub
<1> QED
  BY <1>1, <1>2, <1>3, <1>4, <1>5 DEF IInv

\* stop closes the channel it read, or panics.
LEMMA StopCloseInv ==
    ASSUME IInv, NEW a \in Actor, NEW next \in {"resub", "halt"},
           (a \in Reset /\ next = "resub") \/ (a = Shut /\ next = "halt"), stopClose(a, next)
    PROVE  IInv'
<1>1. TypeOK'
  BY Domains DEF IInv, TypeOK, Channels, Simulations, Owes, stopClose, Goto, server
<1>2. Channels'
  BY Domains DEF IInv, TypeOK, Channels, NotSwapped, stopClose, Goto, server
<1>3. Simulations'
  BY Domains DEF IInv, TypeOK, Simulations, Owes, WasCurrent, NotSwapped, stopClose, Goto,
     server
<1>4. OneSubscription'
  BY DEF IInv, OneSubscription, stopClose, Goto, server
<1>5. CurrentSimLive'
  BY Domains DEF IInv, TypeOK, CurrentSimLive, Simulations, Owes, stopClose, Goto, server
<1> QED
  BY <1>1, <1>2, <1>3, <1>4, <1>5 DEF IInv

\* A turn of the fan-out goroutine can only end that goroutine.
LEMMA RunStepInv ==
    ASSUME IInv, NEW k \in Run, runStep(k)
    PROVE  IInv'
<1>1. TypeOK'
  BY Domains DEF IInv, TypeOK, Channels, Simulations, Owes, runStep, RunTop, RunSelect, Exit,
     server
<1>2. Channels'
  BY Domains DEF IInv, TypeOK, Channels, NotSwapped, runStep, RunTop, RunSelect, Exit, server
<1>3. Simulations'
  BY Domains DEF IInv, TypeOK, Simulations, Owes, WasCurrent, NotSwapped, runStep, RunTop,
     RunSelect, Exit, server
<1>4. OneSubscription'
  BY DEF IInv, OneSubscription, runStep, RunTop, RunSelect, Exit, server
<1>5. CurrentSimLive'
  BY Domains DEF IInv, TypeOK, CurrentSimLive, Simulations, Owes, runStep, RunTop, RunSelect,
     Exit, server
<1> QED
  BY <1>1, <1>2, <1>3, <1>4, <1>5 DEF IInv

\* A cancelled graph subscriber ends.
LEMMA GraphExitInv ==
    ASSUME IInv, NEW i \in Sim, graphExit(i)
    PROVE  IInv'
<1>1. TypeOK'
  BY Domains DEF IInv, TypeOK, Channels, Simulations, Owes, graphExit, hub
<1>2. Channels'
  BY Domains DEF IInv, TypeOK, Channels, NotSwapped, graphExit, hub
<1>3. Simulations'
  BY Domains DEF IInv, TypeOK, Simulations, Owes, WasCurrent, NotSwapped, graphExit, hub
<1>4. OneSubscription'
  BY DEF IInv, OneSubscription, graphExit, hub
<1>5. CurrentSimLive'
  BY Domains DEF IInv, TypeOK, CurrentSimLive, Simulations, Owes, graphExit, hub
<1> QED
  BY <1>1, <1>2, <1>3, <1>4, <1>5 DEF IInv

\* The scenario runner starts.
LEMMA ScenarioStartInv ==
    ASSUME IInv, scenarioStart
    PROVE  IInv'
<1>1. TypeOK'
  BY Domains DEF IInv, TypeOK, Channels, Simulations, Owes, scenarioStart, hub
<1>2. Channels'
  BY Domains DEF IInv, TypeOK, Channels, NotSwapped, scenarioStart, hub
<1>3. Simulations'
  BY Domains DEF IInv, TypeOK, Simulations, Owes, WasCurrent, NotSwapped, scenarioStart, hub
<1>4. OneSubscription'
  BY DEF IInv, OneSubscription, scenarioStart, hub
<1>5. CurrentSimLive'
  BY Domains DEF IInv, TypeOK, CurrentSimLive, Simulations, Owes, scenarioStart, hub
<1> QED
  BY <1>1, <1>2, <1>3, <1>4, <1>5 DEF IInv

\* The scenario runner ends.
LEMMA ScenarioEndInv ==
    ASSUME IInv, scenarioEnd
    PROVE  IInv'
<1>1. TypeOK'
  BY Domains DEF IInv, TypeOK, Channels, Simulations, Owes, scenarioEnd, hub
<1>2. Channels'
  BY Domains DEF IInv, TypeOK, Channels, NotSwapped, scenarioEnd, hub
<1>3. Simulations'
  BY Domains DEF IInv, TypeOK, Simulations, Owes, WasCurrent, NotSwapped, scenarioEnd, hub
<1>4. OneSubscription'
  BY DEF IInv, OneSubscription, scenarioEnd, hub
<1>5. CurrentSimLive'
  BY Domains DEF IInv, TypeOK, CurrentSimLive, Simulations, Owes, scenarioEnd, hub
<1> QED
  BY <1>1, <1>2, <1>3, <1>4, <1>5 DEF IInv

\* Shutdown begins.
LEMMA ShutdownBeginInv ==
    ASSUME IInv, shutdownBegin
    PROVE  IInv'
<1>1. TypeOK'
  BY Domains DEF IInv, TypeOK, Channels, Simulations, Owes, shutdownBegin, Goto, hub
<1>2. Channels'
  BY Domains DEF IInv, TypeOK, Channels, NotSwapped, shutdownBegin, Goto, hub
<1>3. Simulations'
  BY Domains DEF IInv, TypeOK, Simulations, Owes, WasCurrent, NotSwapped, shutdownBegin, Goto,
     hub
<1>4. OneSubscription'
  BY DEF IInv, OneSubscription, shutdownBegin, Goto, hub
<1>5. CurrentSimLive'
  BY Domains DEF IInv, TypeOK, CurrentSimLive, Simulations, Owes, shutdownBegin, Goto, hub
<1> QED
  BY <1>1, <1>2, <1>3, <1>4, <1>5 DEF IInv

\* The grace period ends a wait of Shutdown.
LEMMA ExpireInv ==
    ASSUME IInv, expire
    PROVE  IInv'
<1>1. TypeOK'
  BY Domains DEF IInv, TypeOK, Channels, Simulations, Owes, expire, Goto, hub
<1>2. Channels'
  BY Domains DEF IInv, TypeOK, Channels, NotSwapped, expire, Goto, hub
<1>3. Simulations'
  BY Domains DEF IInv, TypeOK, Simulations, Owes, WasCurrent, NotSwapped, expire, Goto, hub
<1>4. OneSubscription'
  BY DEF IInv, OneSubscription, expire, Goto, hub
<1>5. CurrentSimLive'
  BY Domains DEF IInv, TypeOK, CurrentSimLive, Simulations, Owes, expire, Goto, hub
<1> QED
  BY <1>1, <1>2, <1>3, <1>4, <1>5 DEF IInv

\* The last request has been answered.
LEMMA HttpShutdownInv ==
    ASSUME IInv, httpShutdown
    PROVE  IInv'
<1>1. TypeOK'
  BY Domains DEF IInv, TypeOK, Channels, Simulations, Owes, httpShutdown, Goto, server, hub
<1>2. Channels'
  BY Domains DEF IInv, TypeOK, Channels, NotSwapped, httpShutdown, Goto, server, hub
<1>3. Simulations'
  BY Domains DEF IInv, TypeOK, Simulations, Owes, WasCurrent, NotSwapped, httpShutdown, Goto,
     server, hub
<1>4. OneSubscription'
  BY DEF IInv, OneSubscription, httpShutdown, Goto, server, hub
<1>5. CurrentSimLive'
  BY Domains DEF IInv, TypeOK, CurrentSimLive, Simulations, Owes, httpShutdown, Goto, server,
     hub
<1> QED
  BY <1>1, <1>2, <1>3, <1>4, <1>5 DEF IInv

\* Shutdown stops the current simulation.
LEMMA StopSimInv ==
    ASSUME IInv, stopSim
    PROVE  IInv'
<1>1. TypeOK'
  BY Domains DEF IInv, TypeOK, Channels, Simulations, Owes, stopSim, Goto, hub
<1>2. Channels'
  BY Domains DEF IInv, TypeOK, Channels, NotSwapped, stopSim, Goto, hub
<1>3. Simulations'
  BY Domains DEF IInv, TypeOK, Simulations, Owes, WasCurrent, NotSwapped, stopSim, Goto, hub
<1>4. OneSubscription'
  BY DEF IInv, OneSubscription, stopSim, Goto, hub
<1>5. CurrentSimLive'
  BY Domains DEF IInv, TypeOK, CurrentSimLive, Simulations, Owes, stopSim, Goto, hub
<1> QED
  BY <1>1, <1>2, <1>3, <1>4, <1>5 DEF IInv

\* Shutdown cancels the graph subscriber.
LEMMA CancelGraphInv ==
    ASSUME IInv, cancelGraph
    PROVE  IInv'
<1>1. TypeOK'
  BY Domains DEF IInv, TypeOK, Channels, Simulations, Owes, cancelGraph, Goto, hub
<1>2. Channels'
  BY Domains DEF IInv, TypeOK, Channels, NotSwapped, cancelGraph, Goto, hub
<1>3. Simulations'
  BY Domains DEF IInv, TypeOK, Simulations, Owes, WasCurrent, NotSwapped, cancelGraph, Goto, hub
<1>4. OneSubscription'
  BY DEF IInv, OneSubscription, cancelGraph, Goto, hub
<1>5. CurrentSimLive'
  BY Domains DEF IInv, TypeOK, CurrentSimLive, Simulations, Owes, cancelGraph, Goto, hub
<1> QED
  BY <1>1, <1>2, <1>3, <1>4, <1>5 DEF IInv

\* Shutdown returns.
LEMMA ShutdownEndInv ==
    ASSUME IInv, shutdownEnd
    PROVE  IInv'
<1>1. TypeOK'
  BY Domains DEF IInv, TypeOK, Channels, Simulations, Owes, shutdownEnd, Goto, server, hub
<1>2. Channels'
  BY Domains DEF IInv, TypeOK, Channels, NotSwapped, shutdownEnd, Goto, server, hub
<1>3. Simulations'
  BY Domains DEF IInv, TypeOK, Simulations, Owes, WasCurrent, NotSwapped, shutdownEnd, Goto,
     server, hub
<1>4. OneSubscription'
  BY DEF IInv, OneSubscription, shutdownEnd, Goto, server, hub
<1>5. CurrentSimLive'
  BY Domains DEF IInv, TypeOK, CurrentSimLive, Simulations, Owes, shutdownEnd, Goto, server, hub
<1> QED
  BY <1>1, <1>2, <1>3, <1>4, <1>5 DEF IInv

\* Every step of every goroutine preserves the invariant.
LEMMA NextInv == IInv /\ [Next]_vars => IInv'
<1> SUFFICES ASSUME IInv, [Next]_vars PROVE IInv'
  OBVIOUS
<1>1. ASSUME NEW r \in Reset, resetBegin(r) \/ resetStep(r) PROVE IInv'
  <2>1. CASE resetBegin(r)
    BY <2>1, ResetBeginInv
  <2>2. CASE swapSim(r)
    BY <2>2, SwapSimInv
  <2>3. CASE stopRead(r, "resub")
    BY <2>3, StopReadInv, Domains
  <2>4. CASE stopClose(r, "resub")
    BY <2>4, StopCloseInv, Domains
  <2>5. CASE resubscribe(r)
    BY <2>5, ResubscribeInv
  <2>6. CASE start(r)
    BY <2>6, StartHubInv
  <2>7. CASE subscribeCausalGraph(r)
    BY <2>7, SubscribeGraphInv
  <2>8. CASE stopOldSim(r)
    BY <2>8, StopOldSimInv
  <2> QED
    BY <1>1, <2>1, <2>2, <2>3, <2>4, <2>5, <2>6, <2>7, <2>8 DEF resetStep
<1>2. CASE Shutdown
  <2>1. CASE stopRead(Shut, "halt")
    BY <2>1, StopReadInv, Domains
  <2>2. CASE stopClose(Shut, "halt")
    BY <2>2, StopCloseInv, Domains
  <2> QED
    BY <1>2, <2>1, <2>2, HttpShutdownInv, StopSimInv, CancelGraphInv, ShutdownEndInv DEF
       Shutdown
<1>3. CASE UNCHANGED vars
  BY <1>3 DEF IInv, TypeOK, Channels, Simulations, OneSubscription, CurrentSimLive, NotSwapped,
     Owes, WasCurrent, vars, server, hub
<1> QED
  BY <1>1, <1>2, <1>3, RunStepInv, GraphExitInv, ScenarioStartInv, ScenarioEndInv,
     ShutdownBeginInv, ExpireInv DEF Next

\* The invariant holds throughout.
THEOREM Invariance == Spec => []IInv
BY InitInv, NextInv, PTL DEF Spec

\* The types hold, and runDone is closed by exactly the goroutines that ended.
THEOREM TypeCorrect == Spec => []TypeOK
<1>1. IInv => TypeOK
  BY DEF IInv
<1> QED
  BY <1>1, Invariance, PTL

\* No reset, whatever it overlaps, stops the simulation getSim returns: each
\* stops the one it replaced, which is never current again.
THEOREM NoStoppedSimServed == Spec => []CurrentSimLive
<1>1. IInv => CurrentSimLive
  BY DEF IInv
<1> QED
  BY <1>1, Invariance, PTL

\* The hub never leaks a subscription, nor misses the one it waits on.
THEOREM SingleSubscription == Spec => []OneSubscription
<1>1. IInv => OneSubscription
  BY DEF IInv
<1> QED
  BY <1>1, Invariance, PTL

\* The hub never has two fan-out goroutines: the one of runDone is the only one
\* that may be alive.
THEOREM SingleFanOut == Spec => []OneFanOut
<1>1. ASSUME IInv PROVE OneFanOut
  <2> DEFINE alive == {k \in Run : run[k] \notin {"none", "exited"}}
  <2>1. alive \subseteq {runDone}
    BY <1>1 DEF IInv, Channels
  <2>2. IsFiniteSet({runDone}) /\ Cardinality({runDone}) = 1
    BY FS_Singleton
  <2>3. Cardinality(alive) <= Cardinality({runDone})
    BY <2>1, <2>2, FS_Subset
  <2> QED
    BY <2>2, <2>3 DEF OneFanOut
<1> QED
  BY <1>1, Invariance, PTL
=============================================================================
