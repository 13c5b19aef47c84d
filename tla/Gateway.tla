------------------------------ MODULE Gateway ------------------------------
(***************************************************************************)
(* The life cycle of the gateway (gateway/server.go, websocket.go and the  *)
(* reset and scenario handlers of rest.go): which simulation is served,    *)
(* which bus the WebSocket hub and the causal graph listen to, and which   *)
(* goroutines run, while simulations are reset, possibly by several        *)
(* requests at once, and while the server shuts down.                      *)
(*                                                                         *)
(* Simulation i owns bus i; reset r creates simulation r + 1.  A pair of   *)
(* channels runCancel/runDone is numbered by the goroutine run it was made *)
(* for, 0 standing for nil.  A critical section of h.mu or simMu is one    *)
(* step; what the code does between two sections is interleaved.  What     *)
(* flows through a bus is the subject of module EventFeed.                 *)
(***************************************************************************)
EXTENDS Naturals, FiniteSets

CONSTANTS MaxResets     \* bound: reset requests

ASSUME ResetAssumption == MaxResets \in Nat

Reset == 1..MaxResets
Sim == 1..(MaxResets + 1)
Run == Sim              \* newWSHub and every reset start one goroutine
Shut == 0               \* the goroutine that calls Shutdown
Actor == Reset \cup {Shut}

VARIABLES
    sim,            \* Server.sim
    simState,       \* [Sim -> {"none", "live", "stopped"}]
    pc, oldSim,     \* [Actor -> where it is], [Reset -> the simulation it replaced]
    cancel,         \* [Actor -> the runCancel read by stop()]
    hubBus, hubSubs,\* WSHub.bus; the buses with a subscription of the hub
    runCancel, runDone, cancelClosed, doneClosed,
    run, runBus,    \* [Run -> where it is], [Run -> the bus it waits on]
    graph, cgCancel,\* [Sim -> graph subscriber], the subscriber cgCancel cancels
    ready,          \* Server.ready
    expired,        \* the context of Shutdown has expired
    scenario,       \* the goroutine of handleRunScenario: "idle" or "running"
    overlapped      \* history: two resets, or a reset and hub.stop of Shutdown, overlapped

server == <<sim, simState, oldSim, graph, cgCancel, ready, expired, scenario, overlapped>>
hub == <<hubBus, hubSubs, runCancel, runDone, cancelClosed, doneClosed, run, runBus>>
vars == <<server, pc, cancel, hub>>

\* The types; the hub's channels belong to a goroutine that was started, and
\* runDone is closed only by a goroutine that has returned.
TypeOK ==
    /\ sim \in Sim /\ hubBus \in Sim /\ hubSubs \subseteq Sim
    /\ simState \in [Sim -> {"none", "live", "stopped"}]
    /\ pc \in [Actor -> {"idle", "swap", "http", "stop", "close", "resub", "start", "graph",
                         "halt", "cancel", "wait", "done", "failed"}]
    /\ oldSim \in [Reset -> Sim \cup {0}] /\ cancel \in [Actor -> Run \cup {0}]
    /\ {runCancel, runDone} \subseteq Run \cup {0}
    /\ cancelClosed \subseteq Run /\ doneClosed = {k \in Run : run[k] = "exited"}
    /\ run \in [Run -> {"none", "top", "select", "exited"}]
    /\ runDone # 0 => run[runDone] # "none"
    /\ runBus \in [Run -> Sim \cup {0}]
    /\ graph \in [Sim -> {"none", "running", "cancelled", "exited"}] /\ cgCancel \in Sim
    /\ ready \in BOOLEAN /\ expired \in BOOLEAN
    /\ scenario \in {"idle", "running"}
    /\ overlapped \in BOOLEAN

\* NewServerWithRateLimit: hub and graph are subscribed to the bus of the first
\* simulation and the fan-out goroutine is started.
Init ==
    /\ sim = 1 /\ simState = [i \in Sim |-> IF i = 1 THEN "live" ELSE "none"]
    /\ pc = [a \in Actor |-> "idle"] /\ oldSim = [r \in Reset |-> 0]
    /\ cancel = [a \in Actor |-> 0]
    /\ hubBus = 1 /\ hubSubs = {1}
    /\ runCancel = 1 /\ runDone = 1 /\ cancelClosed = {} /\ doneClosed = {}
    /\ run = [k \in Run |-> IF k = 1 THEN "top" ELSE "none"]
    /\ runBus = [k \in Run |-> 0]
    /\ graph = [i \in Sim |-> IF i = 1 THEN "running" ELSE "none"] /\ cgCancel = 1
    /\ ready = TRUE /\ expired = FALSE /\ scenario = "idle"
    /\ overlapped = FALSE

Goto(a, where) == pc' = [pc EXCEPT ![a] = where]

InFlight == {r \in Reset : pc[r] \notin {"idle", "done", "failed"}}

\* The HTTP server takes requests until Shutdown closes its listener.
Accepting == pc[Shut] = "idle"

-----------------------------------------------------------------------------
(* WSHub.run.                                                              *)

\* Mutant of Exit: runDone is not closed.
ExitSilent(k) ==
    /\ run' = [run EXCEPT ![k] = "exited"]
    /\ runBus' = [runBus EXCEPT ![k] = 0]
    /\ UNCHANGED doneClosed

\* The goroutine returns; the deferred close of runDone runs.
Exit(k) ==
    /\ run' = [run EXCEPT ![k] = "exited"]
    /\ runBus' = [runBus EXCEPT ![k] = 0]
    /\ doneClosed' = doneClosed \cup {k}

\* The first select, on h.runCancel, which is read anew on every turn; then
\* h.bus and h.sub are read under the lock.
RunTop(k) ==
    /\ run[k] = "top"
    /\ IF runCancel \in cancelClosed THEN Exit(k)
       ELSE /\ run' = [run EXCEPT ![k] = "select"]
            /\ runBus' = [runBus EXCEPT ![k] = hubBus]
            /\ UNCHANGED doneClosed

\* The second select: cancelled, the bus read above is done, or an event to fan
\* out, which a bus sends as long as it is live and the hub subscribed to it.
RunSelect(k) ==
    /\ run[k] = "select"
    /\ \/ /\ runCancel \in cancelClosed \/ simState[runBus[k]] = "stopped"
          /\ Exit(k)
       \/ /\ simState[runBus[k]] = "live" /\ runBus[k] \in hubSubs
          /\ run' = [run EXCEPT ![k] = "top"]
          /\ runBus' = [runBus EXCEPT ![k] = 0]
          /\ UNCHANGED doneClosed

runStep(k) ==
    /\ RunTop(k) \/ RunSelect(k)
    /\ UNCHANGED <<server, pc, cancel, hubBus, hubSubs, runCancel, runDone, cancelClosed>>

-----------------------------------------------------------------------------
(* WSHub.stop, start and reconnect.                                        *)

\* Mutant of stopRead: a channel that is still open counts as closed.
stopReadSkip(a, next) ==
    /\ pc[a] = "stop"
    /\ Goto(a, next)
    /\ UNCHANGED <<server, cancel, hub>>

\* stop: runCancel is read under the lock and found nil, closed or open.
stopRead(a, next) ==
    /\ pc[a] = "stop"
    /\ IF runCancel \in cancelClosed \cup {0} THEN Goto(a, next) /\ UNCHANGED cancel
       ELSE Goto(a, "close") /\ cancel' = [cancel EXCEPT ![a] = runCancel]
    /\ UNCHANGED <<server, hub>>

\* stop: close(cancel), without the lock.  Closing it a second time panics; the
\* recovery middleware turns that into a 500 in the middle of a reset.
stopClose(a, next) ==
    /\ pc[a] = "close"
    /\ IF cancel[a] \in cancelClosed THEN Goto(a, "failed") ELSE Goto(a, next)
    /\ cancelClosed' = cancelClosed \cup {cancel[a]}
    /\ cancel' = [cancel EXCEPT ![a] = 0]
    /\ UNCHANGED <<server, hubBus, hubSubs, runCancel, runDone, doneClosed, run, runBus>>

\* reconnect: the critical section that moves the hub to the new bus.
resubscribe(r) ==
    /\ pc[r] = "resub"
    /\ hubBus' = r + 1
    /\ hubSubs' = (hubSubs \ {hubBus}) \cup {r + 1}
    /\ Goto(r, "start")
    /\ UNCHANGED <<server, cancel, runCancel, runDone, cancelClosed, doneClosed, run, runBus>>

\* Mutant of start: it proceeds although the previous goroutine is running.
startForce(r) ==
    /\ pc[r] = "start"
    /\ runCancel' = r + 1 /\ runDone' = r + 1
    /\ run' = [run EXCEPT ![r + 1] = "top"]
    /\ Goto(r, "graph")
    /\ UNCHANGED <<server, cancel, hubBus, hubSubs, cancelClosed, doneClosed, runBus>>

\* start: it waits until runDone is nil or closed (after 2 s it only logs and
\* waits again), makes new channels and launches run.
start(r) ==
    /\ pc[r] = "start"
    /\ runDone \in doneClosed \cup {0}
    /\ runCancel' = r + 1 /\ runDone' = r + 1
    /\ run' = [run EXCEPT ![r + 1] = "top"]
    /\ Goto(r, "graph")
    /\ UNCHANGED <<server, cancel, hubBus, hubSubs, cancelClosed, doneClosed, runBus>>

-----------------------------------------------------------------------------
(* handleSimulationReset and Server.setSim.                                *)

\* The request is taken and the new simulation created and populated.
resetBegin(r) ==
    /\ pc[r] = "idle" /\ Accepting
    /\ \A q \in Reset : q < r => pc[q] # "idle"
    /\ simState' = [simState EXCEPT ![r + 1] = "live"]
    /\ overlapped' = (overlapped \/ InFlight # {})
    /\ Goto(r, "swap")
    /\ UNCHANGED <<sim, oldSim, graph, cgCancel, ready, expired, scenario, cancel, hub>>

\* setSim: the references are swapped under simMu.
swapSim(r) ==
    /\ pc[r] = "swap"
    /\ oldSim' = [oldSim EXCEPT ![r] = sim]
    /\ sim' = r + 1
    /\ Goto(r, "stop")
    /\ UNCHANGED <<simState, graph, cgCancel, ready, expired, scenario, overlapped, cancel, hub>>

\* Mutant of subscribeCausalGraph: the subscription is made on the bus of the
\* simulation that was replaced.
subscribeOldBus(r) ==
    /\ pc[r] = "graph"
    /\ Goto(r, "halt")
    /\ UNCHANGED <<server, cancel, hub>>

\* subscribeCausalGraph: cancels the previous subscriber and starts the next.
subscribeCausalGraph(r) ==
    /\ pc[r] = "graph"
    /\ graph' = [graph EXCEPT ![cgCancel] = IF @ = "running" THEN "cancelled" ELSE @,
                              ![r + 1] = "running"]
    /\ cgCancel' = r + 1
    /\ Goto(r, "halt")
    /\ UNCHANGED <<sim, simState, oldSim, ready, expired, scenario, overlapped, cancel, hub>>

\* The subscriber's goroutine sees its context cancelled, unsubscribes and ends.
graphExit(i) ==
    /\ graph[i] = "cancelled"
    /\ graph' = [graph EXCEPT ![i] = "exited"]
    /\ UNCHANGED <<sim, simState, oldSim, cgCancel, ready, expired, scenario, overlapped, pc,
                   cancel, hub>>

\* Mutant of stopOldSim: the current simulation is looked up again.
stopCurrentSim(r) ==
    /\ pc[r] = "halt"
    /\ simState' = [simState EXCEPT ![sim] = "stopped"]
    /\ Goto(r, "done")
    /\ UNCHANGED <<sim, oldSim, graph, cgCancel, ready, expired, scenario, overlapped, cancel,
                   hub>>

\* setSim: oldSim.Stop() stops the processes, the bus and the transport.
stopOldSim(r) ==
    /\ pc[r] = "halt"
    /\ simState' = [simState EXCEPT ![oldSim[r]] = "stopped"]
    /\ oldSim' = [oldSim EXCEPT ![r] = 0]
    /\ Goto(r, "done")
    /\ UNCHANGED <<sim, graph, cgCancel, ready, expired, scenario, overlapped, cancel,
                   hub>>

resetStep(r) ==
    \/ swapSim(r) \/ stopRead(r, "resub") \/ stopClose(r, "resub") \/ resubscribe(r)
    \/ start(r) \/ subscribeCausalGraph(r) \/ stopOldSim(r)

-----------------------------------------------------------------------------
(* The other goroutine that Shutdown waits for: the scenario runner.       *)

\* handleRunScenario: the runner is added to wg; it ends after its last step,
\* whatever its steps return and whichever simulation it was given.
scenarioStart ==
    /\ scenario = "idle" /\ Accepting
    /\ scenario' = "running"
    /\ UNCHANGED <<sim, simState, oldSim, graph, cgCancel, ready, expired, overlapped, pc,
                   cancel, hub>>

scenarioEnd ==
    /\ scenario = "running"
    /\ scenario' = "idle"
    /\ UNCHANGED <<sim, simState, oldSim, graph, cgCancel, ready, expired, overlapped, pc,
                   cancel, hub>>

-----------------------------------------------------------------------------
(* Server.Shutdown.                                                        *)

\* The readiness flag falls and the listener is closed.
shutdownBegin ==
    /\ pc[Shut] = "idle"
    /\ ready' = FALSE
    /\ Goto(Shut, "http")
    /\ UNCHANGED <<sim, simState, oldSim, graph, cgCancel, expired, scenario, overlapped, cancel,
                   hub>>

\* wg counts the graph subscribers and the scenario runner.
Drained == scenario = "idle" /\ \A i \in Sim : graph[i] \in {"none", "exited"}

\* http.Server.Shutdown returns when no request is in flight.
httpShutdown ==
    /\ pc[Shut] = "http"
    /\ InFlight = {}
    /\ Goto(Shut, "stop")
    /\ UNCHANGED <<server, cancel, hub>>

\* The grace period ends one of the two waits.
expire ==
    /\ \/ pc[Shut] = "http" /\ InFlight # {} /\ Goto(Shut, "stop")
       \/ pc[Shut] = "wait" /\ ~Drained /\ Goto(Shut, "done")
    /\ expired' = TRUE
    /\ overlapped' = (overlapped \/ InFlight # {})
    /\ UNCHANGED <<sim, simState, oldSim, graph, cgCancel, ready, scenario, cancel, hub>>

\* Mutant of stopSim: the simulation the server was created with is stopped.
stopFirstSim ==
    /\ pc[Shut] = "halt"
    /\ simState' = [simState EXCEPT ![1] = "stopped"]
    /\ Goto(Shut, "cancel")
    /\ UNCHANGED <<sim, oldSim, graph, cgCancel, ready, expired, scenario, overlapped, cancel, hub>>

\* The simulation that is current now is stopped.
stopSim ==
    /\ pc[Shut] = "halt"
    /\ simState' = [simState EXCEPT ![sim] = "stopped"]
    /\ Goto(Shut, "cancel")
    /\ UNCHANGED <<sim, oldSim, graph, cgCancel, ready, expired, scenario, overlapped, cancel,
                   hub>>

\* s.cgCancel(), read without simMu.
cancelGraph ==
    /\ pc[Shut] = "cancel"
    /\ graph' = [graph EXCEPT ![cgCancel] = IF @ = "running" THEN "cancelled" ELSE @]
    /\ Goto(Shut, "wait")
    /\ UNCHANGED <<sim, simState, oldSim, cgCancel, ready, expired, scenario, overlapped, cancel,
                   hub>>

\* The goroutines counted by wg are done.
shutdownEnd ==
    /\ pc[Shut] = "wait"
    /\ Drained
    /\ Goto(Shut, "done")
    /\ UNCHANGED <<server, cancel, hub>>

Shutdown ==
    \/ httpShutdown \/ stopRead(Shut, "halt") \/ stopClose(Shut, "halt")
    \/ stopSim \/ cancelGraph \/ shutdownEnd

-----------------------------------------------------------------------------
Next ==
    \/ \E r \in Reset : resetBegin(r) \/ resetStep(r)
    \/ \E k \in Run : runStep(k)
    \/ \E i \in Sim : graphExit(i)
    \/ scenarioStart \/ scenarioEnd
    \/ shutdownBegin \/ expire \/ Shutdown

Spec == Init /\ [][Next]_vars

\* Every goroutine that can take a step takes one: the scheduler's promise.
\* Requests and the grace period owe nothing.
FairSpec ==
    /\ Spec
    /\ \A r \in Reset : WF_vars(resetStep(r))
    /\ \A k \in Run : WF_vars(runStep(k))
    /\ \A i \in Sim : WF_vars(graphExit(i))
    /\ WF_vars(scenarioEnd) /\ WF_vars(Shutdown)

-----------------------------------------------------------------------------
(* Properties.                                                             *)

\* A request that calls getSim is never given a simulation that a reset has
\* stopped, however many resets overlap: each stops only the one it replaced.
CurrentSimLive ==
    simState[sim] = "live" \/ pc[Shut] \in {"cancel", "wait", "done"}

\* Repeated and overlapping resets leak no subscription: the hub is subscribed
\* to one bus, the one whose events it waits for.
OneSubscription == hubSubs = {hubBus}

\* The hub never has two fan-out goroutines: start() waits for the previous one.
\* With two, clients would receive events of two simulations interleaved.
OneFanOut == Cardinality({k \in Run : run[k] \notin {"none", "exited"}}) <= 1

\* Between resets that did not overlap, the server, the hub, the hub's goroutine
\* and the causal graph all follow the same simulation, and every other one has
\* been stopped.
QuietIsConsistent ==
    InFlight = {} /\ ~overlapped /\ Accepting =>
        /\ hubBus = sim /\ hubSubs = {sim} /\ cgCancel = sim
        /\ \A i \in Sim : simState[i] = "live" <=> i = sim
        /\ \A i \in Sim : graph[i] = "running" <=> i = sim
        /\ run[runDone] # "exited" /\ runBus[runDone] \in {0, sim}

\* A reset that overlaps no other is answered: stop and start cannot wait for
\* each other.
ResetCompletes == \A r \in Reset : pc[r] = "swap" ~> pc[r] = "done" \/ overlapped

\* Shutdown returns without the help of the grace period and cleans up, unless
\* resets overlapped: in the end no simulation is live, no graph subscriber runs, and
\* the fan-out goroutine, which wg does not count, is gone.
ShutdownCompletes ==
    pc[Shut] = "http" ~>
        \/ overlapped
        \/ /\ pc[Shut] = "done"
           /\ expired \/ /\ \A k \in Run : run[k] \in {"none", "exited"}
                         /\ \A i \in Sim : simState[i] # "live" /\ graph[i] # "running"
=============================================================================
