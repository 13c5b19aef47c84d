----------------------------- MODULE EventFeed -----------------------------
(***************************************************************************)
(* The way of an event: emitted by a process (internal/process), through   *)
(* the bus with its history (internal/events/bus.go), to the causal graph  *)
(* (gateway/server.go, internal/simulation) and, over the WebSocket hub,   *)
(* to a browser that connects at any time, is slow, or goes away           *)
(* (gateway/websocket.go).                                                 *)
(*                                                                         *)
(* Every goroutine takes its own steps: the callers of the processes, the  *)
(* bus loop, the graph subscriber, the hub, and of the client the handler, *)
(* the history replay and the write pump.  A critical section of p.mu is   *)
(* split where it uses the bus, which other processes use meanwhile.       *)
(* Processes deliver immediately and use vector clocks; hold-back delivery *)
(* is the subject of module Process.  Which bus the hub listens to is the  *)
(* subject of module Gateway; here there is one.                           *)
(***************************************************************************)
EXTENDS CausalGraph

CONSTANTS
    Loads,              \* bounds: see load
    PublishBuffer,      \* capacity of EventBus.publish (4096)
    SubBuffer,          \* capacity of a subscriber's channel (256)
    historySize,        \* 1000
    WSClientSendBuffer, \* capacity of client.send (256)
    Null

ASSUME FeedAssumption ==
    /\ Loads \subseteq [subs : SUBSET {"graph", "hub"}, events : Nat, narrations : Nat,
                       stop : BOOLEAN]
    /\ {PublishBuffer, SubBuffer, historySize, WSClientSendBuffer} \subseteq Nat \ {0}
    /\ Null \notin Pid /\ 0 \notin Pid

Scenario == 0           \* the goroutine that narrates
Source == Pid \cup {Scenario}

VARIABLES
    clock, localSeq,    \* [Pid -> vectorClock], [Pid -> localSeq]
    pending,            \* [Source -> the event numbered but not yet published]
    network,            \* the messages on their way
    globalSeq, publish, dropCount, history, histIdx, histLen,
    inHand,             \* the event the bus loop has stored but not fanned out
    done,               \* the bus is stopped
    graphCh, graph,     \* the graph's subscription, the graph
    hubCh, hubHand, hubState, \* the hub's, the event taken from it, its goroutine
    conn, registered,   \* the connection; cl is in h.clients
    send, closed,       \* cl.send and whether it is closed
    replay, replayQ,    \* the replay goroutine and what it has left to send
    pump,               \* the write pump
    emitted, stored,    \* history: all events; those the bus has stored, in order
    received, lossy,    \* history: events written to the browser; something was lost
    load    \* who is subscribed to the bus, the bounds on the number of events of
            \* processes and of narrated scenario steps, whether the bus may be stopped

computation == <<clock, localSeq, pending, network, emitted, globalSeq, load>>
ring == <<history, histIdx, histLen>>
bus == <<publish, dropCount, ring, inHand, done, stored>>
hub == <<hubCh, hubHand, hubState>>
client == <<conn, registered, send, closed, replay, replayQ, pump, received, lossy>>
feed == <<graphCh, graph, hub, client>>
vars == <<computation, bus, feed>>

Init ==
    /\ clock = [p \in Pid |-> vector!New] /\ localSeq = [p \in Pid |-> 0]
    /\ pending = [s \in Source |-> Null] /\ network = {} /\ emitted = {}
    /\ globalSeq = 0 /\ publish = <<>> /\ dropCount = 0
    /\ history = [i \in 0..(historySize - 1) |-> Null] /\ histIdx = 0 /\ histLen = 0
    /\ inHand = Null /\ done = FALSE /\ stored = <<>>
    /\ graphCh = <<>> /\ graph = NewCausalGraph
    /\ hubCh = <<>> /\ hubHand = Null /\ hubState = "running"
    /\ conn = "none" /\ registered = FALSE /\ send = <<>> /\ closed = FALSE
    /\ replay = "none" /\ replayQ = <<>> /\ pump = "none"
    /\ received = {} /\ lossy = FALSE
    /\ load \in Loads

-----------------------------------------------------------------------------
(* Processes and the scenario runner.                                      *)

\* emitEventLocked up to bus.NextSeq: the event carries the clock, its local
\* number and the next global one.  p.mu stays locked until it is published.
emit(p, type, msg, vc) ==
    LET e == [id |-> <<p, localSeq[p] + 1>>, type |-> type, msg |-> msg, vc |-> vc,
              globalSeq |-> globalSeq + 1]
    IN  /\ pending[p] = Null
        /\ Cardinality({f \in emitted : f.id[1] # Scenario}) < load.events
        /\ clock' = [clock EXCEPT ![p] = vc]
        /\ localSeq' = [localSeq EXCEPT ![p] = @ + 1]
        /\ globalSeq' = globalSeq + 1
        /\ pending' = [pending EXCEPT ![p] = e]
        /\ emitted' = emitted \cup {e}
        /\ UNCHANGED load

InternalEvent(p) ==
    /\ emit(p, "internal_event", Null, vector!Tick(clock[p], p))
    /\ UNCHANGED <<network, bus, feed>>

\* The message p sends next; its id is "<p>-m<k>".
nextMsg(p, to) ==
    [id |-> <<p, Cardinality({e \in emitted : e.id[1] = p /\ e.type = "send"}) + 1>>,
     to |-> to, SentVC |-> vector!Tick(clock[p], p)]

\* Mutant of Send: the message is handed to the transport before the event of
\* its sending is published.
SendFirst(p, to) ==
    /\ p # to
    /\ emit(p, "send", nextMsg(p, to), nextMsg(p, to).SentVC)
    /\ network' = network \cup {nextMsg(p, to)}
    /\ UNCHANGED <<bus, feed>>

\* Process.Send: the transport gets the message after the event is published.
Send(p, to) ==
    /\ p # to
    /\ emit(p, "send", nextMsg(p, to), nextMsg(p, to).SentVC)
    /\ UNCHANGED <<network, bus, feed>>

deliverImmediate(m) ==
    /\ emit(m.to, "receive", m, vector!Receive(clock[m.to], m.SentVC, m.to))
    /\ network' = network \ {m}
    /\ UNCHANGED <<bus, feed>>

\* The scenario runner numbers the narration of a step.
Narrate ==
    LET e == [id |-> <<Scenario, globalSeq + 1>>, type |-> "scenario_step", msg |-> Null,
              vc |-> Null, globalSeq |-> globalSeq + 1]
    IN  /\ pending[Scenario] = Null
        /\ Cardinality({f \in emitted : f.id[1] = Scenario}) < load.narrations
        /\ globalSeq' = globalSeq + 1
        /\ pending' = [pending EXCEPT ![Scenario] = e]
        /\ emitted' = emitted \cup {e}
        /\ UNCHANGED <<clock, localSeq, network, load, bus, feed>>

-----------------------------------------------------------------------------
(* EventBus.                                                               *)

\* What follows the publication of s's event: p.mu is unlocked, and a message
\* goes to the transport, which delivers it at some later time.
unlock(s) ==
    /\ pending' = [pending EXCEPT ![s] = Null]
    /\ network' = network \cup
           (IF pending[s].type = "send" THEN {pending[s].msg} ELSE {})
    /\ UNCHANGED <<clock, localSeq, emitted, globalSeq, load>>

\* Publish: dropped and counted when the buffer is full.
Publish(s) ==
    /\ pending[s] # Null
    /\ IF Len(publish) < PublishBuffer
       THEN publish' = Append(publish, pending[s]) /\ UNCHANGED dropCount
       ELSE dropCount' = dropCount + 1 /\ UNCHANGED publish
    /\ unlock(s)
    /\ UNCHANGED <<ring, inHand, done, stored, feed>>

Stop ==
    /\ load.stop /\ ~done /\ done' = TRUE
    /\ UNCHANGED <<publish, dropCount, ring, inHand, stored, computation, feed>>

\* Mutant of History: always from the first slot.
HistoryUnrotated == [i \in 1..histLen |-> history[i - 1]]

\* History: the entries from the oldest on.
History ==
    [i \in 1..histLen |->
        history[IF histLen < historySize THEN i - 1 ELSE (histIdx + i - 1) % historySize]]

\* Mutant of store: the length outgrows the ring.
storeOverlong ==
    /\ inHand = Null /\ publish # <<>>
    /\ inHand' = Head(publish) /\ publish' = Tail(publish)
    /\ history' = [history EXCEPT ![histIdx] = Head(publish)]
    /\ histIdx' = (histIdx + 1) % historySize
    /\ histLen' = IF histLen <= historySize THEN histLen + 1 ELSE histLen
    /\ stored' = Append(stored, Head(publish))
    /\ UNCHANGED <<dropCount, done, computation, feed>>

\* The loop takes an event; store is the first half of a turn.  Once the bus is
\* done, each select may still choose a waiting event instead.
store ==
    /\ inHand = Null /\ publish # <<>>
    /\ inHand' = Head(publish) /\ publish' = Tail(publish)
    /\ history' = [history EXCEPT ![histIdx] = Head(publish)]
    /\ histIdx' = (histIdx + 1) % historySize
    /\ histLen' = IF histLen < historySize THEN histLen + 1 ELSE histLen
    /\ stored' = Append(stored, Head(publish))
    /\ UNCHANGED <<dropCount, done, computation, feed>>

\* A subscriber with a full channel silently misses the event.
offer(ch, e) == IF Len(ch) < SubBuffer THEN Append(ch, e) ELSE ch

\* fanout: the graph subscribes to three types, the hub to all.
fanout ==
    /\ inHand # Null /\ inHand' = Null
    /\ graphCh' = IF /\ "graph" \in load.subs
                     /\ inHand.type \in {"send", "receive", "internal_event"}
                  THEN offer(graphCh, inHand) ELSE graphCh
    /\ hubCh' = IF "hub" \in load.subs THEN offer(hubCh, inHand) ELSE hubCh
    /\ lossy' = (lossy \/ Len(hubCh) = SubBuffer)
    /\ UNCHANGED <<publish, dropCount, ring, done, stored, computation, graph, hubHand, hubState,
                   conn, registered, send, closed, replay, replayQ, pump, received>>

-----------------------------------------------------------------------------
(* The subscriber of the causal graph.                                     *)

\* The graph's copy of an event, and for the receipt of m an edge from the node
\* "<m>-send".
record ==
    /\ graphCh # <<>>
    /\ LET e == Head(graphCh)
           g == AddEvent(graph, [id |-> e.id, type |-> e.type, msg |-> e.msg])
       IN  graph' = IF e.type = "receive" THEN AddEdge(g, <<e.msg.id, "send">>, e.id) ELSE g
    /\ graphCh' = Tail(graphCh)
    /\ UNCHANGED <<computation, bus, hub, client>>
-----------------------------------------------------------------------------
(* WSHub.run and the goroutines of handleWS.                               *)

hubTake ==
    /\ hubState = "running" /\ hubHand = Null /\ hubCh # <<>>
    /\ hubHand' = Head(hubCh) /\ hubCh' = Tail(hubCh)
    /\ UNCHANGED <<computation, bus, graphCh, graph, hubState, client>>

\* Mutant of hubFanOut: a client gets no live events while the history is
\* replayed to it.
hubFanOutLate ==
    /\ hubHand # Null /\ hubHand' = Null
    /\ hubState' = IF registered /\ closed THEN "panicked" ELSE hubState
    /\ IF registered /\ replay = "exited" /\ ~closed /\ Len(send) < WSClientSendBuffer
       THEN send' = Append(send, hubHand) /\ UNCHANGED lossy
       ELSE lossy' = (lossy \/ (registered /\ replay = "exited")) /\ UNCHANGED send
    /\ UNCHANGED <<computation, bus, graphCh, graph, hubCh, conn, registered, closed, replay,
                   replayQ, pump, received>>

\* The fan-out, under h.mu: a client with a full buffer misses the event.  A
\* send on a closed channel would panic and end the goroutine.
hubFanOut ==
    /\ hubHand # Null /\ hubHand' = Null
    /\ hubState' = IF registered /\ closed THEN "panicked" ELSE hubState
    /\ IF registered /\ ~closed /\ Len(send) < WSClientSendBuffer
       THEN send' = Append(send, hubHand) /\ UNCHANGED lossy
       ELSE lossy' = (lossy \/ registered) /\ UNCHANGED send
    /\ UNCHANGED <<computation, bus, graphCh, graph, hubCh, conn, registered, closed, replay,
                   replayQ, pump, received>>

\* The upgrade: there is a connection, of which the hub does not know yet.
upgrade ==
    /\ "hub" \in load.subs
    /\ conn = "none" /\ conn' = "up"
    /\ UNCHANGED <<computation, bus, graphCh, graph, hub, registered, send, closed, replay,
                   replayQ, pump, received, lossy>>

\* The client is put into h.clients; then its goroutines are started.
register ==
    /\ conn # "none" /\ pump = "none"
    /\ registered' = TRUE /\ replay' = "start" /\ pump' = "running"
    /\ UNCHANGED <<computation, bus, graphCh, graph, hub, conn, send, closed, replayQ, received,
                   lossy>>

\* Mutant of replayRead: nothing is replayed.
replayReadNone ==
    /\ replay = "start" /\ replay' = "sending" /\ replayQ' = <<>>
    /\ UNCHANGED <<computation, bus, graphCh, graph, hub, conn, registered, send, closed, pump,
                   received, lossy>>

\* The replay goroutine takes its copy of the history.
replayRead ==
    /\ replay = "start" /\ replay' = "sending" /\ replayQ' = History
    /\ UNCHANGED <<computation, bus, graphCh, graph, hub, conn, registered, send, closed, pump,
                   received, lossy>>

\* The replay goroutine sends the next event, or ends: all sent; the channel was
\* closed and the send panicked; it waited for 2 s.
replaySend ==
    /\ replay = "sending"
    /\ \/ /\ replayQ # <<>> /\ ~closed /\ Len(send) < WSClientSendBuffer
          /\ send' = Append(send, Head(replayQ)) /\ replayQ' = Tail(replayQ)
          /\ UNCHANGED <<replay, lossy>>
       \/ /\ replayQ = <<>> \/ closed \/ Len(send) = WSClientSendBuffer
          /\ lossy' = (lossy \/ replayQ # <<>>)
          /\ replay' = "exited" /\ replayQ' = <<>>
          /\ UNCHANGED send
    /\ UNCHANGED <<computation, bus, graphCh, graph, hub, conn, registered, closed, pump, received>>

\* The write pump.  A write can fail although the peer is there: its deadline is
\* set before h.writeMu, which other clients' writes hold, is obtained.
writePump ==
    /\ pump = "running"
    /\ \/ /\ send # <<>> /\ conn = "up"
          /\ received' = received \cup {Head(send)} /\ send' = Tail(send)
          /\ UNCHANGED <<pump, lossy>>
       \/ /\ send # <<>>
          /\ send' = Tail(send) /\ pump' = "exited" /\ lossy' = TRUE
          /\ UNCHANGED received
       \/ /\ send = <<>> /\ closed
          /\ pump' = "exited"
          /\ UNCHANGED <<send, received, lossy>>
    /\ UNCHANGED <<computation, bus, graphCh, graph, hub, conn, registered, closed, replay, replayQ>>

\* The browser closes the connection or vanishes without closing it.
leave ==
    /\ conn = "up" /\ conn' \in {"closed", "mute"}
    /\ UNCHANGED <<computation, bus, graphCh, graph, hub, registered, send, closed, replay,
                   replayQ, pump, received, lossy>>

\* closeAllClients, as Shutdown calls it.
closeAllClients ==
    /\ registered /\ conn' = "closed" /\ conn # "closed"
    /\ UNCHANGED <<computation, bus, graphCh, graph, hub, registered, send, closed, replay,
                   replayQ, pump, received, lossy>>

\* Mutant of readFails: there is no read deadline.
readFailsClosed == conn = "closed" \/ pump = "exited"

\* The read loop ends: the connection is closed, or its deadline passes because
\* no pong comes.  A failed write also ends the pings, hence the pongs.
readFails == conn = "closed" \/ conn = "mute" \/ pump = "exited"

\* cleanup: under h.mu the client is deleted and its channel closed.
cleanup ==
    /\ registered /\ readFails
    /\ conn' = "closed" /\ registered' = FALSE /\ closed' = TRUE
    /\ UNCHANGED <<computation, bus, graphCh, graph, hub, send, replay, replayQ, pump, received,
                   lossy>>

-----------------------------------------------------------------------------
Next ==
    \/ \E p \in Pid : InternalEvent(p) \/ \E to \in Pid : Send(p, to)
    \/ \E m \in network : deliverImmediate(m)
    \/ Narrate \/ \E s \in Source : Publish(s)
    \/ Stop \/ store \/ fanout \/ record
    \/ hubTake \/ hubFanOut
    \/ upgrade \/ register \/ replayRead \/ replaySend \/ writePump
    \/ leave \/ closeAllClients \/ cleanup

\* Every goroutine that can take a step takes one, but the loops of a bus that
\* is done, which may end.  Callers, browsers and Stop owe nothing; the read
\* deadline is a timer and expires.
FairSpec ==
    /\ Init /\ [][Next]_vars
    /\ \A s \in Source : WF_vars(Publish(s))
    /\ WF_vars((~done /\ store) \/ fanout)
    /\ WF_vars((~done /\ hubTake) \/ hubFanOut)
    /\ WF_vars(register \/ cleanup)
    /\ WF_vars(replayRead \/ replaySend)
    /\ WF_vars(writePump)

-----------------------------------------------------------------------------
(* Properties.                                                             *)

ProcessEvents == {e \in emitted : e.id[1] \in Pid}
HB(e, f) == vector!Compare(e.vc, f.vc) = "HappenedBefore"

\* The types, the capacities of the buffers, and the state of the client's
\* goroutines: they run only once it is registered.
TypeOK ==
    /\ clock \in [Pid -> vector!Clock] /\ localSeq \in [Pid -> Nat]
    /\ pending \in [Source -> emitted \cup {Null}] /\ {m.to : m \in network} \subseteq Pid
    /\ globalSeq = Cardinality(emitted)
    /\ Len(publish) <= PublishBuffer /\ dropCount \in Nat
    /\ histLen \in 0..historySize /\ histIdx \in 0..(historySize - 1)
    /\ {inHand, hubHand} \subseteq ToSet(stored) \cup {Null} /\ done \in BOOLEAN
    /\ Len(graphCh) <= SubBuffer /\ Len(hubCh) <= SubBuffer
    /\ hubState \in {"running", "panicked"} /\ conn \in {"none", "up", "mute", "closed"}
    /\ Len(send) <= WSClientSendBuffer
    /\ replay \in {"none", "start", "sending", "exited"} /\ pump \in {"none", "running", "exited"}
    /\ registered => replay # "none" /\ pump # "none"
    /\ received \subseteq ToSet(stored) /\ load \in Loads

\* Subscribers and the history see every cause before its effects, although
\* NextSeq and Publish of different processes interleave and an event can be
\* overtaken by one with a higher GlobalSeq: a send is published before the
\* message leaves.  GlobalSeq, too, grows along happened-before.
FeedOrderCausal ==
    /\ \A i, j \in DOMAIN stored :
          (i < j /\ stored[i].vc # Null /\ stored[j].vc # Null) => ~HB(stored[j], stored[i])
    /\ \A e, f \in ProcessEvents : HB(e, f) => e.globalSeq < f.globalSeq

\* The bus accounts for every event.  The ring is read in the right order whatever
\* its fill: History is the last events stored, oldest first.  And an event is never
\* lost before the history without being counted.
BusAccountsForEvents ==
    /\ History = SubSeq(stored, Len(stored) - Min({Len(stored), historySize}) + 1, Len(stored))
    /\ Cardinality(emitted) = Cardinality({s \in Source : pending[s] # Null}) + Len(publish)
                              + Len(stored) + dropCount

\* What the client has or will get.
Coming == received \cup ToSet(send) \cup ToSet(replayQ) \cup ToSet(hubCh) \cup {hubHand, inHand}

\* The feed is not broken by clients that come and go.  The fan-out never sends on
\* the closed channel of a client that went away.  And replay and live events, which
\* reach a client by two goroutines, leave no hole between them: without a drop or
\* a failed write it gets, from the first event it gets on, every event of the bus.
FeedUnbroken ==
    /\ hubState = "running"
    /\ registered /\ ~lossy =>
          \A i \in 1..(Len(stored) - 1) : stored[i] \in Coming => stored[i + 1] \in Coming

\* A client that closes or silently vanishes is forgotten, and its goroutines
\* end, also when they wait for room in its buffer.
ClientReaped ==
    conn \in {"closed", "mute"} ~> ~registered /\ pump = "exited" /\ replay = "exited"

\* A client that stays and is not too slow ends with everything in the history.
ClientCatchesUp ==
    <>[](registered /\ conn = "up" /\ ~lossy /\ ~done => ToSet(History) \subseteq received)

\* The events of the graph and their stamps; whether the graph has the past of
\* each (a drop may leave a hole).
Recorded == {e \in emitted : e.id \in {f.id : f \in graph.events}}
PastRecorded == \A e \in Recorded, f \in ProcessEvents : HB(f, e) => f \in Recorded

\* Everything published has been recorded or dropped: the queries below are
\* evaluated at such moments, which every graph has.
CaughtUp ==
    /\ \A s \in Source : pending[s] = Null
    /\ publish = <<>> /\ inHand = Null /\ graphCh = <<>>

\* The graph with the edges that causality_test.go gives it: from an event to the
\* next of its process and from a send to its receipt.
FullGraph ==
    [events |-> graph.events,
     edges |-> {<<e.id, f.id>> : <<e, f>> \in
                  {<<e, f>> \in graph.events \X graph.events :
                      \/ f.id = <<e.id[1], e.id[2] + 1>>
                      \/ <<e, f>> \in FindMessages(graph.events)}}]

\* ConcurrentSet puts every event into one group, with concurrent ones only.
GroupsAreConcurrent ==
    LET groups == ConcurrentSet(ProcessEvents)
    IN  /\ UNION ToSet(groups) = ProcessEvents
        /\ \A i, j \in DOMAIN groups : \A e \in groups[i], f \in groups[j] :
              IF i = j THEN e = f \/ vector!Compare(e.vc, f.vc) = "Concurrent" ELSE e # f

\* The queries agree with the vector clocks: HappenedBefore is the order of the
\* stamps, CausalHistory the smaller ones, TopologicalSort a linear extension; and
\* ConcurrentSet, which needs no graph, groups concurrent events only.
QueriesAreCausal ==
    /\ CaughtUp => GroupsAreConcurrent
    /\ CaughtUp /\ PastRecorded =>
           /\ \A e, f \in Recorded :
                 /\ HappenedBefore(FullGraph, e.id, f.id) = HB(e, f)
                 /\ Concurrent(FullGraph, e.id, f.id) = (~HB(e, f) /\ ~HB(f, e))
           /\ \A e \in Recorded :
                 {a.id : a \in CausalHistory(FullGraph, e.id)} = {f.id : f \in {f \in Recorded : HB(f, e)}}
           /\ \A order \in TopologicalSort(FullGraph) :
                 /\ ToSet(order) = {e.id : e \in Recorded} /\ Len(order) = Cardinality(Recorded)
                 /\ \A i, j \in DOMAIN order :
                       i < j => ~HappenedBefore(FullGraph, order[j], order[i])

Included(f) == {e \in Recorded : e.id[2] <= f[e.id[1]]}

\* Cuts are causal.  FindConsistentCuts, which looks at messages only, finds exactly
\* the cuts that contain the causal past of their events.  And the cut of an event's
\* stamp is consistent and contains the event and its recorded past, even when
\* events are missing.
CutsAreCausal ==
    /\ CaughtUp /\ PastRecorded =>
          FindConsistentCuts(graph.events) =
              {f \in Frontiers(graph.events) :
                  \A e \in Included(f), a \in Recorded : HB(a, e) => a \in Included(f)}
    /\ CaughtUp => \A e \in Recorded :
          LET cut == CutBefore(e.vc, graph.events)
          IN  /\ IsConsistent(cut, FindMessages(graph.events))
              /\ Included(cut) = {f \in Recorded : f = e \/ HB(f, e)}
=============================================================================
