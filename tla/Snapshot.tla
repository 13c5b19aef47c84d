------------------------------ MODULE Snapshot ------------------------------
(***************************************************************************)
(* Chandy-Lamport snapshots: the SnapshotCoordinator of internal/snapshot, *)
(* the marker handling of Process.handleMessage, the transport's           *)
(* forwarders that record messages for it, and SpawnProcess and            *)
(* KillProcess, which change its membership.                               *)
(*                                                                         *)
(* A process is abstracted to the number of its events and the messages it *)
(* has received, which is what its recorded state is judged by; delivery   *)
(* is immediate and the transport injects no fault.                        *)
(*                                                                         *)
(* Locks.  p.mu (Process) is held by the run goroutine from the capture at *)
(* a marker to the end of checkFinalized.  ps.mu (processSnapshot) is held *)
(* while markers are sent out.  c.mu and gs.mu are held within one step.   *)
(* s.mu (Simulation) is held by SpawnProcess throughout.                   *)
(***************************************************************************)
EXTENDS Naturals, Sequences, FiniteSets

CONSTANTS
    Pid,         \* the process identifiers
    Spawned,     \* those spawned before the start
    MaySpawn,    \* those SpawnProcess may be called with
    MayKill,     \* those KillProcess may be called with
    Snap,        \* snapshot ids: one per call of TriggerSnapshot
    MayInitiate, \* the processes TriggerSnapshot is called with
    Links,       \* the pairs <<from, to>> SendMessage is called with
    NoSnap,      \* Message.SnapshotID of an application message
    MaxSends,    \* bound: messages sent in all
    ChanCap,     \* ChannelBufferSize
    InboundCap   \* capacity of Process.inbound

ASSUME ConstantsAssumption ==
    /\ Spawned \subseteq Pid /\ MaySpawn \subseteq Pid /\ MayKill \subseteq Pid
    /\ MayInitiate \subseteq Pid /\ Links \subseteq Pid \X Pid
    /\ NoSnap \notin Snap

VARIABLES
    ticks, got,     \* a process: its events, the ids of messages received
    sending,        \* messages stamped by p.Send and not yet handed over
    chan,           \* SimTransport.channels
    fwd,            \* what each forwarder has in hand: at most one record
    inbound,        \* Process.inbound
    run,            \* each run goroutine inside OnMarker: at most one record
    call,           \* each InitiateSnapshot call
    perSnap, peers, \* processSnapshot.perSnap and .peers
    snapshots,      \* SnapshotCoordinator.snapshots
    alive, registered, started, stopped,   \* Simulation.processes, procStates, ...
    channels,       \* the pairs RegisterChannel was called with
    updating,       \* RegisterProcess and DeregisterProcess calls under way
    sent            \* history: every message ever stamped

process == <<ticks, got, sending, sent>>
queues  == <<chan, fwd, inbound>>
member  == <<peers, alive, registered, started, stopped, channels, updating>>
vars == <<process, queues, run, call, perSnap, snapshots, member>>

Message == [id : Nat, from : Pid, to : Pid, SnapshotID : Snap \cup {NoSnap}]
IsMarker(m) == m.SnapshotID # NoSnap
Marker(p, q, s) == [id |-> 0, from |-> p, to |-> q, SnapshotID |-> s]

LocalState(p) == [ticks |-> ticks[p], got |-> got[p]]

\* A nil state reads as a zero clock.
NilState == [ticks |-> 0, got |-> {}]

\* procSnapState; recordedChans is a channel's status and its messages.
NotParticipating ==
    [role |-> "NotParticipating", localState |-> NilState,
     status |-> [q \in Pid |-> "nil"], msgs |-> [q \in Pid |-> {}]]

-----------------------------------------------------------------------------
(* Locks. *)

\* Mutant of HoldsPs: InitiateSnapshot locks ps.mu before it captures the state.
HoldsPsEarly(c, p) ==
    /\ c.pc \in {"capture", "send"}
    /\ c.pid = p
    /\ c.pc = "send" => c.rest # {}

HoldsPs(c, p) == c.pc = "send" /\ c.pid = p /\ c.rest # {}

PsFree(p) ==
    /\ \A s \in Snap : ~HoldsPs(call[s], p)
    /\ \A h \in run[p] : ~(h.pc = "send" /\ h.rest # {})

PFree(p) == run[p] = {}

SimFree == \A u \in updating : u.op # "add"

-----------------------------------------------------------------------------
(* Application messages. *)

Init ==
    /\ ticks = [p \in Pid |-> 0]
    /\ got = [p \in Pid |-> {}]
    /\ sending = {} /\ sent = {}
    /\ chan = [p \in Pid |-> [q \in Pid |-> <<>>]]
    /\ fwd = [p \in Pid |-> [q \in Pid |-> {}]]
    /\ inbound = [p \in Pid |-> <<>>]
    /\ run = [p \in Pid |-> {}]
    /\ call = [s \in Snap |-> [pc |-> "idle"]]
    /\ perSnap = [p \in Pid |-> [s \in Snap |-> NotParticipating]]
    /\ snapshots = [s \in Snap |-> [LocalStates |-> {}, Complete |-> FALSE]]
    /\ peers = [p \in Pid |-> IF p \in Spawned THEN Spawned \ {p} ELSE {}]
    /\ alive = Spawned /\ registered = Spawned /\ started = Spawned
    /\ channels = {l \in Spawned \X Spawned : l[1] # l[2]}
    /\ stopped = {} /\ updating = {}

\* Mutant of Send: p.mu is not taken.
SendUnlocked(p, q) ==
    /\ <<p, q>> \in Links
    /\ p \in alive /\ SimFree
    /\ Cardinality(sent) < MaxSends
    /\ LET m == [id |-> ticks[p] + 1, from |-> p, to |-> q, SnapshotID |-> NoSnap]
       IN  sending' = sending \cup {m} /\ sent' = sent \cup {m}
    /\ ticks' = [ticks EXCEPT ![p] = @ + 1]
    /\ UNCHANGED <<got, queues, run, call, perSnap, snapshots, member>>

\* SendMessage and the locked part of Process.Send.
Send(p, q) ==
    /\ <<p, q>> \in Links
    /\ p \in alive /\ SimFree /\ PFree(p)
    /\ Cardinality(sent) < MaxSends
    /\ LET m == [id |-> ticks[p] + 1, from |-> p, to |-> q, SnapshotID |-> NoSnap]
       IN  sending' = sending \cup {m} /\ sent' = sent \cup {m}
    /\ ticks' = [ticks EXCEPT ![p] = @ + 1]
    /\ UNCHANGED <<got, queues, run, call, perSnap, snapshots, member>>

\* xport.Send appends to the channel, if there is one and it is not full.
Put(m) == chan' = IF /\ <<m.from, m.to>> \in channels
                     /\ Len(chan[m.from][m.to]) < ChanCap
                  THEN [chan EXCEPT ![m.from][m.to] = Append(@, m)]
                  ELSE chan

\* Process.Send hands the message to the transport after unlocking p.mu.
HandOver(m) ==
    /\ Put(m)
    /\ sending' = sending \ {m}
    /\ UNCHANGED <<ticks, got, sent, fwd, inbound, run, call, perSnap, snapshots,
                   member>>

\* GetActiveSnapshotIDs.
Active(p) == {s \in Snap : /\ p \in registered
                           /\ perSnap[p][s].role \in {"Initiator", "Participant"}}

\* The forwarder takes a message and, for an application message, asks which
\* snapshots are active at the receiver.
Forward(p, q) ==
    /\ fwd[p][q] = {} /\ chan[p][q] # <<>>
    /\ LET m == Head(chan[p][q]) IN
       /\ IsMarker(m) \/ PsFree(q)
       /\ fwd' = [fwd EXCEPT ![p][q] =
                    {[msg |-> m, ids |-> IF IsMarker(m) THEN {} ELSE Active(q)]}]
    /\ chan' = [chan EXCEPT ![p][q] = Tail(@)]
    /\ UNCHANGED <<process, inbound, run, call, perSnap, snapshots, member>>

RecordMessage(p, q) ==
    /\ PsFree(q)
    /\ \E h \in fwd[p][q] : \E s \in h.ids :
          /\ fwd' = [fwd EXCEPT ![p][q] = {[h EXCEPT !.ids = @ \ {s}]}]
          /\ perSnap' = IF q \in registered /\ perSnap[q][s].status[p] = "open"
                        THEN [perSnap EXCEPT ![q][s].msgs[p] = @ \cup {h.msg}]
                        ELSE perSnap
    /\ UNCHANGED <<process, chan, inbound, run, call, snapshots, member>>

\* Process.Deliver; on a stopped process the message may be discarded.
Deliver(p, q) ==
    /\ \E h \in fwd[p][q] :
          /\ h.ids = {}
          /\ \/ /\ Len(inbound[q]) < InboundCap
                /\ inbound' = [inbound EXCEPT ![q] = Append(@, h.msg)]
             \/ q \in stopped /\ UNCHANGED inbound
    /\ fwd' = [fwd EXCEPT ![p][q] = {}]
    /\ UNCHANGED <<process, chan, run, call, perSnap, snapshots, member>>

Receive(p) ==
    /\ p \in started /\ PFree(p)
    /\ inbound[p] # <<>> /\ ~IsMarker(Head(inbound[p]))
    /\ ticks' = [ticks EXCEPT ![p] = @ + 1]
    /\ got' = [got EXCEPT ![p] = @ \cup {<<Head(inbound[p]).from, Head(inbound[p]).id>>}]
    /\ inbound' = [inbound EXCEPT ![p] = Tail(@)]
    /\ UNCHANGED <<sending, sent, chan, fwd, run, call, perSnap, snapshots, member>>

-----------------------------------------------------------------------------
(* InitiateSnapshot, in the goroutine of the API call. *)

TriggerSnapshot(s, p) ==
    /\ call[s].pc = "idle"
    /\ p \in MayInitiate \cap alive /\ SimFree
    /\ call' = [call EXCEPT ![s] = [pc |-> "lookup", pid |-> p]]
    /\ UNCHANGED <<process, queues, run, perSnap, snapshots, member>>

\* getProcessState: the process may have been deregistered meanwhile.
Lookup(s) ==
    /\ call[s].pc = "lookup"
    /\ call' = [call EXCEPT ![s].pc = IF call[s].pid \in registered
                                      THEN "capture" ELSE "failed"]
    /\ UNCHANGED <<process, queues, run, perSnap, snapshots, member>>

\* onCaptureState, before ps.mu is taken: nil if the process was killed.
Capture(s) ==
    /\ call[s].pc = "capture"
    /\ SimFree
    /\ LET p == call[s].pid IN
       /\ p \in alive => PFree(p)
       /\ call' = [call EXCEPT ![s] =
                      [pc |-> "lock", pid |-> p,
                       localState |-> IF p \in alive THEN LocalState(p) ELSE NilState]]
    /\ UNCHANGED <<process, queues, run, perSnap, snapshots, member>>

InitiatorState(s, p) ==
    [role |-> "Initiator", localState |-> call[s].localState,
     status |-> [q \in Pid |-> IF q \in peers[p] THEN "open" ELSE "nil"],
     msgs |-> [q \in Pid |-> {}]]

InitiateSnapshot(s) ==
    /\ call[s].pc = "lock"
    /\ LET p == call[s].pid IN
       /\ PsFree(p)
       /\ perSnap' = [perSnap EXCEPT ![p][s] = InitiatorState(s, p)]
       /\ call' = [call EXCEPT ![s] = [pc |-> "send", pid |-> p, rest |-> peers[p]]]
    /\ UNCHANGED <<process, queues, run, snapshots, member>>

\* onSendMarker, for one peer, ps.mu held; the last one unlocks.
SendMarker(s) ==
    /\ call[s].pc = "send"
    /\ \E q \in call[s].rest :
          /\ Put(Marker(call[s].pid, q, s))
          /\ call' = [call EXCEPT ![s].rest = @ \ {q}]
    /\ UNCHANGED <<process, fwd, inbound, run, perSnap, snapshots, member>>

-----------------------------------------------------------------------------
(* A marker arrives: handleMessage, OnMarkerReceived, checkFinalized. *)

\* Mutant of HandleMarker: markers are handled concurrently.
HandleMarkerUnlocked(p) ==
    /\ p \in started
    /\ inbound[p] # <<>> /\ IsMarker(Head(inbound[p]))
    /\ run' = [run EXCEPT ![p] = @ \cup {[pc |-> "marker", msg |-> Head(inbound[p]),
                                          localState |-> LocalState(p)]}]
    /\ inbound' = [inbound EXCEPT ![p] = Tail(@)]
    /\ UNCHANGED <<process, chan, fwd, call, perSnap, snapshots, member>>

\* handleMessage locks p.mu and captures the state; OnMarkerReceived returns if
\* the process was deregistered.
HandleMarker(p) ==
    /\ p \in started /\ PFree(p)
    /\ inbound[p] # <<>> /\ IsMarker(Head(inbound[p]))
    /\ run' = IF p \in registered
              THEN [run EXCEPT ![p] = {[pc |-> "marker", msg |-> Head(inbound[p]),
                                        localState |-> LocalState(p)]}]
              ELSE run
    /\ inbound' = [inbound EXCEPT ![p] = Tail(@)]
    /\ UNCHANGED <<process, chan, fwd, call, perSnap, snapshots, member>>

\* Mutant of AllDone: the first finalized channel is enough.
AllDoneAny(p, ss) == \E q \in peers[p] : ss.status[q] = "final"

AllDone(p, ss) == \A q \in peers[p] : ss.status[q] = "final"

\* First marker: the captured state is the local state, the channel it came on
\* is empty and final, every other one is being recorded.
FirstMarker(p, from, localState) ==
    [role |-> "Participant", localState |-> localState,
     status |-> [q \in Pid |-> IF q = from THEN "final"
                               ELSE IF q \in peers[p] THEN "open" ELSE "nil"],
     msgs |-> [q \in Pid |-> {}]]

\* Another marker finalizes its channel, and the last one the local snapshot.
NextMarker(p, from, ss) ==
    LET fs == [ss EXCEPT !.status[from] = "final"]
    IN  IF AllDone(p, fs) THEN [fs EXCEPT !.role = "Done"] ELSE fs

OnMarkerReceived(p) ==
    \E h \in run[p] :
        LET s  == h.msg.SnapshotID
            ss == perSnap[p][s]
            Then(new, rest) ==
                /\ perSnap' = [perSnap EXCEPT ![p][s] = new]
                /\ run' = [run EXCEPT ![p] = {[pc |-> "send", id |-> s, rest |-> rest]}]
        IN  /\ h.pc = "marker"
            /\ PsFree(p)
            /\ CASE ss.role = "NotParticipating" ->
                        Then(FirstMarker(p, h.msg.from, h.localState), peers[p])
                 [] ss.role \in {"Initiator", "Participant"} ->
                        Then(NextMarker(p, h.msg.from, ss), {})
                 [] ss.role = "Done" -> run' = [run EXCEPT ![p] = {}] /\ UNCHANGED perSnap
            /\ UNCHANGED <<process, queues, call, snapshots, member>>

ForwardMarker(p) ==
    \E h \in run[p] :
        /\ h.pc = "send"
        /\ \E q \in h.rest :
              /\ Put(Marker(p, q, h.id))
              /\ run' = [run EXCEPT ![p] = {[h EXCEPT !.rest = @ \ {q}]}]
        /\ UNCHANGED <<process, fwd, inbound, call, perSnap, snapshots, member>>

\* Mutant of LocalSnapshot: the state at the end is reported, not the one at the
\* first marker.
LocalSnapshotLate(p, ss) == [ProcessID |-> p, LocalState |-> LocalState(p),
                             status |-> ss.status, msgs |-> ss.msgs]

LocalSnapshot(p, ss) == [ProcessID |-> p, LocalState |-> ss.localState,
                         status |-> ss.status, msgs |-> ss.msgs]

\* checkFinalized: a process that was deregistered meanwhile has nothing to
\* report ...
StillRegistered(p) ==
    \E h \in run[p] :
        /\ h.pc = "send" /\ h.rest = {}
        /\ run' = [run EXCEPT ![p] = IF p \in registered
                                      THEN {[pc |-> "finalize", id |-> h.id]} ELSE {}]
        /\ UNCHANGED <<process, queues, call, perSnap, snapshots, member>>

\* Mutant of CheckFinalized: every marker files a local snapshot.
CheckFinalizedAlways(p) ==
    \E h \in run[p] :
        /\ h.pc = "finalize"
        /\ PsFree(p)
        /\ run' = [run EXCEPT ![p] = {[pc |-> "report", id |-> h.id,
                                       ls |-> LocalSnapshot(p, perSnap[p][h.id])]}]
        /\ UNCHANGED <<process, queues, call, perSnap, snapshots, member>>

\* ... under ps.mu: is the local snapshot done?
CheckFinalized(p) ==
    \E h \in run[p] :
        /\ h.pc = "finalize"
        /\ PsFree(p)
        /\ LET ss == perSnap[p][h.id] IN
           IF ss.role = "Done" \/ AllDone(p, ss)
           THEN /\ perSnap' = [perSnap EXCEPT ![p][h.id].role = "Done"]
                /\ run' = [run EXCEPT ![p] = {[pc |-> "report", id |-> h.id,
                                               ls |-> LocalSnapshot(p, ss)]}]
           ELSE run' = [run EXCEPT ![p] = {}] /\ UNCHANGED perSnap
        /\ UNCHANGED <<process, queues, call, snapshots, member>>

\* ... under c.mu: file it, and note who is registered.
Report(p) ==
    \E h \in run[p] :
        /\ h.pc = "report"
        /\ snapshots' = [snapshots EXCEPT ![h.id].LocalStates =
                           {l \in @ : l.ProcessID # p} \cup {h.ls}]
        /\ run' = [run EXCEPT ![p] = {[pc |-> "complete", id |-> h.id,
                                       allPIDs |-> registered]}]
        /\ UNCHANGED <<process, queues, call, perSnap, member>>

IsComplete(gs, pids) == \A p \in pids : \E l \in gs.LocalStates : l.ProcessID = p

\* ... and, with no lock but p.mu, complete the snapshot.
Complete(p) ==
    \E h \in run[p] :
        /\ h.pc = "complete"
        /\ snapshots' = IF IsComplete(snapshots[h.id], h.allPIDs)
                        THEN [snapshots EXCEPT ![h.id].Complete = TRUE]
                        ELSE snapshots
        /\ run' = [run EXCEPT ![p] = {}]
        /\ UNCHANGED <<process, queues, call, perSnap, member>>

-----------------------------------------------------------------------------
(* Membership. *)

\* KillProcess, under s.mu.
KillProcess(p) ==
    /\ p \in MayKill \cap alive /\ SimFree
    /\ alive' = alive \ {p}
    /\ updating' = updating \cup {[op |-> "kill", pid |-> p, left |-> {}]}
    /\ UNCHANGED <<process, queues, run, call, perSnap, snapshots, peers, registered,
                   started, stopped, channels>>

\* DeregisterProcess, under c.mu.
DeregisterProcess(u) ==
    /\ u.op = "kill"
    /\ registered' = registered \ {u.pid}
    /\ updating' = (updating \ {u})
                     \cup {[op |-> "remove", pid |-> u.pid, left |-> registered']}
    /\ UNCHANGED <<process, queues, run, call, perSnap, snapshots, peers, alive,
                   started, stopped, channels>>

\* SpawnProcess up to the part of RegisterProcess under c.mu.  The id of a killed
\* process is not used again.
SpawnProcess(p) ==
    /\ p \in MaySpawn \ (alive \cup started) /\ SimFree
    /\ alive' = alive \cup {p} /\ registered' = registered \cup {p}
    /\ peers' = [peers EXCEPT ![p] = alive]
    /\ channels' = channels \cup (alive \X {p}) \cup ({p} \X alive)
    /\ updating' = updating \cup {[op |-> "add", pid |-> p, left |-> registered]}
    /\ UNCHANGED <<process, queues, run, call, perSnap, snapshots, started, stopped>>

\* Both then update the peers of everybody else, one ps.mu at a time ...
UpdatePeers(u) ==
    /\ \E q \in u.left :
          /\ PsFree(q)
          /\ peers' = [peers EXCEPT ![q] = IF u.op = "add" THEN @ \cup {u.pid}
                                                           ELSE @ \ {u.pid}]
          /\ updating' = (updating \ {u}) \cup {[u EXCEPT !.left = @ \ {q}]}
    /\ UNCHANGED <<process, queues, run, call, perSnap, snapshots, alive, registered,
                   started, stopped, channels>>

\* ... and end with p.Stop or p.Start.
StopOrStart(u) ==
    /\ u.op # "kill" /\ u.left = {}
    /\ updating' = updating \ {u}
    /\ IF u.op = "add" THEN started' = started \cup {u.pid} /\ UNCHANGED stopped
                       ELSE stopped' = stopped \cup {u.pid} /\ UNCHANGED started
    /\ UNCHANGED <<process, queues, run, call, perSnap, snapshots, peers, alive,
                   registered, channels>>

-----------------------------------------------------------------------------
ForwarderStep(p, q) == Forward(p, q) \/ RecordMessage(p, q) \/ Deliver(p, q)

RunStep(p) ==
    \/ Receive(p) \/ HandleMarker(p) \/ OnMarkerReceived(p) \/ ForwardMarker(p)
    \/ StillRegistered(p) \/ CheckFinalized(p) \/ Report(p) \/ Complete(p)

CallStep(s) == Lookup(s) \/ Capture(s) \/ InitiateSnapshot(s) \/ SendMarker(s)

Next ==
    \/ \E p, q \in Pid : Send(p, q)
    \/ \E m \in sending : HandOver(m)
    \/ \E p, q \in Pid : ForwarderStep(p, q)
    \/ \E p \in Pid : RunStep(p)
    \/ \E s \in Snap, p \in Pid : TriggerSnapshot(s, p)
    \/ \E s \in Snap : CallStep(s)
    \/ \E p \in Pid : KillProcess(p) \/ SpawnProcess(p)
    \/ \E u \in updating : DeregisterProcess(u) \/ UpdatePeers(u) \/ StopOrStart(u)

Spec == Init /\ [][Next]_vars

\* Goroutines that can run do run; the run goroutine of a stopped process may
\* stop handling its queue, but not inside a handler.
FairSpec ==
    /\ Spec
    /\ \A p, q \in Pid : WF_vars(ForwarderStep(p, q))
    /\ \A p \in Pid : WF_vars((p \notin stopped \/ ~PFree(p)) /\ RunStep(p))
    /\ \A s \in Snap : WF_vars(CallStep(s))
    /\ WF_vars(\E m \in sending : HandOver(m))
    /\ WF_vars(\E u \in updating :
                   DeregisterProcess(u) \/ UpdatePeers(u) \/ StopOrStart(u))

-----------------------------------------------------------------------------
(* Properties. *)

State == [ticks : Nat, got : SUBSET (Pid \X Nat)]
Status == [Pid -> {"nil", "open", "final"}]
Record == [ProcessID : Pid, LocalState : State, status : Status,
           msgs : [Pid -> SUBSET Message]]

\* The type of the coordinator's and the queues' state.
TypeOK ==
    /\ ticks \in [Pid -> Nat] /\ got \in [Pid -> SUBSET (Pid \X Nat)]
    /\ sending \subseteq sent /\ sent \subseteq Message
    /\ chan \in [Pid -> [Pid -> Seq(Message)]] /\ inbound \in [Pid -> Seq(Message)]
    /\ fwd \in [Pid -> [Pid -> SUBSET [msg : Message, ids : SUBSET Snap]]]
    /\ \A p \in Pid : Cardinality(run[p]) <= 1
    /\ perSnap \in [Pid -> [Snap -> [
          role : {"NotParticipating", "Initiator", "Participant", "Done"},
          localState : State, status : Status, msgs : [Pid -> SUBSET Message]]]]
    /\ snapshots \in [Snap -> [LocalStates : SUBSET Record, Complete : BOOLEAN]]
    /\ peers \in [Pid -> SUBSET Pid]
    /\ alive \subseteq registered /\ registered \subseteq Pid

\* A local snapshot that was filed is never changed or withdrawn, and a
\* complete snapshot stays complete: later messages, markers and snapshots
\* cannot reach the copy checkFinalized made.
ReportsAreFinal ==
    [][\A s \in Snap :
          /\ snapshots[s].LocalStates \subseteq snapshots'[s].LocalStates
          /\ snapshots[s].Complete => snapshots'[s].Complete]_vars

\* Whoever reports having received a message of process p, p reports having
\* sent it.
SendIsRecorded(s, p) ==
    \A l, k \in snapshots[s].LocalStates : l.ProcessID = p =>
        \A e \in k.LocalState.got : e[1] = p => e[2] <= l.LocalState.ticks

\* The cut of a participant is consistent: its state is captured, and its
\* markers leave, in one critical section of p.mu, so a message stamped later
\* is received after the receiver's own cut.
ParticipantCutConsistent ==
    \A s \in Snap : \A p \in Pid :
        call[s].pc \in {"lock", "send"} /\ call[s].pid # p => SendIsRecorded(s, p)

\* A message recorded in a channel is one the receiver had not received at its
\* cut (Verify's "recv(m) is post-cut at Pj", which Verify does not check).
RecordedIsPostCut ==
    \A s \in Snap : \A l \in snapshots[s].LocalStates : \A q \in Pid :
        \A m \in l.msgs[q] : <<q, m.id>> \notin l.LocalState.got

Under(q, s) == {m \in {inbound[q][i] : i \in 1..Len(inbound[q])} : m.SnapshotID = s}

\* When a snapshot is complete, every process that was there from the start and
\* still is has reported, and no marker of the snapshot between two of them is
\* still to be handled: checkFinalized is never early, whatever KillProcess and
\* SpawnProcess do to the peer lists meanwhile.
CompleteIsSound ==
    \A s \in Snap : snapshots[s].Complete =>
        \A p, q \in alive \cap Spawned :
            /\ \E l \in snapshots[s].LocalStates : l.ProcessID = p
            /\ \A m \in {chan[p][q][i] : i \in 1..Len(chan[p][q])} \cup Under(q, s)
                          \cup {h.msg : h \in fwd[p][q]} :
                   m.from = p => m.SnapshotID # s

\* A snapshot that was initiated is completed.
SnapshotCompletes ==
    \A s \in Snap : call[s].pc = "send" ~> snapshots[s].Complete

-----------------------------------------------------------------------------
(* What the documentation says of a complete snapshot. *)

\* "no message's receive is recorded without its send also being recorded"
ConsistentCut ==
    \A s \in Snap : snapshots[s].Complete => \A p \in Pid : SendIsRecorded(s, p)
=============================================================================
