---------------------------- MODULE CausalGraph ----------------------------
(***************************************************************************)
(* internal/causality: the happened-before graph, its queries, and         *)
(* consistent cuts; and the grouping of internal/clock/vector/compare.go.  *)
(*                                                                         *)
(* An event is a record with the fields id, type and msg.  Its id          *)
(* <<p, n>> stands for the string "<p>-e<n>": p is its ProcessID and n its *)
(* LocalSeq.  A graph is the set of its events and the set of its edges;   *)
(* the nodes of an edge are ids that need not belong to a known event.     *)
(* Where the code ranges over a Go map the order is left open.             *)
(***************************************************************************)
EXTENDS Integers, Sequences, FiniteSets, SequencesExt

CONSTANT Pid    \* process identifiers: numbers, ordered as the strings are

ASSUME PidAssumption == Pid \subseteq Nat

vector == INSTANCE VectorClock

maxBFSDepth == 10000

Pids(E) == {e.id[1] : e \in E}

NewCausalGraph == [events |-> {}, edges |-> {}]

AddEvent(g, e) == [g EXCEPT !.events = {f \in @ : f.id # e.id} \cup {e}]

AddEdge(g, from, to) == [g EXCEPT !.edges = @ \cup {<<from, to>>}]

Successors(g, id) == {edge[2] : edge \in {d \in g.edges : d[1] = id}}
Predecessors(g, id) == {edge[1] : edge \in {d \in g.edges : d[2] = id}}

-----------------------------------------------------------------------------
(* Queries.                                                                *)

\* The breadth-first search of HappenedBefore: one node of the queue at a time,
\* given up when maxBFSDepth nodes have been visited.
RECURSIVE Search(_, _, _, _)
Search(g, bID, visited, queue) ==
    /\ queue # <<>>
    /\ LET cur == Head(queue)
           seen == visited \cup {cur}
       IN  \/ cur = bID
           \/ cur \in visited /\ Search(g, bID, visited, Tail(queue))
           \/ /\ cur \notin visited /\ Cardinality(seen) < maxBFSDepth
              /\ Search(g, bID, seen, Tail(queue) \o SetToSeq(Successors(g, cur) \ seen))

\* Mutant of HappenedBefore: paths of one edge only.
HappenedBeforeDirect(g, aID, bID) == bID \in Successors(g, aID)

HappenedBefore(g, aID, bID) == aID # bID /\ Search(g, bID, {}, <<aID>>)

Concurrent(g, aID, bID) == ~HappenedBefore(g, aID, bID) /\ ~HappenedBefore(g, bID, aID)

RECURSIVE Ancestors(_, _, _)
Ancestors(g, visited, queue) ==
    IF queue = {} THEN visited
    ELSE LET seen == visited \cup queue
         IN  Ancestors(g, seen, UNION {Predecessors(g, id) : id \in queue} \ seen)

CausalHistory(g, id) ==
    {e \in g.events : e.id \in Ancestors(g, {}, Predecessors(g, id))}

\* Kahn's algorithm: the in-degrees of the known events, those of in-degree 0
\* that wait, and every order in which they can be output.
RECURSIVE Kahn(_, _, _)
Kahn(g, inDegree, queue) ==
    IF queue = {} THEN {<<>>}
    ELSE UNION {
        LET down == [id \in DOMAIN inDegree |->
                        IF id \in Successors(g, cur) THEN inDegree[id] - 1 ELSE inDegree[id]]
            freed == {id \in Successors(g, cur) \cap DOMAIN inDegree : down[id] = 0}
        IN  {<<cur>> \o s : s \in Kahn(g, down, (queue \ {cur}) \cup freed)} : cur \in queue}

TopologicalSort(g) ==
    LET known == {e.id : e \in g.events}
        inDegree == [id \in known |-> Cardinality(Predecessors(g, id) \cap known)]
    IN  Kahn(g, inDegree, {id \in known : inDegree[id] = 0})

-----------------------------------------------------------------------------
(* Cuts.  A frontier gives every process the last LocalSeq included, -1    *)
(* when there is none.                                                     *)

FindMessages(E) ==
    {<<s, r>> \in E \X E : /\ s.type = "send" /\ r.type = "receive"
                           /\ s.msg = r.msg}

\* Mutant of IsConsistent: a message must be received if it was sent.
IsConsistentReversed(frontier, messages) ==
    \A m \in messages :
        m[1].id[2] <= frontier[m[1].id[1]] => m[2].id[2] <= frontier[m[2].id[1]]

\* The events of the pair are found, and their processes have a frontier,
\* because messages and frontier are made from the same events.
IsConsistent(frontier, messages) ==
    \A m \in messages :
        m[2].id[2] <= frontier[m[2].id[1]] => m[1].id[2] <= frontier[m[1].id[1]]

Frontiers(E) ==
    {f \in [Pids(E) -> {-1} \cup {e.id[2] : e \in E}] :
        \A p \in Pids(E) : f[p] # -1 => \E e \in E : e.id = <<p, f[p]>>}

FindConsistentCuts(E) == {f \in Frontiers(E) : IsConsistent(f, FindMessages(E))}

CutBefore(vc, E) ==
    [p \in Pids(E) |->
        Max({-1} \cup {e.id[2] : e \in {f \in E : f.id[1] = p /\ f.id[2] <= vc[p]}})]

-----------------------------------------------------------------------------
(* ConcurrentSet of vector/compare.go, on events with a field vc.          *)

Sum(vc) == FoldFunction(LAMBDA x, y : x + y, 0, vc)

\* sortEvents: by the sum of the components, then by id.
Before(e, f) ==
    \/ Sum(e.vc) < Sum(f.vc)
    \/ Sum(e.vc) = Sum(f.vc) /\ (e.id[1] < f.id[1] \/ (e.id[1] = f.id[1] /\ e.id[2] < f.id[2]))

Fits(group, e) == \A f \in group : vector!Compare(e.vc, f.vc) = "Concurrent"

\* The event joins the first group whose members are all concurrent with it.
Place(groups, e) ==
    LET fitting == {i \in DOMAIN groups : Fits(groups[i], e)}
    IN  IF fitting = {} THEN Append(groups, {e})
        ELSE [groups EXCEPT ![Min(fitting)] = @ \cup {e}]

ConcurrentSet(E) == FoldLeft(Place, <<>>, SetToSortSeq(E, Before))
=============================================================================
