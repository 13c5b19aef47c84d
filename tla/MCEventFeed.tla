---------------------------- MODULE MCEventFeed ----------------------------
(***************************************************************************)
(* Instance of EventFeed for TLC.  A subscriber never delays the bus, so   *)
(* what happens to one does not depend on another: the graph is explored   *)
(* with a computation, the client with a stream of narrations, and both    *)
(* together with a small load.                                             *)
(***************************************************************************)
EXTENDS EventFeed

SmallLoads ==
    {[subs |-> {"graph"}, events |-> 4, narrations |-> 0, stop |-> FALSE],
     [subs |-> {"hub"}, events |-> 0, narrations |-> 4, stop |-> TRUE],
     [subs |-> {"graph", "hub"}, events |-> 1, narrations |-> 1, stop |-> FALSE]}
=============================================================================
