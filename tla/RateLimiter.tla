---------------------------- MODULE RateLimiter ----------------------------
(***************************************************************************)
(* The token buckets of gateway/ratelimit.go.  Token counts are float64 in *)
(* the code; here they are whole multiples of a unit of which a request    *)
(* costs Cost, and time is a number of ticks of the monotonic clock, in    *)
(* each of which a bucket gains rate units.                                *)
(***************************************************************************)
EXTENDS Integers

CONSTANTS
    Key,            \* client addresses
    rate, burst,    \* units per tick, units a bucket holds
    Cost,           \* units one request takes: one token
    Hour,           \* ticks after which gcLoop evicts an idle bucket
    Second          \* ticks of the Retry-After header

VARIABLES
    now,                \* time.Now()
    buckets,            \* the keys with a bucket
    tokens, last,       \* [Key -> Int], the fields of the buckets
    start, admitted     \* history: a time, and the requests admitted since then

vars == <<now, buckets, tokens, last, start, admitted>>

\* What the command line gives: a bucket holds a request at least, and an hour
\* is enough to fill it.
Configured ==
    /\ rate \in Nat /\ burst \in Nat /\ Cost \in Nat /\ Hour \in Nat /\ Second \in Nat
    /\ Cost > 0 /\ burst >= Cost /\ rate * Hour >= burst

Init ==
    /\ now \in Nat /\ buckets = {} /\ tokens = [k \in Key |-> 0] /\ last = [k \in Key |-> 0]
    /\ start = now /\ admitted = [k \in Key |-> 0]

\* The tokens of key after the lazy refill; a new bucket is full.
refilled(key) ==
    LET t == tokens[key] + rate * (now - last[key])
    IN  IF key \notin buckets \/ t > burst THEN burst ELSE t

allow(key) ==
    /\ buckets' = buckets \cup {key}
    /\ last' = [last EXCEPT ![key] = now]
    /\ IF refilled(key) < Cost
       THEN /\ tokens' = [tokens EXCEPT ![key] = refilled(key)]
            /\ UNCHANGED admitted
       ELSE /\ tokens' = [tokens EXCEPT ![key] = refilled(key) - Cost]
            /\ admitted' = [admitted EXCEPT ![key] = @ + 1]
    /\ UNCHANGED <<now, start>>

\* gcLoop: buckets that were not used for an hour are deleted.
gc ==
    /\ buckets' = {k \in buckets : last[k] >= now - Hour}
    /\ UNCHANGED <<now, tokens, last, start, admitted>>

tick ==
    /\ now' = now + 1
    /\ UNCHANGED <<buckets, tokens, last, start, admitted>>

\* An observer starts to count.
observe ==
    /\ start' = now /\ admitted' = [k \in Key |-> 0]
    /\ UNCHANGED <<now, buckets, tokens, last>>

Next == (\E key \in Key : allow(key)) \/ gc \/ tick \/ observe

Spec == Init /\ [][Next]_vars

-----------------------------------------------------------------------------

\* In any window, whatever the evictions in it, a client is admitted at most the
\* burst and what the rate gives it meanwhile.
RateBound == \A k \in Key : Cost * admitted[k] <= burst + rate * (now - start)

\* A client that waits for the Retry-After time, with no other request from its
\* address, is admitted.
RetryAdmitted ==
    \A k \in Key :
        allow(k) /\ (k \in buckets => now >= last[k] + Second) => admitted'[k] = admitted[k] + 1
=============================================================================
