-------------------------- MODULE ServingTheorems --------------------------
(***************************************************************************)
(* What stands between the network and the handlers of the gateway: the    *)
(* rate limiter (module RateLimiter) and the certificate that is reloaded  *)
(* while the server runs (module TLSReload).                               *)
(***************************************************************************)
EXTENDS Integers, TLAPS

CONSTANTS Key, rate, burst, Cost, Hour, Second
VARIABLES now, buckets, tokens, last, start, admitted
VARIABLES latest, certFile, keyFile, cert, lastLoaded, pc, read, raced

limiter == INSTANCE RateLimiter
tls == INSTANCE TLSReload

-----------------------------------------------------------------------------
(* The rate limiter.                                                       *)

\* The inductive invariant: what a client was admitted in the window and what
\* its bucket still holds are covered by the burst and the refill up to the last
\* request; a client whose bucket was evicted was idle long enough for the
\* refill alone to cover it, so that the full bucket it gets next is covered too.
Covered(k) ==
    IF k \in buckets
    THEN /\ tokens[k] >= 0 /\ tokens[k] <= burst
         /\ last[k] <= now
         /\ IF last[k] < start THEN admitted[k] = 0
            ELSE Cost * admitted[k] + tokens[k] <= burst + rate * last[k] - rate * start
    ELSE Cost * admitted[k] <= rate * now - rate * start

LimiterInv ==
    /\ now \in Nat /\ start \in Nat /\ start <= now
    /\ tokens \in [Key -> Int] /\ last \in [Key -> Int] /\ admitted \in [Key -> Nat]
    /\ \A k \in Key : Covered(k)

\* Of the refill: multiplication distributes over subtraction.
LEMMA Distribute == \A a, b, c \in Int : a * (b - c) = a * b - a * c
OBVIOUS

\* Of the refill: a longer wait gives no fewer tokens.
LEMMA Monotone == \A a, b, c \in Int : a >= 0 /\ b <= c => a * b <= a * c
OBVIOUS

\* One more admitted request takes Cost more.
LEMMA Increment == \A a, b \in Int : a * (b + 1) = a * b + a
OBVIOUS

\* After the refill the bucket is within its bounds and covered up to now.
LEMMA Refilled ==
    ASSUME limiter!Configured, LimiterInv, NEW k \in Key
    PROVE  /\ limiter!refilled(k) \in Int
           /\ limiter!refilled(k) >= 0 /\ limiter!refilled(k) <= burst
           /\ Cost * admitted[k] + limiter!refilled(k) <= burst + rate * now - rate * start
<1> DEFINE gain == rate * (now - last[k])
<1>1. /\ rate \in Nat /\ burst \in Nat /\ Cost \in Nat /\ now \in Nat /\ start \in Nat
      /\ start <= now /\ tokens[k] \in Int /\ last[k] \in Int /\ admitted[k] \in Nat
      /\ Covered(k)
  BY DEF limiter!Configured, LimiterInv
<1>2. gain \in Int /\ gain = rate * now - rate * last[k]
  BY <1>1, Distribute
<1>3. rate * start <= rate * now /\ Cost * 0 = 0
  BY <1>1, Monotone
<1>4. CASE k \notin buckets
  BY <1>1, <1>4 DEF limiter!refilled, Covered
<1>5. CASE k \in buckets
  <2>1. gain >= 0
    BY <1>1, <1>2, <1>5, Monotone DEF Covered
  <2>2. limiter!refilled(k) = IF tokens[k] + gain > burst THEN burst ELSE tokens[k] + gain
    BY <1>5 DEF limiter!refilled
  <2>3. limiter!refilled(k) \in Int /\ limiter!refilled(k) >= 0
        /\ limiter!refilled(k) <= burst /\ limiter!refilled(k) <= tokens[k] + gain
    <3> HIDE DEF gain
    <3> QED BY <1>1, <1>2, <1>5, <2>1, <2>2 DEF Covered
  <2>4. Cost * admitted[k] + limiter!refilled(k) <= burst + rate * now - rate * start
    <3>1. CASE last[k] < start
      <4>1. admitted[k] = 0
        BY <1>1, <1>5, <3>1 DEF Covered
      <4>2. Cost * admitted[k] = 0
        BY <1>3, <4>1
      <4>3. rate * start \in Int /\ rate * now \in Int
        BY <1>1
      <4>4. 0 <= rate * now - rate * start
        BY <1>3, <4>3
      <4>5. limiter!refilled(k) \in Int /\ limiter!refilled(k) <= burst /\ burst \in Int
        BY <1>1, <2>3
      <4> QED
        BY <4>2, <4>3, <4>4, <4>5
    <3>2. CASE ~(last[k] < start)
      <4>1. Cost * admitted[k] + tokens[k] <= burst + rate * last[k] - rate * start
        BY <1>1, <1>5, <3>2 DEF Covered
      <4> HIDE DEF gain
      <4> QED
        BY <1>1, <1>2, <2>3, <4>1
    <3> QED
      BY <3>1, <3>2
  <2> QED
    BY <2>3, <2>4
<1> QED
  BY <1>4, <1>5

\* A request keeps the invariant, admitted or not.
LEMMA AllowInv ==
    ASSUME limiter!Configured, LimiterInv, NEW key \in Key, limiter!allow(key)
    PROVE  LimiterInv'
<1> DEFINE t == limiter!refilled(key)
<1>1. /\ t \in Int /\ t >= 0 /\ t <= burst
      /\ Cost * admitted[key] + t <= burst + rate * now - rate * start
  BY Refilled
<1>2. /\ rate \in Nat /\ burst \in Nat /\ Cost \in Nat /\ now \in Nat /\ start \in Nat
      /\ start <= now /\ admitted[key] \in Nat
  BY DEF limiter!Configured, LimiterInv
<1>3. Cost * (admitted[key] + 1) = Cost * admitted[key] + Cost
  BY <1>2, Increment
<1>4. /\ now' = now /\ start' = start /\ buckets' = buckets \cup {key}
      /\ last' = [last EXCEPT ![key] = now]
      /\ \/ /\ tokens' = [tokens EXCEPT ![key] = t] /\ admitted' = admitted
         \/ /\ tokens' = [tokens EXCEPT ![key] = t - Cost] /\ t >= Cost
            /\ admitted' = [admitted EXCEPT ![key] = @ + 1]
  BY <1>1, <1>2 DEF limiter!allow
<1> HIDE DEF t
<1>5. tokens' \in [Key -> Int] /\ last' \in [Key -> Int] /\ admitted' \in [Key -> Nat]
  BY <1>1, <1>2, <1>4 DEF LimiterInv
<1>6. Covered(key)'
  <2>1. key \in buckets' /\ last'[key] = now /\ ~(now < start)
    BY <1>2, <1>4 DEF LimiterInv
  <2>2. tokens'[key] >= 0 /\ tokens'[key] <= burst
    BY <1>1, <1>2, <1>4 DEF LimiterInv
  <2>3. Cost * admitted'[key] + tokens'[key] <= burst + rate * now - rate * start
    BY <1>1, <1>2, <1>3, <1>4 DEF LimiterInv
  <2> QED
    BY <1>2, <1>4, <2>1, <2>2, <2>3 DEF Covered
<1>7. ASSUME NEW k \in Key, k # key PROVE Covered(k)'
  <2>1. Covered(k)
    BY DEF LimiterInv
  <2>2. /\ (k \in buckets') = (k \in buckets) /\ tokens'[k] = tokens[k]
        /\ last'[k] = last[k] /\ admitted'[k] = admitted[k]
    BY <1>4, <1>7 DEF LimiterInv
  <2> QED
    BY <1>4, <2>1, <2>2 DEF Covered
<1> QED
  BY <1>2, <1>4, <1>5, <1>6, <1>7 DEF LimiterInv

\* Eviction keeps the invariant: an hour refills a bucket.
LEMMA GcInv ==
    ASSUME limiter!Configured, LimiterInv, limiter!gc
    PROVE  LimiterInv'
<1> SUFFICES ASSUME NEW k \in Key PROVE Covered(k)'
  BY DEF LimiterInv, limiter!gc
<1>1. /\ rate \in Nat /\ burst \in Nat /\ Cost \in Nat /\ Hour \in Nat /\ now \in Nat
      /\ start \in Nat /\ start <= now /\ tokens[k] \in Int /\ last[k] \in Int
      /\ admitted[k] \in Nat /\ rate * Hour >= burst /\ Covered(k)
  BY DEF limiter!Configured, LimiterInv
<1>2. CASE k \in buckets /\ last[k] < now - Hour
  <2>1. rate * Hour <= rate * (now - last[k])
    BY <1>1, <1>2, Monotone
  <2>2. burst <= rate * now - rate * last[k]
    BY <1>1, <2>1, Distribute
  <2>3. rate * start <= rate * now /\ Cost * 0 = 0
    BY <1>1, Monotone
  <2>4. Cost * admitted[k] <= rate * now - rate * start
    BY <1>1, <1>2, <2>2, <2>3 DEF Covered
  <2> QED
    <3>1. k \notin buckets'
      BY <1>1, <1>2 DEF limiter!gc
    <3> QED
      BY <2>4, <3>1 DEF Covered, limiter!gc
<1>3. CASE ~(k \in buckets /\ last[k] < now - Hour)
  BY <1>1, <1>3 DEF Covered, limiter!gc
<1> QED
  BY <1>2, <1>3


\* The limiter starts in a covered state, with no bucket.
LEMMA LimiterInit == limiter!Configured /\ limiter!Init => LimiterInv
<1> SUFFICES ASSUME limiter!Configured, limiter!Init PROVE LimiterInv
  OBVIOUS
<1>1. now \in Nat /\ start = now /\ rate \in Nat /\ Cost \in Nat
  BY DEF limiter!Configured, limiter!Init
<1>2. Cost * 0 = 0 /\ rate * now \in Int
  BY <1>1
<1> QED
  BY <1>1, <1>2 DEF limiter!Init, LimiterInv, Covered

\* The clock and an observer keep the invariant.
LEMMA TickInv ==
    ASSUME limiter!Configured, LimiterInv, limiter!tick \/ limiter!observe
    PROVE  LimiterInv'
<1>1. /\ rate \in Nat /\ Cost \in Nat /\ now \in Nat /\ start \in Nat /\ start <= now
      /\ burst \in Nat
  BY DEF limiter!Configured, LimiterInv
<1>2. CASE limiter!tick
  <2>1. rate * (now + 1) = rate * now + rate
    BY <1>1, Increment
  <2>2. ASSUME NEW k \in Key PROVE Covered(k)'
    <3>1. /\ Covered(k) /\ tokens[k] \in Int /\ last[k] \in Int /\ admitted[k] \in Nat
          /\ Cost * admitted[k] \in Int /\ rate * now \in Int /\ rate * start \in Int
      BY <1>1 DEF LimiterInv
    <3>2. CASE k \in buckets
      BY <1>1, <1>2, <3>1, <3>2 DEF limiter!tick, Covered
    <3>3. CASE k \notin buckets
      <4>1. Cost * admitted[k] <= rate * now - rate * start
        BY <3>1, <3>3 DEF Covered
      <4>2. Cost * admitted[k] <= (rate * now + rate) - rate * start
        BY <1>1, <3>1, <4>1
      <4> QED
        BY <1>2, <2>1, <3>3, <4>2 DEF limiter!tick, Covered
    <3> QED
      BY <3>2, <3>3
  <2> QED
    BY <1>1, <1>2, <2>2 DEF limiter!tick, LimiterInv
<1>3. CASE limiter!observe
  <2>1. Cost * 0 = 0 /\ rate * now \in Int /\ rate * now - rate * now = 0
    BY <1>1
  <2>2. ASSUME NEW k \in Key PROVE Covered(k)'
    <3>1. /\ Covered(k) /\ tokens[k] \in Int /\ last[k] \in Int
          /\ now' = now /\ start' = now /\ admitted'[k] = 0 /\ buckets' = buckets
          /\ tokens' = tokens /\ last' = last
      BY <1>3 DEF LimiterInv, limiter!observe
    <3>2. CASE k \in buckets
      <4>1. tokens[k] >= 0 /\ tokens[k] <= burst /\ last[k] <= now
        BY <3>1, <3>2 DEF Covered
      <4>2. CASE last[k] < now
        BY <3>1, <3>2, <4>1, <4>2 DEF Covered
      <4>3. CASE ~(last[k] < now)
        <5>1. last[k] = now
          BY <1>1, <3>1, <4>1, <4>3
        <5>2. Cost * 0 + tokens[k] <= burst + rate * now - rate * now
          BY <1>1, <2>1, <3>1, <4>1
        <5> QED
          BY <3>1, <3>2, <4>1, <4>3, <5>1, <5>2 DEF Covered
      <4> QED
        BY <4>2, <4>3
    <3>3. CASE k \notin buckets
      BY <2>1, <3>1, <3>3 DEF Covered
    <3> QED
      BY <3>2, <3>3
  <2> QED
    BY <1>1, <1>3, <2>2 DEF limiter!observe, LimiterInv
<1> QED
  BY <1>2, <1>3

\* The invariant holds throughout.
LEMMA LimiterInvariance == limiter!Configured => (limiter!Spec => []LimiterInv)
<1> SUFFICES ASSUME limiter!Configured PROVE limiter!Spec => []LimiterInv
  OBVIOUS
<1>1. limiter!Init => LimiterInv
  BY LimiterInit
<1>2. LimiterInv /\ [limiter!Next]_(limiter!vars) => LimiterInv'
  <2> SUFFICES ASSUME LimiterInv, [limiter!Next]_(limiter!vars) PROVE LimiterInv'
    OBVIOUS
  <2>1. CASE \E key \in Key : limiter!allow(key)
    BY <2>1, AllowInv
  <2>2. CASE limiter!gc
    BY <2>2, GcInv
  <2>3. CASE limiter!tick \/ limiter!observe
    BY <2>3, TickInv
  <2>4. CASE UNCHANGED limiter!vars
    BY <2>4 DEF LimiterInv, Covered, limiter!vars
  <2> QED
    BY <2>1, <2>2, <2>3, <2>4 DEF limiter!Next
<1> QED
  BY <1>1, <1>2, PTL DEF limiter!Spec

\* Of RateLimiter's RateBound, for every rate and burst an hour can refill: in no
\* window is a client admitted more than the burst and the refill of the window,
\* however gcLoop's evictions fall.
THEOREM RateLimited == limiter!Configured => (limiter!Spec => []limiter!RateBound)
<1> SUFFICES ASSUME limiter!Configured PROVE limiter!Spec => []limiter!RateBound
  OBVIOUS
<1>1. LimiterInv => limiter!RateBound
  <2> SUFFICES ASSUME LimiterInv, NEW k \in Key
               PROVE  Cost * admitted[k] <= burst + rate * (now - start)
    BY DEF limiter!RateBound
  <2>1. /\ rate \in Nat /\ burst \in Nat /\ Cost \in Nat /\ now \in Nat /\ start \in Nat
        /\ admitted[k] \in Nat
    BY DEF limiter!Configured, LimiterInv
  <2>2. /\ limiter!refilled(k) \in Int /\ limiter!refilled(k) >= 0
        /\ Cost * admitted[k] + limiter!refilled(k) <= burst + rate * now - rate * start
    BY Refilled
  <2>3. rate * (now - start) = rate * now - rate * start
    BY <2>1, Distribute
  <2>4. Cost * admitted[k] \in Int /\ rate * now \in Int /\ rate * start \in Int
    BY <2>1
  <2> QED
    BY <2>1, <2>2, <2>3, <2>4
<1> QED
  BY <1>1, LimiterInvariance, PTL

\* Of RateLimiter's RetryAdmitted: where the rate is a request a second at least,
\* the constant "Retry-After: 1" of the middleware's 429 is honest.
THEOREM RetryHonoured ==
    limiter!Configured /\ rate * Second >= Cost
        => (limiter!Spec => [][limiter!RetryAdmitted]_(limiter!vars))
<1> SUFFICES ASSUME limiter!Configured, rate * Second >= Cost
             PROVE  limiter!Spec => [][limiter!RetryAdmitted]_(limiter!vars)
  OBVIOUS
<1>1. LimiterInv => limiter!RetryAdmitted
  <2> SUFFICES ASSUME LimiterInv, NEW k \in Key, limiter!allow(k),
                      k \in buckets => now >= last[k] + Second
               PROVE  admitted'[k] = admitted[k] + 1
    BY DEF limiter!RetryAdmitted
  <2>1. /\ rate \in Nat /\ burst \in Nat /\ Cost \in Nat /\ Second \in Nat /\ now \in Nat
        /\ tokens[k] \in Int /\ last[k] \in Int /\ burst >= Cost /\ Covered(k)
    BY DEF limiter!Configured, LimiterInv
  <2>2. CASE k \notin buckets
    BY <2>1, <2>2 DEF limiter!allow, limiter!refilled, LimiterInv
  <2>3. CASE k \in buckets
    <3> DEFINE gain == rate * (now - last[k])
    <3>1. gain \in Int /\ rate * Second <= gain /\ rate * Second \in Int
      BY <2>1, <2>3, Monotone
    <3>2. limiter!refilled(k) = IF tokens[k] + gain > burst THEN burst ELSE tokens[k] + gain
      BY <2>3 DEF limiter!refilled
    <3> HIDE DEF gain
    <3>3. ~(limiter!refilled(k) < Cost)
      <4>1. tokens[k] >= 0
        BY <2>3, <2>1 DEF Covered
      <4> QED
        BY <2>1, <3>1, <3>2, <4>1
    <3> QED
      BY <3>3 DEF limiter!allow, LimiterInv
  <2> QED
    BY <2>2, <2>3
<1> QED
  BY <1>1, LimiterInvariance, PTL


-----------------------------------------------------------------------------
(* The certificate.                                                        *)

\* The inductive invariant: what a reload in progress has read is a pair once it
\* is complete, and not older than what is served.
ReloadInv ==
    /\ latest \in Nat /\ certFile \in Nat /\ keyFile \in Nat /\ lastLoaded \in Nat
    /\ cert \in Nat \X Nat /\ read \in Nat \X Nat
    /\ cert[1] = cert[2] /\ cert[1] <= certFile /\ certFile <= latest
    /\ pc \in {"key", "stat"} => cert[1] <= read[1] /\ read[1] <= certFile
    /\ pc = "stat" => read[1] = read[2]
    /\ tls!StaleOnlyByRace

\* A step of Reload or of the operator keeps it, and never goes back.
LEMMA ReloadStep ==
    ASSUME ReloadInv, [tls!Next]_(tls!vars)
    PROVE  ReloadInv' /\ cert'[1] >= cert[1]
<1>1. CASE tls!rotate
  BY <1>1 DEF ReloadInv, tls!StaleOnlyByRace, tls!rotate
<1>2. CASE tls!readCert
  <2>1. /\ read' = <<certFile, read[2]>> /\ pc' = "key"
        /\ UNCHANGED <<latest, certFile, keyFile, cert, lastLoaded, raced>>
    BY <1>2 DEF ReloadInv, tls!readCert
  <2> QED
    BY <2>1 DEF ReloadInv, tls!StaleOnlyByRace
<1>3. CASE tls!readKey
  <2>1. CASE keyFile = read[1] /\ pc' = "stat" /\ read' = [read EXCEPT ![2] = keyFile]
    <3>1. read' = <<read[1], read[1]>> /\ pc = "key" /\ pc' = "stat"
          /\ UNCHANGED <<latest, certFile, keyFile, cert, lastLoaded, raced>>
      BY <1>3, <2>1 DEF ReloadInv, tls!readKey
    <3> QED
      BY <3>1 DEF ReloadInv, tls!StaleOnlyByRace
  <2>2. CASE pc' = "idle" /\ UNCHANGED read
    BY <1>3, <2>2 DEF ReloadInv, tls!StaleOnlyByRace, tls!readKey
  <2> QED
    BY <1>3, <2>1, <2>2 DEF tls!readKey
<1>4. CASE tls!statAndStore
  <2>1. CASE UNCHANGED <<cert, lastLoaded, raced>>
    BY <1>4, <2>1 DEF ReloadInv, tls!StaleOnlyByRace, tls!statAndStore
  <2>2. CASE cert' = read /\ lastLoaded' = certFile /\ raced' = (raced \/ certFile # read[1])
    <3>1. /\ pc = "stat" /\ pc' = "idle" /\ UNCHANGED <<latest, certFile, keyFile, read>>
      BY <1>4 DEF tls!statAndStore
    <3>2. tls!StaleOnlyByRace'
      BY <2>2, Zenon DEF tls!StaleOnlyByRace
    <3> QED
      BY <2>2, <3>1, <3>2 DEF ReloadInv
  <2> QED
    BY <1>4, <2>1, <2>2 DEF tls!statAndStore
<1>5. CASE UNCHANGED tls!vars
  BY <1>5 DEF ReloadInv, tls!StaleOnlyByRace, tls!vars
<1> QED
  BY <1>1, <1>2, <1>3, <1>4, <1>5 DEF tls!Next

\* The invariant holds throughout.
LEMMA ReloadInvariance == tls!Spec => []ReloadInv
<1>1. tls!Init => ReloadInv
  BY DEF tls!Init, ReloadInv, tls!StaleOnlyByRace
<1>2. ReloadInv /\ [tls!Next]_(tls!vars) => ReloadInv'
  BY ReloadStep
<1> QED
  BY <1>1, <1>2, PTL DEF tls!Spec

\* Of TLSReload's ServedIsPair and StaleOnlyByRace: for every order in which the
\* files are replaced while Reload runs, what GetCertificate returns is a
\* certificate with its own key, and the one whose fingerprint is remembered
\* unless the file changed between LoadX509KeyPair and certFingerprint.
THEOREM ServedCertificate == tls!Spec => [](tls!ServedIsPair /\ tls!StaleOnlyByRace)
<1>1. ReloadInv => tls!ServedIsPair /\ tls!StaleOnlyByRace
  BY DEF ReloadInv, tls!ServedIsPair
<1> QED
  BY <1>1, ReloadInvariance, PTL

\* Of TLSReload's NeverOlder: with the one reload loop the server starts, no
\* reload goes back to an older certificate.
THEOREM NoOlderCertificate == tls!Spec => [][tls!NeverOlder]_(tls!vars)
<1>1. ReloadInv /\ [tls!Next]_(tls!vars) => [tls!NeverOlder]_(tls!vars)
  BY ReloadStep DEF tls!NeverOlder
<1> QED
  BY <1>1, ReloadInvariance, PTL DEF tls!Spec

=============================================================================
