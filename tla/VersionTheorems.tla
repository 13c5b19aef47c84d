-------------------------- MODULE VersionTheorems --------------------------
(***************************************************************************)
(* What the version vectors, the dotted version vectors and the clock      *)
(* differences promise their users, for every set of replicas.             *)
(***************************************************************************)
EXTENDS VersionVectors, TLAPS

-----------------------------------------------------------------------------
(* Differences.                                                            *)

\* The state transfer diff.go is for: a receiver that has at least what the
\* sender thinks it has (prev) gets from Apply(base, Diff(prev, current)) what a
\* merge with the whole clock would give it, so that a difference may come twice
\* or late.
THEOREM DiffDelivers ==
    ASSUME NEW prev \in Clock, NEW current \in Clock, NEW base \in Clock,
           \A k \in Pid : prev[k] <= base[k]
    PROVE  Apply(base, Diff(prev, current)) = MergePassive(base, current)
<1> DEFINE d == Diff(prev, current)
<1>1. ASSUME NEW k \in Pid
      PROVE  (IF k \in DOMAIN d /\ d[k] > base[k] THEN d[k] ELSE base[k])
                 = (IF base[k] < current[k] THEN current[k] ELSE base[k])
  <2>1. prev[k] \in Nat /\ current[k] \in Nat /\ base[k] \in Nat /\ prev[k] <= base[k]
    BY DEF Clock
  <2>2. k \in DOMAIN d <=> current[k] > prev[k]
    BY DEF Diff
  <2>3. k \in DOMAIN d => d[k] = current[k]
    BY DEF Diff
  <2> QED
    BY <2>1, <2>2, <2>3
<1> QED
  BY <1>1 DEF Apply, MergePassive

-----------------------------------------------------------------------------
(* Version vectors.                                                        *)

\* Sync's classification is the causal order of Compare, although the two are
\* separate loops over the keys; in particular it is antisymmetric.
THEOREM SyncIsCompare ==
    ASSUME NEW a \in Clock, NEW b \in Clock
    PROVE  /\ VVSync(a, b) = "Dominated" <=> Compare(a, b) = "HappenedBefore"
           /\ VVSync(a, b) = "Dominates" <=> Compare(a, b) = "HappenedAfter"
           /\ VVSync(a, b) = "Conflict" <=> Compare(a, b) = "Concurrent"
           /\ VVSync(a, b) = "Equal" <=> a = b
           /\ VVSync(a, b) = "Dominated" <=> VVSync(b, a) = "Dominates"
<1> DEFINE ab == \E k \in Pid : a[k] < b[k]
           ba == \E k \in Pid : b[k] < a[k]
<1>1. \A k \in Pid : a[k] \in Nat /\ b[k] \in Nat
  BY DEF Clock
<1>2. /\ ab <=> \E k \in Pid : b[k] > a[k]
      /\ ba <=> \E k \in Pid : a[k] > b[k]
  BY <1>1
<1>3. ~ab /\ ~ba <=> a = b
  <2>1. ASSUME ~ab, ~ba PROVE a = b
    <3>1. ASSUME NEW k \in Pid PROVE a[k] = b[k]
      <4>1. ~(a[k] < b[k]) /\ ~(b[k] < a[k])
        BY <2>1
      <4> QED
        BY <1>1, <4>1
    <3> QED
      BY <3>1 DEF Clock
  <2>2. ASSUME a = b PROVE ~ab /\ ~ba
    BY <1>1, <2>2
  <2> QED
    BY <2>1, <2>2
<1>4. /\ VVSync(a, b) = (CASE ba /\ ab -> "Conflict" [] ~ba /\ ~ab -> "Equal"
                           [] ba /\ ~ab -> "Dominates" [] OTHER -> "Dominated")
      /\ VVSync(b, a) = (CASE ab /\ ba -> "Conflict" [] ~ab /\ ~ba -> "Equal"
                           [] ab /\ ~ba -> "Dominates" [] OTHER -> "Dominated")
  BY <1>2 DEF VVSync
<1>5. Compare(a, b) = (CASE ~ab /\ ~ba -> "Identical" [] ab /\ ~ba -> "HappenedBefore"
                         [] ba /\ ~ab -> "HappenedAfter" [] OTHER -> "Concurrent")
  BY DEF Compare
<1> HIDE DEF ab, ba
<1> QED
  BY <1>3, <1>4, <1>5

\* A write is newer than what it was made from, writes of two replicas from the
\* same version conflict, and two from the same version at one replica are not
\* told apart (the weakness the package comment announces).
THEOREM UpdateDominates ==
    ASSUME NEW vv \in Clock, NEW r \in Pid, NEW s \in Pid
    PROVE  /\ VVSync(Update(vv, r), vv) = "Dominates"
           /\ r # s => VVSync(Update(vv, r), Update(vv, s)) = "Conflict"
           /\ r = s => VVSync(Update(vv, r), Update(vv, s)) = "Equal"
<1>1. \A k \in Pid : vv[k] \in Nat /\ vv[k] + 1 > vv[k] /\ ~(vv[k] > vv[k])
                     /\ ~(vv[k] > vv[k] + 1) /\ ~(vv[k] + 1 > vv[k] + 1)
  BY DEF Clock
<1>2. \A q, k \in Pid : Update(vv, q)[k] = IF k = q THEN vv[k] + 1 ELSE vv[k]
  BY DEF Update, Clock
<1>3. VVSync(Update(vv, r), vv) = "Dominates"
  <2>1. \E k \in Pid : Update(vv, r)[k] > vv[k]
    BY <1>1, <1>2
  <2>2. ~\E k \in Pid : vv[k] > Update(vv, r)[k]
    BY <1>1, <1>2
  <2> QED
    BY <2>1, <2>2 DEF VVSync
<1>4. ASSUME r # s PROVE VVSync(Update(vv, r), Update(vv, s)) = "Conflict"
  <2>1. Update(vv, r)[r] > Update(vv, s)[r] /\ Update(vv, s)[s] > Update(vv, r)[s]
    BY <1>1, <1>2, <1>4
  <2> QED
    BY <2>1 DEF VVSync
<1>5. ASSUME r = s PROVE VVSync(Update(vv, r), Update(vv, s)) = "Equal"
  <2>1. \A k \in Pid : ~(Update(vv, r)[k] > Update(vv, s)[k])
                       /\ ~(Update(vv, s)[k] > Update(vv, r)[k])
    BY <1>1, <1>2, <1>5
  <2> QED
    BY <2>1 DEF VVSync
<1> QED
  BY <1>3, <1>4, <1>5

-----------------------------------------------------------------------------
(* Dotted version vectors.                                                 *)

\* dvv.Dominates is reflexive and transitive.
LEMMA DominatesPreorder ==
    /\ \A a \in DVV : Dominates(a, a)
    /\ \A a, b, c \in DVV : Dominates(a, b) /\ Dominates(b, c) => Dominates(a, c)
<1>1. \A a \in DVV : \A k \in Pid : ToVV(a)[k] \in Nat
  BY DEF DVV, Clock, ToVV
<1>2. \A a \in DVV : Dominates(a, a)
  BY <1>1 DEF Dominates
<1>3. ASSUME NEW a \in DVV, NEW b \in DVV, NEW c \in DVV, Dominates(a, b), Dominates(b, c)
      PROVE  Dominates(a, c)
  <2> SUFFICES ASSUME NEW k \in Pid PROVE ToVV(a)[k] >= ToVV(c)[k]
    BY DEF Dominates
  <2>1. ToVV(a)[k] >= ToVV(b)[k] /\ ToVV(b)[k] >= ToVV(c)[k]
    BY <1>3 DEF Dominates
  <2>2. ToVV(a)[k] \in Nat /\ ToVV(b)[k] \in Nat /\ ToVV(c)[k] \in Nat
    BY <1>1
  <2> QED
    BY <2>1, <2>2
<1> QED
  BY <1>2, <1>3

\* UpdateDVV: a write supersedes the context it was made from, and is not
\* superseded by it when the server's counter is new to the context.
THEOREM WriteSupersedes ==
    ASSUME NEW old \in DVV, NEW server \in Pid, NEW n \in Nat
    PROVE  /\ Dominates(UpdateDVV(old, server, n), old)
           /\ n > ToVV(old)[server] => ~Dominates(old, UpdateDVV(old, server, n))
<1> DEFINE new == UpdateDVV(old, server, n)
<1>1. \A k \in Pid : ToVV(old)[k] \in Nat
  BY DEF DVV, Clock, ToVV
<1>2. /\ new.Vector = ToVV(old) /\ new.Dot.Replica = server /\ new.Dot.Counter = n
  BY DEF UpdateDVV
<1>3. ASSUME NEW k \in Pid
      PROVE  ToVV(new)[k] = IF k = server /\ ToVV(old)[k] < n THEN n ELSE ToVV(old)[k]
  <2> HIDE DEF new
  <2>1. ToVV(new)[k] = IF k = new.Dot.Replica /\ new.Vector[k] < new.Dot.Counter
                       THEN new.Dot.Counter ELSE new.Vector[k]
    BY DEF ToVV
  <2> QED
    BY <1>2, <2>1
<1> HIDE DEF new
<1>4. Dominates(new, old)
  <2>1. ASSUME NEW k \in Pid PROVE ToVV(new)[k] >= ToVV(old)[k]
    <3>1. ToVV(old)[k] \in Nat
      BY <1>1
    <3>2. ToVV(new)[k] = IF k = server /\ ToVV(old)[k] < n THEN n ELSE ToVV(old)[k]
      BY <1>3
    <3> QED
      BY <3>1, <3>2
  <2> QED
    BY <2>1 DEF Dominates
<1>5. ASSUME n > ToVV(old)[server] PROVE ~Dominates(old, new)
  <2>1. ToVV(new)[server] = n
    BY <1>1, <1>3, <1>5
  <2>2. ~(ToVV(old)[server] >= ToVV(new)[server])
    BY <1>1, <1>5, <2>1
  <2> QED
    BY <2>2 DEF Dominates
<1> QED
  BY <1>4, <1>5 DEF new

\* Entries none of which dominates another.
Siblings(set) == \A e, f \in set : Dominates(e.DVV, f.DVV) => e = f

\* dvv.Sync discards only what a kept entry has seen, and keeps siblings
\* ("only concurrent siblings plus the new entry").
THEOREM SyncKeepsSiblings ==
    ASSUME NEW set, NEW incoming, \A e \in set \cup {incoming} : e.DVV \in DVV
    PROVE  /\ \A e \in set \cup {incoming} :
                  \E f \in Sync(set, incoming) : Dominates(f.DVV, e.DVV)
           /\ Siblings(set) => Siblings(Sync(set, incoming))
<1> DEFINE survivors == {e \in set : ~Dominates(incoming.DVV, e.DVV)}
           result == Sync(set, incoming)
<1>1. result = IF \E s \in survivors : Dominates(s.DVV, incoming.DVV)
               THEN survivors ELSE survivors \cup {incoming}
  BY DEF Sync
<1>2. \E f \in result : Dominates(f.DVV, incoming.DVV)
  <2>1. Dominates(incoming.DVV, incoming.DVV)
    BY DominatesPreorder
  <2> HIDE DEF survivors, result
  <2> QED
    BY <1>1, <2>1
<1>3. ASSUME NEW e \in set PROVE \E f \in result : Dominates(f.DVV, e.DVV)
  <2>1. CASE Dominates(incoming.DVV, e.DVV)
    <3>1. PICK f \in result : Dominates(f.DVV, incoming.DVV)
      BY <1>2
    <3>2. f \in set \cup {incoming}
      BY <1>1, <3>1
    <3>3. f.DVV \in DVV /\ incoming.DVV \in DVV /\ e.DVV \in DVV
      BY <3>2
    <3>4. Dominates(f.DVV, e.DVV)
      BY <2>1, <3>1, <3>3, DominatesPreorder
    <3> QED
      BY <3>1, <3>4
  <2>2. CASE ~Dominates(incoming.DVV, e.DVV)
    <3>1. e \in survivors
      BY <2>2
    <3>2. e \in result
      <4> HIDE DEF survivors, result
      <4> QED BY <1>1, <3>1
    <3>3. Dominates(e.DVV, e.DVV)
      BY DominatesPreorder
    <3> QED
      BY <3>2, <3>3
  <2> QED
    BY <2>1, <2>2
<1>4. ASSUME Siblings(set), NEW e \in result, NEW f \in result, Dominates(e.DVV, f.DVV)
      PROVE  e = f
  <2>1. CASE e \in survivors /\ f \in survivors
    BY <1>4, <2>1 DEF Siblings
  <2>2. CASE e = incoming /\ f \in survivors
    BY <1>4, <2>2
  <2>3. CASE e \in survivors /\ f = incoming /\ incoming \in result
    <3>1. CASE \E s \in survivors : Dominates(s.DVV, incoming.DVV)
      <4>1. incoming \in survivors
        BY <1>1, <2>3, <3>1
      <4> QED
        BY <2>1, <2>3, <4>1
    <3>2. CASE ~\E s \in survivors : Dominates(s.DVV, incoming.DVV)
      BY <1>4, <2>3, <3>2
    <3> QED
      BY <3>1, <3>2
  <2>4. (e \in survivors \/ e = incoming) /\ (f \in survivors \/ f = incoming)
    <3> HIDE DEF survivors, result
    <3> QED BY <1>1, <1>4
  <2> QED
    BY <1>4, <2>1, <2>2, <2>3, <2>4
<1>5. Siblings(set) => Siblings(result)
  BY <1>4 DEF Siblings
<1> QED
  BY <1>2, <1>3, <1>5


\* Entries no two of which have seen the same writes.
Distinct(set) ==
    \A e, f \in set : Dominates(e.DVV, f.DVV) /\ Dominates(f.DVV, e.DVV) => e = f

\* What one dvv.Sync leaves of distinct entries.
LEMMA SyncMember ==
    ASSUME NEW set, NEW a, \A e \in set \cup {a} : e.DVV \in DVV, Distinct(set \cup {a})
    PROVE  \A e : e \in Sync(set, a)
                 <=> \/ e \in set /\ e # a /\ ~Dominates(a.DVV, e.DVV)
                     \/ e = a /\ \A s \in set : Dominates(s.DVV, a.DVV) => s = a
<1> DEFINE survivors == {e \in set : ~Dominates(a.DVV, e.DVV)}
<1>1. Sync(set, a) = IF \E s \in survivors : Dominates(s.DVV, a.DVV)
                     THEN survivors ELSE survivors \cup {a}
  BY DEF Sync
<1>2. Dominates(a.DVV, a.DVV)
  BY DominatesPreorder
<1>3. \A e : e \in survivors <=> e \in set /\ e # a /\ ~Dominates(a.DVV, e.DVV)
  BY <1>2
<1>4. (\E s \in survivors : Dominates(s.DVV, a.DVV))
          <=> ~\A s \in set : Dominates(s.DVV, a.DVV) => s = a
  BY <1>3 DEF Distinct
<1> HIDE DEF survivors
<1> QED
  BY <1>1, <1>3, <1>4

\* What two calls of dvv.Sync leave, in a form that is symmetric in the entries.
LEMMA SyncTwice ==
    ASSUME NEW set, NEW a, NEW b, \A e \in set \cup {a, b} : e.DVV \in DVV,
           Distinct(set \cup {a, b})
    PROVE  \A e : e \in Sync(Sync(set, a), b)
                 <=> \/ /\ e \in set /\ e # a /\ e # b
                        /\ ~Dominates(a.DVV, e.DVV) /\ ~Dominates(b.DVV, e.DVV)
                     \/ /\ e = a \/ e = b
                        /\ \A s \in set \cup {a, b} : Dominates(s.DVV, e.DVV) => s = e
<1> DEFINE once == Sync(set, a)
<1>1. \A e : e \in once
             <=> \/ e \in set /\ e # a /\ ~Dominates(a.DVV, e.DVV)
                 \/ e = a /\ \A s \in set : Dominates(s.DVV, a.DVV) => s = a
  BY SyncMember DEF Distinct
<1>2. once \subseteq set \cup {a}
  BY <1>1
<1>3. \A s \in set \cup {a} : \E t \in once : Dominates(t.DVV, s.DVV)
  BY SyncKeepsSiblings
<1> HIDE DEF once
<1>4. \A e : e \in Sync(once, b)
             <=> \/ e \in once /\ e # b /\ ~Dominates(b.DVV, e.DVV)
                 \/ e = b /\ \A s \in once : Dominates(s.DVV, b.DVV) => s = b
  <2>1. \A e \in once \cup {b} : e.DVV \in DVV
    BY <1>2
  <2>2. Distinct(once \cup {b})
    BY <1>2 DEF Distinct
  <2> QED
    BY <2>1, <2>2, SyncMember
<1>5. (\A t \in once : Dominates(t.DVV, b.DVV) => t = b)
          <=> \A s \in set \cup {a, b} : Dominates(s.DVV, b.DVV) => s = b
  <2>1. ASSUME \A t \in once : Dominates(t.DVV, b.DVV) => t = b,
               NEW s \in set \cup {a}, Dominates(s.DVV, b.DVV)
        PROVE  s = b
    <3>1. PICK t \in once : Dominates(t.DVV, s.DVV)
      BY <1>3
    <3>2. t.DVV \in DVV /\ s.DVV \in DVV /\ b.DVV \in DVV
      BY <1>2
    <3>3. Dominates(t.DVV, b.DVV)
      BY <2>1, <3>1, <3>2, DominatesPreorder
    <3>4. Dominates(b.DVV, s.DVV)
      BY <2>1, <3>1, <3>3
    <3> QED
      BY <2>1, <3>4 DEF Distinct
  <2> QED
    BY <1>2, <2>1
<1>6. Dominates(a.DVV, a.DVV)
  BY DominatesPreorder
<1> QED
  <2> SUFFICES ASSUME NEW e
               PROVE  e \in Sync(once, b)
                 <=> \/ /\ e \in set /\ e # a /\ e # b
                        /\ ~Dominates(a.DVV, e.DVV) /\ ~Dominates(b.DVV, e.DVV)
                     \/ /\ e = a \/ e = b
                        /\ \A s \in set \cup {a, b} : Dominates(s.DVV, e.DVV) => s = e
    BY DEF once
  <2>1. CASE e = b
    BY <1>4, <1>5, <2>1
  <2>2. CASE e = a /\ a # b
    BY <1>1, <1>4, <2>2
  <2>3. CASE e # a /\ e # b
    BY <1>1, <1>4, <2>3
  <2> QED
    BY <2>1, <2>2, <2>3

\* Replicas that receive the same writes converge whatever the order: two calls
\* of dvv.Sync commute when no two of the entries have seen the same writes.
THEOREM SyncCommutes ==
    ASSUME NEW set, NEW a, NEW b, \A e \in set \cup {a, b} : e.DVV \in DVV,
           Distinct(set \cup {a, b})
    PROVE  Sync(Sync(set, a), b) = Sync(Sync(set, b), a)
<1>1. set \cup {a, b} = set \cup {b, a}
  OBVIOUS
<1>2. \A e : e \in Sync(Sync(set, a), b) <=> e \in Sync(Sync(set, b), a)
  <2>1. \A e : e \in Sync(Sync(set, b), a)
                 <=> \/ /\ e \in set /\ e # b /\ e # a
                        /\ ~Dominates(b.DVV, e.DVV) /\ ~Dominates(a.DVV, e.DVV)
                     \/ /\ e = b \/ e = a
                        /\ \A s \in set \cup {b, a} : Dominates(s.DVV, e.DVV) => s = e
    BY <1>1, SyncTwice
  <2> QED
    BY <1>1, <2>1, SyncTwice
<1> QED
  BY <1>2

=============================================================================
