--------------------------- MODULE ConflictStore ---------------------------
(***************************************************************************)
(* The multi-version key-value store: internal/conflict (detector.go,      *)
(* resolver.go, antientropy.go), its wrapper internal/process/kvstore.go   *)
(* and the REST handlers /kv of gateway/rest.go.                           *)
(*                                                                         *)
(* Every method of a ConflictDetector holds its mutex from the first read  *)
(* to the last write, so each is one action.  What is not atomic is the    *)
(* client: it reads, computes, and writes with the clock it read, and      *)
(* other writes, resolutions and syncs happen in between.  A remote store  *)
(* passed to Sync is a snapshot of another detector, taken earlier; it may *)
(* be applied late, twice, or to several detectors.                        *)
(*                                                                         *)
(* A client is also the author of its writes and talks to one replica      *)
(* (Home).  The context of a write is the merge of the clocks of its last  *)
(* read of the key ("the vector clock the writer observed (from a prior    *)
(* read)"), the zero clock if it read nothing.  One context serves one     *)
(* write: the client reads again before it writes the key again.           *)
(***************************************************************************)
EXTENDS Naturals, FiniteSets, Sequences, SequencesExt

CONSTANTS
    Client,             \* clients, the authors of the writes
    Replica,            \* the conflict detectors
    Home,               \* [Client -> Replica]
    Key,
    MaxKeys,            \* detector.go: 10000
    MaxSiblingsPerKey,  \* detector.go: 64
    MaxWrites,          \* bound: accepted writes
    MaxSnapshots        \* bound: snapshots taken for anti-entropy

vector == INSTANCE VectorClock WITH Pid <- Client

ASSUME StoreAssumption ==
    /\ Home \in [Client -> Replica]
    /\ MaxKeys \in Nat \ {0} /\ MaxSiblingsPerKey \in Nat \ {0}
    /\ MaxWrites \in Nat /\ MaxSnapshots \in Nat

VARIABLES
    store,      \* [Replica -> [Key -> Seq(ValueVersion)]]; <<>>: the key is absent
    ctx,        \* [Client -> [Key -> Clock]]: merged clocks of the last read
    mayWrite,   \* [Client -> SUBSET Key]: keys read since they were last written
    remote,     \* snapshots on their way to Sync
    \* History variables.
    writes,     \* number of accepted writes
    observed,   \* [Client -> [Key -> SUBSET Nat]]: the writes behind ctx
    overwritten,\* writes discarded by a Write whose author had not observed them
    falsely,    \* writes told of a conflict although all versions were observed
    pruned      \* [Replica -> [Key -> ...]]: whether versions went by a trim or a
                \* Resolve ("dropped") or came and went by a Sync ("synced")

code == <<store, ctx, mayWrite, remote>>
history == <<writes, observed, overwritten, falsely, pruned>>
vars == <<code, history>>

\* A ValueVersion: its value is identified by the number of the write, which
\* also orders the Written times (one machine's monotonic clock).  saw is a
\* history field: the writes its author had observed, and the write itself.
ValueVersion == [id : 1..MaxWrites, Clock : vector!Clock, Author : Client,
                 saw : SUBSET (1..MaxWrites)]

\* The types, and the versions of a key in the order they were written: trimOldest
\* relies on "the newest version is always at the tail of the slice".
TypeOK ==
    /\ store \in [Replica -> [Key -> Seq(ValueVersion)]]
    /\ \A r \in Replica, k \in Key : \A i, j \in DOMAIN store[r][k] :
            i < j => store[r][k][i].id < store[r][k][j].id
    /\ ctx \in [Client -> [Key -> vector!Clock]]
    /\ mayWrite \in [Client -> SUBSET Key]
    /\ remote \subseteq [Key -> Seq(ValueVersion)]
    /\ writes \in 0..MaxWrites
    /\ observed \in [Client -> [Key -> SUBSET (1..MaxWrites)]]
    /\ overwritten \cup falsely \subseteq 1..MaxWrites
    /\ pruned \in [Replica -> [Key -> {"no", "dropped", "synced"}]]

Ids(versions) == {versions[i].id : i \in DOMAIN versions}

Init ==
    /\ store = [r \in Replica |-> [k \in Key |-> <<>>]]
    /\ ctx = [c \in Client |-> [k \in Key |-> vector!New]]
    /\ mayWrite = [c \in Client |-> Key]
    /\ remote = {}
    /\ writes = 0
    /\ observed = [c \in Client |-> [k \in Key |-> {}]]
    /\ overwritten = {} /\ falsely = {}
    /\ pruned = [r \in Replica |-> [k \in Key |-> "no"]]

-----------------------------------------------------------------------------
(* Read and Write.                                                         *)

\* The clock of a client that has read these versions.
MergeAll(versions) ==
    FoldLeft(LAMBDA vc, v : vector!MergePassive(vc, v.Clock), vector!New, versions)

\* ConflictDetector.Read behind GET /kv/{key}: the siblings; an absent key is 404.
Read(c, k) ==
    LET versions == store[Home[c]][k]
    IN  /\ versions # <<>>
        /\ ctx' = [ctx EXCEPT ![c][k] = MergeAll(versions)]
        /\ mayWrite' = [mayWrite EXCEPT ![c] = @ \cup {k}]
        /\ observed' = [observed EXCEPT ![c][k] =
                            UNION {v.saw : v \in ToSet(versions)}]
        /\ UNCHANGED <<store, remote, writes, overwritten, falsely, pruned>>

\* Mutant of Survives: a stale write replaces the version it did not see.
SurvivesOnlyConcurrent(vc, existing) ==
    vector!Compare(vc, existing.Clock) = "Concurrent"

\* The versions a write keeps, which are also those that make it a conflict.
Survives(vc, existing) ==
    vector!Compare(vc, existing.Clock) \in {"HappenedBefore", "Concurrent"}

\* The context, raised by the clocks of the versions concurrent with it.
mergeClock(vc, versions) ==
    FoldLeft(LAMBDA acc, v : IF vector!Compare(vc, v.Clock) = "Concurrent"
                             THEN vector!MergePassive(acc, v.Clock) ELSE acc,
             vc, versions)

\* Mutant of newClock: a write based on a stale context is not counted.
newClockStale(vc, versions, author) ==
    IF \E v \in ToSet(versions) : vector!Compare(vc, v.Clock) = "HappenedBefore"
    THEN mergeClock(vc, versions)
    ELSE vector!Tick(mergeClock(vc, versions), author)

\* The clock of the new version.
newClock(vc, versions, author) == vector!Tick(mergeClock(vc, versions), author)

\* Mutant of trimOldest: the newest versions go.
trimNewest(versions, n) ==
    IF n <= 0 THEN versions ELSE SubSeq(versions, 1, Len(versions) - n)

\* trimOldest: the n oldest versions go.
trimOldest(versions, n) ==
    IF n <= 0 \/ Len(versions) <= n THEN versions
    ELSE SubSeq(versions, n + 1, Len(versions))

\* The keyspace is full.
full(r) == Cardinality({k \in Key : store[r][k] # <<>>}) >= MaxKeys

\* ConflictDetector.Write behind PUT /kv/{key}.  The first version of a key
\* and a further one are the two branches of the code.
Write(c, k) ==
    LET r == Home[c]
        versions == store[r][k]
        vc == ctx[c][k]
        id == writes + 1
        survivors == SelectSeq(versions, LAMBDA v : Survives(vc, v))
        newVersion == [id |-> id, Author |-> c, saw |-> observed[c][k] \cup {id},
                       Clock |-> newClock(vc, versions, c)]
        all == Append(survivors, newVersion)
        seen == observed[c][k]
        gone == Ids(versions) \ Ids(survivors)
    IN  /\ id <= MaxWrites
        /\ k \in mayWrite[c]
        /\ versions = <<>> => ~full(r)
        /\ store' = [store EXCEPT ![r][k] = trimOldest(all, Len(all) - MaxSiblingsPerKey)]
        /\ mayWrite' = [mayWrite EXCEPT ![c] = @ \ {k}]
        /\ ctx' = [ctx EXCEPT ![c][k] = vector!New]
        /\ observed' = [observed EXCEPT ![c][k] = {}]
        /\ writes' = id
        /\ overwritten' = IF pruned[r][k] = "no" THEN overwritten \cup (gone \ seen)
                          ELSE overwritten
        /\ falsely' = IF survivors # <<>> /\ Ids(versions) \subseteq seen
                      THEN falsely \cup {id} ELSE falsely
        /\ pruned' = IF store'[r][k] = all THEN pruned
                     ELSE [pruned EXCEPT ![r][k] = IF @ = "no" THEN "dropped" ELSE @]
        /\ UNCHANGED remote

\* Write of a new key in a full store: an error (503), nothing changes.
WriteRefused(c, k) ==
    /\ k \in mayWrite[c]
    /\ store[Home[c]][k] = <<>>
    /\ full(Home[c])
    /\ UNCHANGED vars

-----------------------------------------------------------------------------
(* Resolve.                                                                *)

Strategy == {"LastWriterWins", "FirstWriterWins", "KeepAll"}

\* Resolve of resolver.go, on the strategies the handler accepts.
Winner(versions, strategy) ==
    CASE strategy = "LastWriterWins" ->
            CHOOSE v \in ToSet(versions) : \A w \in ToSet(versions) : v.id >= w.id
      [] strategy = "FirstWriterWins" ->
            CHOOSE v \in ToSet(versions) : \A w \in ToSet(versions) : v.id <= w.id
      [] OTHER -> versions[1]

\* ConflictDetector.Resolve behind POST /kv/{key}/resolve.
Resolve(r, k, strategy) ==
    LET versions == store[r][k]
    IN  /\ versions # <<>>
        /\ store' = IF strategy = "KeepAll" THEN store
                    ELSE [store EXCEPT ![r][k] = <<Winner(versions, strategy)>>]
        /\ pruned' = IF store' = store THEN pruned
                     ELSE [pruned EXCEPT ![r][k] = IF @ = "no" THEN "dropped" ELSE @]
        /\ UNCHANGED <<ctx, mayWrite, remote, writes, observed, overwritten, falsely>>

-----------------------------------------------------------------------------
(* Anti-entropy.                                                           *)

\* A snapshot of a detector's store is taken for another one.
Snapshot(r) ==
    /\ Cardinality(remote) < MaxSnapshots
    /\ remote' = remote \cup {store[r]}
    /\ UNCHANGED <<store, ctx, mayWrite, history>>

\* Mutant of absorb: only the first local version is looked at.
absorbFirst(versions, rv) ==
    IF vector!Compare(rv.Clock, versions[1].Clock) \in {"HappenedBefore", "Identical"}
    THEN versions ELSE <<rv>>

\* One remote version: skipped when a local one dominates it; otherwise it
\* replaces the whole entry.  dominatesAll only fails for a version that was
\* skipped already, so the code never reaches its last branch (a sibling).
absorb(versions, rv) ==
    LET order(i) == vector!Compare(rv.Clock, versions[i].Clock)
        skip == \E i \in DOMAIN versions : order(i) \in {"HappenedBefore", "Identical"}
        dominatesAll == \A i \in DOMAIN versions : order(i) \notin {"HappenedBefore", "Identical"}
    IN  IF skip THEN versions
        ELSE IF dominatesAll THEN <<rv>> ELSE Append(versions, rv)

\* Mutant of SyncEntry: an absent key takes the remote versions newest first.
SyncEntryReversed(versions, remoteVersions) ==
    IF remoteVersions = <<>> THEN versions
    ELSE IF versions = <<>> THEN Reverse(remoteVersions)
    ELSE FoldLeft(absorb, versions, remoteVersions)

\* Sync of one key: an absent key takes the remote entry whole.
SyncEntry(versions, remoteVersions) ==
    IF remoteVersions = <<>> THEN versions
    ELSE IF versions = <<>> THEN remoteVersions
    ELSE FoldLeft(absorb, versions, remoteVersions)

\* ConflictDetector.Sync behind CausalKV.Merge.
Sync(r, entries) ==
    /\ store' = [store EXCEPT ![r] = [k \in Key |-> SyncEntry(@[k], entries[k])]]
    /\ pruned' = [pruned EXCEPT ![r] = [k \in Key |->
                    IF store'[r][k] = store[r][k] THEN @[k] ELSE "synced"]]
    /\ UNCHANGED <<ctx, mayWrite, remote, writes, observed, overwritten, falsely>>

-----------------------------------------------------------------------------
Next ==
    \/ \E c \in Client, k \in Key : Read(c, k) \/ Write(c, k) \/ WriteRefused(c, k)
    \/ \E r \in Replica, k \in Key, strategy \in Strategy : Resolve(r, k, strategy)
    \/ \E r \in Replica : Snapshot(r)
    \/ \E r \in Replica, entries \in remote : Sync(r, entries)

Spec == Init /\ [][Next]_vars

-----------------------------------------------------------------------------
(* Properties.                                                             *)

\* A conflict is a version the author has not seen, no less and no more.  No lost
\* update: a Write discards only versions that its author has seen, directly or
\* through the versions it read, whatever happened between its read and its write
\* ("do NOT silently rebase", detector.go:96).  No false conflict: a client that has
\* seen every version of the key is told of none, and replaces them all.
ConflictIffUnseen == overwritten = {} /\ falsely = {}

\* A write is never born obsolete: in a detector fed by writes only, no version
\* is dominated by, or has the same clock as, one that was stored before it.
\* The last writer that Resolve picks is therefore never causally older than a
\* version it discards.
NewestNotDominated ==
    \A r \in Replica, k \in Key :
        LET versions == store[r][k]
        IN  pruned[r][k] = "no" => \A i, j \in DOMAIN versions : i < j =>
                vector!Compare(versions[j].Clock, versions[i].Clock)
                    \in {"HappenedAfter", "Concurrent"}

\* The caps of detector.go: siblings are capped in every detector, whatever
\* Sync absorbs; keys in every detector that never ran Sync, which checks no cap.
Bounded ==
    \A r \in Replica :
        /\ \A k \in Key : Len(store[r][k]) <= MaxSiblingsPerKey
        /\ (\A k \in Key : pruned[r][k] # "synced") =>
                Cardinality({k \in Key : store[r][k] # <<>>}) <= MaxKeys

\* Every step leaves a detector within its caps, and trimming to them never costs
\* the version just written ("Newest version is always retained", detector.go:121).
CapsRespected ==
    [][/\ Bounded'
       /\ writes' > writes =>
              \E r \in Replica, k \in Key : writes' \in Ids(store'[r][k])]_vars

\* Anti-entropy settles.  A snapshot may be repeated: applying it a second time to
\* any detector changes nothing.  And two detectors that hold one version of a key
\* each agree after one exchange in each direction, on the newer if there is one.
SyncSettles ==
    /\ \A r \in Replica, k \in Key, entries \in remote :
          LET once == SyncEntry(store[r][k], entries[k])
          IN  SyncEntry(once, entries[k]) = once
    /\ \A r, q \in Replica, k \in Key :
          LET mine == store[r][k]
              other == store[q][k]
              after == SyncEntry(mine, other)
              order == vector!Compare(mine[1].Clock, other[1].Clock)
          IN  r # q /\ Len(mine) = 1 /\ Len(other) = 1 =>
                  /\ SyncEntry(other, after) = after
                  /\ order = "HappenedBefore" => after = other
                  /\ order = "HappenedAfter" => after = mine
=============================================================================
