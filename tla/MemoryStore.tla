----------------------------- MODULE MemoryStore -----------------------------
(***************************************************************************)
(* internal/store/memory.go: records in shards, each under its own lock,   *)
(* and their number in a counter under a lock of its own.  A step is what  *)
(* happens between taking a lock and releasing it.                         *)
(*                                                                         *)
(* The life of every record is the same, so records expire in the order of *)
(* the Puts that made them.  A record is the number of its Put, its stamp, *)
(* and time is the number of the last stamp that has expired.              *)
(***************************************************************************)
EXTENDS Integers, FiniteSets

CONSTANTS
  Workers,     \* goroutines that serve requests
  Deleters,    \* those that also delete records; the service has none
  Sweeper,     \* the sweeping goroutine
  Sweeping,    \* whether it runs
  Ids,         \* payload_id values
  EmptyId,     \* the empty string, an id like any other, or not an id
  NumShards,   \* number of shards
  ShardOf,     \* ShardOf[id]: the shard of id
  MaxRecords,  \* store.max_records
  MaxPuts      \* bound of the model: Puts in a behaviour

Shards == 1..NumShards
Stamps == 1..MaxPuts
NoStamp == 0

ASSUME StoreAssumption ==
  /\ Deleters \subseteq Workers
  /\ Sweeper \notin Workers
  /\ Sweeping \in BOOLEAN
  /\ IsFiniteSet(Workers)
  /\ IsFiniteSet(Ids)
  /\ Ids # {}
  /\ NumShards \in Nat \ {0}
  /\ ShardOf \in [Ids -> Shards]
  /\ MaxRecords \in Nat \ {0}
  /\ MaxPuts \in Nat

VARIABLES
  data,     \* data[id]: the stamp of its record, or NoStamp
  count,    \* the counter of records
  puts,     \* stamps given so far
  expired,  \* stamps up to this one have expired
  pc,       \* pc[w]: where a worker or a sweeper stands
  job,      \* job[w]: what it is working on
  met       \* history: what has been done at one and the same time

vars == <<data, count, puts, expired, pc, job, met>>

Threads == Workers \cup {Sweeper}

\* id and stamp: of the record being put; peer: the first of the Puts that were
\* under way when it began; shard: the next one to visit; victim and best: the
\* oldest record met; now, removed: of a sweep.
Job == [id : Ids, stamp : Stamps \cup {NoStamp}, peer : Stamps \cup {NoStamp}, shard : 1..(NumShards + 1),
        victim : Ids, best : Stamps \cup {NoStamp},
        now : Stamps \cup {NoStamp}, removed : Nat]

Stages == {"idle", "insert", "count", "scan", "evict", "uncount", "forget", "sweep", "settle"}

TypeOK ==
  /\ data \in [Ids -> 0..puts]
  /\ count \in Int
  /\ puts \in 0..MaxPuts
  /\ expired \in 0..puts
  /\ pc \in [Threads -> Stages]
  /\ job \in [Threads -> Job]
  /\ met \subseteq SUBSET {"put", "delete", "sweep"}

Blank == [id |-> CHOOSE id \in Ids : TRUE, stamp |-> NoStamp, peer |-> NoStamp, shard |-> 1,
          victim |-> CHOOSE id \in Ids : TRUE, best |-> NoStamp,
          now |-> NoStamp, removed |-> 0]

Init ==
  /\ data = [id \in Ids |-> NoStamp]
  /\ count = 0
  /\ puts = 0
  /\ expired = 0
  /\ pc = [w \in Threads |-> "idle"]
  /\ job = [w \in Threads |-> Blank]
  /\ met = {}

Task(w) == IF w = Sweeper THEN "sweep" ELSE IF pc[w] = "forget" THEN "delete" ELSE "put"

\* Whoever begins a task may find others at theirs.
Meet(task) == met' = met \cup {{task, Task(v)} : v \in {v \in Threads : pc[v] # "idle"}}

\* w comes to stage with j on its hands, and with nothing when it is idle.
Go(w, stage, j) ==
  /\ pc' = [pc EXCEPT ![w] = stage]
  /\ job' = [job EXCEPT ![w] = IF stage = "idle" THEN Blank ELSE j]

Stored == {id \in Ids : data[id] # NoStamp}

\* What Get returns: a record that has expired is not found.
Lookup(id) == IF data[id] > expired THEN data[id] ELSE NoStamp

-----------------------------------------------------------------------------
(* Put: store the record, count it, make room.                              *)

Putting(w) == pc[w] \in {"insert", "count"}

\* newEntry encrypts the text and takes the time the record will expire at.
BeginPut(w) ==
  /\ pc[w] = "idle"
  /\ puts < MaxPuts
  /\ puts' = puts + 1
  /\ LET peers == {job[v].stamp : v \in {v \in Workers : Putting(v)}} \cup {puts + 1}
     IN  \E id \in Ids, peer \in peers :
           /\ \A other \in peers : peer <= other
           /\ Go(w, "insert", [Blank EXCEPT !.id = id, !.stamp = puts + 1, !.peer = peer])
  /\ Meet("put")
  /\ UNCHANGED <<data, count, expired>>

\* Mutant of Insert: the record gets the life of the next one.
InsertAhead(w) ==
  /\ pc[w] = "insert"
  /\ data' = [data EXCEPT ![job[w].id] = job[w].stamp + 1]
  /\ Go(w, IF job[w].id \in Stored THEN "idle" ELSE "count", job[w])
  /\ UNCHANGED <<count, puts, expired, met>>

\* Under the lock of the shard; a record under the same id is replaced.
Insert(w) ==
  /\ pc[w] = "insert"
  /\ data' = [data EXCEPT ![job[w].id] = job[w].stamp]
  /\ Go(w, IF job[w].id \in Stored THEN "idle" ELSE "count", job[w])
  /\ UNCHANGED <<count, puts, expired, met>>

\* Under the lock of the counter.
Count(w) ==
  /\ pc[w] = "count"
  /\ count' = count + 1
  /\ Go(w, IF count + 1 > MaxRecords THEN "scan" ELSE "idle", Blank)
  /\ UNCHANGED <<data, puts, expired, met>>

\* The oldest record of a shard, when it has any.
OldestIn(s) ==
  LET here == {id \in Stored : ShardOf[id] = s}
  IN  {id \in here : \A other \in here : data[id] <= data[other]}

\* Mutant of Scan: the newest record is looked for.
ScanForNewest(w) ==
  LET s == job[w].shard
      better == {id \in Stored : /\ ShardOf[id] = s
                                 /\ id # EmptyId
                                 /\ \A other \in Stored : ShardOf[other] = s => data[id] >= data[other]
                                 /\ job[w].best = NoStamp \/ data[id] > job[w].best}
      seen == IF better = {} THEN job[w]
              ELSE LET id == CHOOSE id \in better : TRUE
                   IN  [job[w] EXCEPT !.victim = id, !.best = data[id]]
  IN
  /\ pc[w] = "scan"
  /\ Go(w, IF s < NumShards THEN "scan" ELSE IF seen.best = NoStamp THEN "idle" ELSE "evict",
        [seen EXCEPT !.shard = s + 1])
  /\ UNCHANGED <<data, count, puts, expired, met>>

\* One shard after another, each under its lock, in search of the oldest record
\* of all.  A shard whose oldest record has the empty id is passed over.
Scan(w) ==
  LET s == job[w].shard
      better == {id \in OldestIn(s) : /\ id # EmptyId
                                      /\ job[w].best = NoStamp \/ data[id] < job[w].best}
      seen == IF better = {} THEN job[w]
              ELSE LET id == CHOOSE id \in better : TRUE
                   IN  [job[w] EXCEPT !.victim = id, !.best = data[id]]
  IN
  /\ pc[w] = "scan"
  /\ Go(w, IF s < NumShards THEN "scan" ELSE IF seen.best = NoStamp THEN "idle" ELSE "evict",
        [seen EXCEPT !.shard = s + 1])
  /\ UNCHANGED <<data, count, puts, expired, met>>

\* Mutant of Evict: the oldest record of every shard goes.
EvictFromEveryShard(w) ==
  /\ pc[w] = "evict"
  /\ data' = [id \in Ids |-> IF \E s \in Shards : id \in OldestIn(s) THEN NoStamp ELSE data[id]]
  /\ Go(w, "uncount", Blank)
  /\ UNCHANGED <<count, puts, expired, met>>

\* Under the lock of the victim's shard, whatever is there by now.
Evict(w) ==
  /\ pc[w] = "evict"
  /\ data' = [data EXCEPT ![job[w].victim] = NoStamp]
  /\ Go(w, "uncount", Blank)
  /\ UNCHANGED <<count, puts, expired, met>>

Uncount(w) ==
  /\ pc[w] = "uncount"
  /\ count' = count - 1
  /\ Go(w, "idle", Blank)
  /\ UNCHANGED <<data, puts, expired, met>>

-----------------------------------------------------------------------------
(* Delete, and the sweep that runs once a minute.                           *)

BeginDelete(w) ==
  /\ w \in Deleters
  /\ pc[w] = "idle"
  /\ \E id \in Ids :
       /\ data' = [data EXCEPT ![id] = NoStamp]
       /\ Go(w, IF id \in Stored THEN "forget" ELSE "idle", Blank)
  /\ Meet("delete")
  /\ UNCHANGED <<count, puts, expired>>

Floor(n) == IF n < 0 THEN 0 ELSE n

Forget(w) ==
  /\ pc[w] = "forget"
  /\ count' = Floor(count - 1)
  /\ Go(w, "idle", Blank)
  /\ UNCHANGED <<data, puts, expired, met>>

BeginSweep ==
  /\ Sweeping
  /\ pc[Sweeper] = "idle"
  /\ Go(Sweeper, "sweep", [Blank EXCEPT !.now = expired])
  /\ Meet("sweep")
  /\ UNCHANGED <<data, count, puts, expired>>

\* What had expired when the sweep began goes, shard by shard.
Sweep ==
  LET s == job[Sweeper].shard
      gone == {id \in Stored : ShardOf[id] = s /\ data[id] <= job[Sweeper].now}
      removed == job[Sweeper].removed + Cardinality(gone)
  IN
  /\ pc[Sweeper] = "sweep"
  /\ data' = [id \in Ids |-> IF id \in gone THEN NoStamp ELSE data[id]]
  /\ Go(Sweeper, IF s < NumShards THEN "sweep" ELSE IF removed > 0 THEN "settle" ELSE "idle",
        [job[Sweeper] EXCEPT !.shard = s + 1, !.removed = removed])
  /\ UNCHANGED <<count, puts, expired, met>>

\* Mutant of Settle: the counter does not learn what was swept.
SettleNothing ==
  /\ pc[Sweeper] = "settle"
  /\ Go(Sweeper, "idle", Blank)
  /\ UNCHANGED <<data, count, puts, expired, met>>

Settle ==
  /\ pc[Sweeper] = "settle"
  /\ count' = Floor(count - job[Sweeper].removed)
  /\ Go(Sweeper, "idle", Blank)
  /\ UNCHANGED <<data, puts, expired, met>>

\* Time passes.  store.ttl is minutes and a Put is microseconds: no record
\* expires while a Put is under way that began before, or along with, its own.
Tick ==
  /\ expired < puts
  /\ \A w \in Workers : Putting(w) => job[w].peer > expired + 1
  /\ expired' = expired + 1
  /\ UNCHANGED <<data, count, puts, pc, job, met>>

Work(w) ==
  \/ BeginPut(w)
  \/ Insert(w)
  \/ Count(w)
  \/ Scan(w)
  \/ Evict(w)
  \/ Uncount(w)
  \/ BeginDelete(w)
  \/ Forget(w)

Next ==
  \/ \E w \in Workers : Work(w)
  \/ BeginSweep \/ Sweep \/ Settle
  \/ Tick

Spec == Init /\ [][Next]_vars

-----------------------------------------------------------------------------
(* Properties.                                                              *)

Records == Cardinality(Stored)

\* Records stored that the counter does not have yet.
Uncounted == Cardinality({w \in Workers : pc[w] = "count"})

\* Removals the counter does not have yet.
Unsettled ==
  Cardinality({w \in Workers : pc[w] \in {"uncount", "forget"}})
    + job[Sweeper].removed

AtRest == \A w \in Threads : pc[w] = "idle"

\* The counter never shows more records than there are: evictOldest makes room
\* only when store.max_records is really exceeded, so no live correspondence is
\* lost before its time to a store that is not full.  Puts that meet each other do
\* not break this, nor a sweep that meets a Put.  The two together do, and so does
\* a Delete that meets a Put: they raise a count below zero to zero.
CountNeverOverstates ==
  \/ "delete" \in UNION met
  \/ {{"put"}, {"put", "sweep"}} \subseteq met
  \/ count <= Records - Uncounted + Unsettled

\* With one request at a time the counter is exact and the limit is kept after
\* every Put (TestEvictOnlyOneOverLimit).
SettledExactly == met = {} /\ AtRest => count = Records /\ Records <= MaxRecords

\* What evictOldest is about to remove is the oldest record of all, when nobody
\* else is at work.
VictimIsOldest ==
  \A w \in Workers : met = {} /\ pc[w] = "evict" =>
    /\ job[w].victim \in Stored
    /\ \A id \in Stored : data[job[w].victim] <= data[id]
=============================================================================
