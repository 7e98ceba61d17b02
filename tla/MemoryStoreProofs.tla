------------------------- MODULE MemoryStoreProofs -------------------------
(***************************************************************************)
(* The memory store, for any number of shards, workers and records: the    *)
(* oldest record makes room, a store used by one request at a time counts  *)
(* exactly and keeps its limit, and one used by many never counts a record *)
(* too many, but for the accidents CountNeverOverstates names.             *)
(***************************************************************************)
EXTENDS MemoryStore, FiniteSetTheorems, WellFoundedInduction, TLAPS

\* A stamp is given before it is used.
StampsGiven == \A w \in Threads : job[w].stamp <= puts

\* There is a shard to visit for whoever visits shards.
ShardsInRange == \A w \in Threads : pc[w] \in {"scan", "sweep"} => job[w].shard <= NumShards

\* Each stage belongs to workers or to the sweeper.
StagesOfTheirOwn ==
  /\ \A w \in Workers : pc[w] \notin {"sweep", "settle"}
  /\ pc[Sweeper] \in {"idle", "sweep", "settle"}

TypeInv ==
  /\ TypeOK
  /\ StampsGiven
  /\ ShardsInRange
  /\ StagesOfTheirOwn

LEMMA Constants ==
  /\ Workers \subseteq Threads /\ Sweeper \in Threads /\ Sweeper \notin Workers
  /\ NumShards \in Nat \ {0} /\ MaxPuts \in Nat /\ MaxRecords \in Nat \ {0}
  /\ Stamps \subseteq Nat \ {0} /\ NoStamp = 0
  /\ Ids # {}
BY StoreAssumption DEF Threads, Stamps, NoStamp

LEMMA Fields ==
  ASSUME NEW j \in Job
  PROVE  /\ j.id \in Ids /\ j.victim \in Ids /\ j.removed \in Nat /\ j.shard \in Nat \ {0}
         /\ j.stamp \in Nat /\ j.peer \in Nat /\ j.best \in Nat /\ j.now \in Nat
<1>1. /\ j.id \in Ids /\ j.victim \in Ids /\ j.removed \in Nat /\ j.shard \in 1..(NumShards + 1)
      /\ j.stamp \in Stamps \cup {NoStamp} /\ j.peer \in Stamps \cup {NoStamp}
      /\ j.best \in Stamps \cup {NoStamp} /\ j.now \in Stamps \cup {NoStamp}
  BY DEF Job
<1>2. Stamps \cup {NoStamp} \subseteq Nat /\ 1..(NumShards + 1) \subseteq Nat \ {0}
  BY Constants
<1>3. QED
  BY <1>1, <1>2

LEMMA BlankIsAJob == Blank \in Job
<1>1. (CHOOSE id \in Ids : TRUE) \in Ids
  BY Constants
<1>2. NoStamp \in Stamps \cup {NoStamp} /\ 1 \in 1..(NumShards + 1) /\ 0 \in Nat
  BY Constants
<1>3. QED
  BY <1>1, <1>2 DEF Blank, Job

LEMMA InitTypes == Init => TypeInv
<1> SUFFICES ASSUME Init PROVE TypeInv
  OBVIOUS
<1>1. TypeOK
  BY BlankIsAJob, Constants DEF Init, TypeOK, Stages, NoStamp
<1>2. StampsGiven /\ ShardsInRange /\ StagesOfTheirOwn
  BY Constants DEF Init, StampsGiven, ShardsInRange, StagesOfTheirOwn, Blank, NoStamp
<1>3. QED
  BY <1>1, <1>2 DEF TypeInv

\* What becomes of the threads when one of them moves.
LEMMA Moved ==
  ASSUME TypeInv, puts' \in Nat, puts <= puts', NEW w \in Threads, NEW stage \in Stages, NEW j \in Job,
         j.stamp <= puts',
         stage \in {"scan", "sweep"} => j.shard <= NumShards,
         w \in Workers => stage \notin {"sweep", "settle"},
         w = Sweeper => stage \in {"idle", "sweep", "settle"},
         Go(w, stage, j)
  PROVE  /\ pc' \in [Threads -> Stages] /\ job' \in [Threads -> Job]
         /\ StampsGiven' /\ ShardsInRange' /\ StagesOfTheirOwn'
         /\ pc'[w] = stage /\ job'[w] = IF stage = "idle" THEN Blank ELSE j
         /\ \A v \in Threads \ {w} : pc'[v] = pc[v] /\ job'[v] = job[v]
<1> DEFINE new == IF stage = "idle" THEN Blank ELSE j
<1>1. new \in Job
  BY BlankIsAJob
<1>2. new.stamp <= puts' /\ (stage \in {"scan", "sweep"} => new.shard <= NumShards)
  BY Constants DEF Blank, NoStamp
<1>3. pc' = [pc EXCEPT ![w] = stage] /\ job' = [job EXCEPT ![w] = new]
  BY DEF Go
<1> HIDE DEF new
<1>4. pc' \in [Threads -> Stages] /\ job' \in [Threads -> Job]
  BY <1>1, <1>3 DEF TypeInv, TypeOK
<1>5. pc'[w] = stage /\ job'[w] = new /\ \A v \in Threads \ {w} : pc'[v] = pc[v] /\ job'[v] = job[v]
  BY <1>3 DEF TypeInv, TypeOK
<1>6. \A v \in Threads : job[v].stamp \in Nat /\ job'[v].stamp \in Nat
  BY <1>4, Fields DEF TypeInv, TypeOK
<1>7. StampsGiven'
  <2> SUFFICES ASSUME NEW v \in Threads PROVE job'[v].stamp <= puts'
    BY DEF StampsGiven
  <2>1. CASE v = w
    BY <2>1, <1>2, <1>5
  <2>2. CASE v # w
    <3>1. job'[v].stamp <= puts /\ puts \in Nat
      BY <2>2, <1>5 DEF TypeInv, StampsGiven, TypeOK
    <3>2. QED
      BY <3>1, <1>6
  <2>3. QED
    BY <2>1, <2>2
<1>8. ShardsInRange'
  BY <1>2, <1>5 DEF TypeInv, ShardsInRange
<1>9. StagesOfTheirOwn'
  BY <1>5, Constants DEF TypeInv, StagesOfTheirOwn
<1>10. QED
  BY <1>4, <1>5, <1>7, <1>8, <1>9 DEF new

\* A step that moves no thread.
LEMMA Unmoved ==
  ASSUME TypeInv, puts' \in Nat, puts <= puts', UNCHANGED <<pc, job>>
  PROVE  /\ pc' \in [Threads -> Stages] /\ job' \in [Threads -> Job]
         /\ StampsGiven' /\ ShardsInRange' /\ StagesOfTheirOwn'
<1>1. pc' \in [Threads -> Stages] /\ job' \in [Threads -> Job] /\ puts \in Nat
  BY DEF TypeInv, TypeOK
<1>2. StampsGiven'
  <2> SUFFICES ASSUME NEW v \in Threads PROVE job'[v].stamp <= puts'
    BY DEF StampsGiven
  <2>1. job'[v].stamp = job[v].stamp /\ job[v].stamp <= puts
    BY DEF TypeInv, StampsGiven
  <2>2. job[v].stamp \in Nat
    BY Fields DEF TypeInv, TypeOK
  <2>3. QED
    BY <1>1, <2>1, <2>2
<1>3. ShardsInRange' /\ StagesOfTheirOwn'
  BY DEF TypeInv, ShardsInRange, StagesOfTheirOwn
<1>4. QED
  BY <1>1, <1>2, <1>3

\* What is not about the threads.
StoreTypes ==
  /\ data \in [Ids -> 0..puts]
  /\ count \in Int
  /\ puts \in 0..MaxPuts
  /\ expired \in 0..puts
  /\ met \subseteq SUBSET {"put", "delete", "sweep"}

LEMMA TasksMeet ==
  ASSUME TypeInv, NEW task \in {"put", "delete", "sweep"}, Meet(task)
  PROVE  met' \subseteq SUBSET {"put", "delete", "sweep"}
<1> DEFINE three == {"put", "delete", "sweep"}
<1>1. \A v \in Threads : Task(v) \in three
  BY DEF Task
<1>2. \A v \in Threads : {task, Task(v)} \in SUBSET three
  BY <1>1
<1>3. met \in SUBSET (SUBSET three) /\ met' = met \cup {{task, Task(v)} : v \in {v \in Threads : pc[v] # "idle"}}
  BY DEF TypeInv, TypeOK, Meet
<1> HIDE DEF three
<1>4. {{task, Task(v)} : v \in {v \in Threads : pc[v] # "idle"}} \subseteq SUBSET three
  BY <1>2
<1>5. met' \subseteq SUBSET three
  BY <1>3, <1>4
<1>6. QED
  BY <1>5 DEF three

LEMMA NextTypes == TypeInv /\ [Next]_vars => TypeInv'
<1> SUFFICES ASSUME TypeInv, [Next]_vars PROVE TypeInv'
  OBVIOUS
<1>a. StoreTypes /\ puts \in Nat /\ expired \in Nat /\ MaxPuts \in Nat
  BY Constants DEF TypeInv, TypeOK, StoreTypes
<1>b. ASSUME StoreTypes', pc' \in [Threads -> Stages], job' \in [Threads -> Job], StampsGiven', ShardsInRange', StagesOfTheirOwn'
      PROVE  TypeInv'
  BY <1>b DEF TypeInv, TypeOK, StoreTypes
<1>c. ASSUME NEW w \in Threads, NEW j \in Job, NEW stage \in Stages, UNCHANGED puts, Go(w, stage, j), j.stamp <= puts,
             stage \in {"scan", "sweep"} => j.shard <= NumShards,
             w \in Workers => stage \notin {"sweep", "settle"},
             w = Sweeper => stage \in {"idle", "sweep", "settle"},
             StoreTypes'
      PROVE  TypeInv'
  BY <1>a, <1>b, <1>c, Moved
<1>d. Blank \in Job /\ Blank.stamp = 0 /\ Blank.shard = 1 /\ Blank.removed = 0 /\ 1 <= NumShards
  BY BlankIsAJob, Constants DEF Blank, NoStamp
<1>e. \A w \in Threads : job[w] \in Job /\ job[w].stamp <= puts /\ job[w].stamp \in Nat
  BY Fields DEF TypeInv, TypeOK, StampsGiven
<1>1. ASSUME NEW w \in Workers, BeginPut(w) PROVE TypeInv'
  <2> DEFINE peers == {job[v].stamp : v \in {v \in Workers : Putting(v)}} \cup {puts + 1}
  <2>1. PICK id \in Ids, peer \in peers : Go(w, "insert", [Blank EXCEPT !.id = id, !.stamp = puts + 1, !.peer = peer])
    BY <1>1 DEF BeginPut
  <2>2. puts' = puts + 1 /\ puts < MaxPuts /\ UNCHANGED <<data, count, expired>> /\ Meet("put")
    BY <1>1 DEF BeginPut
  <2>3. puts + 1 \in Stamps
    BY <1>a, <2>2 DEF Stamps
  <2>4. peer \in Stamps \cup {NoStamp}
    BY <2>3, Constants DEF TypeInv, TypeOK, Job
  <2> HIDE DEF peers
  <2>5. [Blank EXCEPT !.id = id, !.stamp = puts + 1, !.peer = peer] \in Job
    BY <1>d, <2>3, <2>4 DEF Job
  <2>6. [Blank EXCEPT !.id = id, !.stamp = puts + 1, !.peer = peer].stamp = puts + 1
    BY DEF Blank
  <2>7. StoreTypes'
    <3>1. met' \subseteq SUBSET {"put", "delete", "sweep"}
      BY <2>2, TasksMeet
    <3>2. 0..puts \subseteq 0..puts' /\ puts' \in 0..MaxPuts
      BY <1>a, <2>2
    <3>3. QED
      BY <1>a, <2>2, <3>1, <3>2 DEF StoreTypes
  <2>8. w \in Threads /\ w # Sweeper /\ "insert" \in Stages
    BY Constants DEF Stages
  <2> DEFINE j == [Blank EXCEPT !.id = id, !.stamp = puts + 1, !.peer = peer]
  <2>9. Go(w, "insert", j) /\ j \in Job /\ j.stamp = puts + 1
    BY <2>1, <2>5, <2>6
  <2> HIDE DEF j
  <2>10. puts' \in Nat /\ puts <= puts' /\ j.stamp <= puts'
    BY <1>a, <2>2, <2>9
  <2>11. /\ pc' \in [Threads -> Stages] /\ job' \in [Threads -> Job]
         /\ StampsGiven' /\ ShardsInRange' /\ StagesOfTheirOwn'
    BY <2>8, <2>9, <2>10, Moved
  <2>12. QED
    BY <1>b, <2>7, <2>11
<1>2. ASSUME NEW w \in Workers, Insert(w) PROVE TypeInv'
  <2>1. data' \in [Ids -> 0..puts]
    <3>1. job[w].stamp \in 0..puts
      BY <1>a, <1>e, Constants
    <3>2. data \in [Ids -> 0..puts] /\ data' = [data EXCEPT ![job[w].id] = job[w].stamp]
      BY <1>a, <1>2 DEF StoreTypes, Insert
    <3>3. QED
      BY <3>1, <3>2
  <2>2. StoreTypes'
    BY <1>a, <1>2, <2>1 DEF StoreTypes, Insert
  <2>3. QED
    BY <1>2, <1>c, <1>e, <2>2, Constants DEF Insert, Stages
<1>3. ASSUME NEW w \in Workers, Count(w) PROVE TypeInv'
  <2>1. StoreTypes'
    BY <1>a, <1>3 DEF StoreTypes, Count
  <2>2. QED
    BY <1>3, <1>a, <1>c, <1>d, <2>1, Constants DEF Count, Stages
<1>4. ASSUME NEW w \in Workers, Scan(w) PROVE TypeInv'
  <2> DEFINE s == job[w].shard
             better == {id \in OldestIn(s) : /\ id # EmptyId
                                             /\ job[w].best = NoStamp \/ data[id] < job[w].best}
             seen == IF better = {} THEN job[w]
                     ELSE LET id == CHOOSE id \in better : TRUE
                          IN  [job[w] EXCEPT !.victim = id, !.best = data[id]]
             after == [seen EXCEPT !.shard = s + 1]
             stage == IF s < NumShards THEN "scan" ELSE IF seen.best = NoStamp THEN "idle" ELSE "evict"
  <2>1. pc[w] = "scan" /\ Go(w, stage, after) /\ UNCHANGED <<data, count, puts, expired, met>>
    BY <1>4 DEF Scan
  <2>2. s \in 1..NumShards
    <3>1. job[w] \in Job /\ w \in Threads
      BY <1>e, Constants
    <3>2. s \in Nat \ {0}
      BY <3>1, Fields
    <3>3. s <= NumShards
      BY <2>1, <3>1 DEF TypeInv, ShardsInRange
    <3>4. QED
      BY <3>2, <3>3, Constants
  <2>3. seen \in Job /\ seen.stamp = job[w].stamp
    <3>1. CASE better = {}
      BY <3>1, <1>e, Constants
    <3>2. CASE better # {}
      <4>1. PICK id \in better : seen = [job[w] EXCEPT !.victim = id, !.best = data[id]]
        BY <3>2
      <4>2. id \in Ids /\ data[id] \in 0..puts
        BY <4>1, <1>a DEF OldestIn, Stored, StoreTypes
      <4>3. data[id] \in Stamps \cup {NoStamp}
        BY <4>2, <1>a DEF Stamps, NoStamp, StoreTypes
      <4>4. job[w] \in Job
        BY <1>e, Constants
      <4>5. QED
        BY <4>1, <4>2, <4>3, <4>4 DEF Job
    <3>3. QED
      BY <3>1, <3>2
  <2> HIDE DEF better, seen, s
  <2>4. s + 1 \in 1..(NumShards + 1)
    BY <2>2, Constants
  <2>5. after \in Job /\ after.stamp = job[w].stamp /\ after.shard = s + 1
    BY <2>3, <2>4 DEF Job
  <2>6. stage \in {"scan", "idle", "evict"} /\ (stage = "scan" => s + 1 <= NumShards)
    BY <2>2, Constants
  <2> HIDE DEF after, stage
  <2>7. StoreTypes'
    BY <1>a, <2>1 DEF StoreTypes
  <2>8. stage \in Stages /\ stage \notin {"sweep", "settle"} /\ w \in Threads /\ w # Sweeper
    BY <2>6, Constants DEF Stages
  <2>9. QED
    BY <1>c, <1>e, <2>1, <2>5, <2>6, <2>7, <2>8
<1>5. ASSUME NEW w \in Workers, Evict(w) PROVE TypeInv'
  <2>1. StoreTypes'
    <3>1. NoStamp \in 0..puts
      BY <1>a, Constants
    <3>2. data' \in [Ids -> 0..puts]
      BY <1>a, <1>5, <3>1 DEF StoreTypes, Evict
    <3>3. QED
      BY <1>a, <1>5, <3>2 DEF StoreTypes, Evict
  <2>2. QED
    BY <1>5, <1>a, <1>c, <1>d, <2>1, Constants DEF Evict, Stages
<1>6. ASSUME NEW w \in Workers, Uncount(w) PROVE TypeInv'
  <2>1. StoreTypes'
    BY <1>a, <1>6 DEF StoreTypes, Uncount
  <2>2. QED
    BY <1>6, <1>a, <1>c, <1>d, <2>1, Constants DEF Uncount, Stages
<1>7. ASSUME NEW w \in Workers, BeginDelete(w) PROVE TypeInv'
  <2>1. PICK id \in Ids : /\ data' = [data EXCEPT ![id] = NoStamp]
                          /\ Go(w, IF id \in Stored THEN "forget" ELSE "idle", Blank)
    BY <1>7 DEF BeginDelete
  <2>2. StoreTypes'
    BY <1>a, <1>7, <2>1, TasksMeet, Constants DEF StoreTypes, BeginDelete
  <2>3. QED
    BY <1>7, <1>a, <1>c, <1>d, <2>1, <2>2, Constants DEF BeginDelete, Stages
<1>8. ASSUME NEW w \in Workers, Forget(w) PROVE TypeInv'
  <2>1. StoreTypes'
    BY <1>a, <1>8 DEF StoreTypes, Forget, Floor
  <2>2. QED
    BY <1>8, <1>a, <1>c, <1>d, <2>1, Constants DEF Forget, Stages
<1>9. ASSUME BeginSweep PROVE TypeInv'
  <2>1. [Blank EXCEPT !.now = expired] \in Job /\ [Blank EXCEPT !.now = expired].stamp = 0
          /\ [Blank EXCEPT !.now = expired].shard = 1
    <3>1. expired \in Stamps \cup {NoStamp}
      BY <1>a DEF Stamps, NoStamp, StoreTypes
    <3>2. QED
      BY <1>d, <3>1 DEF Job
  <2>2. StoreTypes'
    BY <1>a, <1>9, TasksMeet DEF StoreTypes, BeginSweep
  <2>3. QED
    <3> DEFINE j == [Blank EXCEPT !.now = expired]
    <3>1. Go(Sweeper, "sweep", j) /\ UNCHANGED puts /\ j \in Job /\ j.stamp = 0 /\ j.shard = 1
      BY <1>9, <2>1 DEF BeginSweep
    <3> HIDE DEF j
    <3>2. j.stamp <= puts /\ j.shard <= NumShards
      BY <1>a, <1>d, <3>1
    <3>3. "sweep" \in Stages /\ Sweeper \in Threads /\ Sweeper \notin Workers
      BY Constants DEF Stages
    <3>4. QED
      BY <1>c, <2>2, <3>1, <3>2, <3>3
<1>10. ASSUME Sweep PROVE TypeInv'
  <2> DEFINE s == job[Sweeper].shard
             gone == {id \in Stored : ShardOf[id] = s /\ data[id] <= job[Sweeper].now}
             removed == job[Sweeper].removed + Cardinality(gone)
             after == [job[Sweeper] EXCEPT !.shard = s + 1, !.removed = removed]
             stage == IF s < NumShards THEN "sweep" ELSE IF removed > 0 THEN "settle" ELSE "idle"
  <2>1. /\ pc[Sweeper] = "sweep"
        /\ data' = [id \in Ids |-> IF id \in gone THEN NoStamp ELSE data[id]]
        /\ Go(Sweeper, stage, after) /\ UNCHANGED <<count, puts, expired, met>>
    BY <1>10 DEF Sweep
  <2>2. s \in 1..NumShards
    BY <2>1, <1>e, Constants, Fields DEF TypeInv, ShardsInRange
  <2>3. removed \in Nat
    <3>1. gone \in SUBSET Ids /\ IsFiniteSet(Ids)
      BY StoreAssumption DEF Stored
    <3>2. IsFiniteSet(gone)
      BY <3>1, FS_Subset
    <3>3. Cardinality(gone) \in Nat
      BY <3>2, FS_CardinalityType
    <3>4. job[Sweeper].removed \in Nat
      BY <1>e, Constants, Fields
    <3>5. QED
      BY <3>3, <3>4
  <2>4. StoreTypes'
    BY <1>a, <2>1, Constants DEF StoreTypes
  <2> HIDE DEF gone, removed, s
  <2>5. s + 1 \in 1..(NumShards + 1)
    BY <2>2, Constants
  <2>6. job[Sweeper] \in Job
    BY <1>e, Constants
  <2>7. after \in Job /\ after.stamp = job[Sweeper].stamp /\ after.shard = s + 1
    BY <2>3, <2>5, <2>6 DEF Job
  <2>8. stage \in {"sweep", "settle", "idle"} /\ (stage = "sweep" => s + 1 <= NumShards)
    BY <2>2, Constants
  <2> HIDE DEF after, stage
  <2>9. stage \in Stages /\ Sweeper \in Threads /\ Sweeper \notin Workers
    BY <2>8, Constants DEF Stages
  <2>10. QED
    BY <1>c, <1>e, <2>1, <2>4, <2>7, <2>8, <2>9
<1>11. ASSUME Settle PROVE TypeInv'
  <2>1. job[Sweeper].removed \in Nat
    BY <1>e, Constants, Fields
  <2>2. StoreTypes'
    BY <1>a, <1>11, <2>1 DEF StoreTypes, Settle, Floor
  <2>3. QED
    BY <1>11, <1>a, <1>c, <1>d, <2>2, Constants DEF Settle, Stages
<1>12. ASSUME Tick PROVE TypeInv'
  <2>1. StoreTypes'
    BY <1>a, <1>12 DEF StoreTypes, Tick
  <2>2. QED
    BY <1>a, <1>b, <1>12, <2>1, Unmoved DEF Tick
<1>13. ASSUME UNCHANGED vars PROVE TypeInv'
  <2>1. StoreTypes'
    BY <1>a, <1>13 DEF StoreTypes, vars
  <2>2. QED
    BY <1>a, <1>b, <1>13, <2>1, Unmoved DEF vars
<1>14. QED
  BY <1>1, <1>2, <1>3, <1>4, <1>5, <1>6, <1>7, <1>8, <1>9, <1>10, <1>11, <1>12, <1>13 DEF Next, Work

LEMMA AlwaysTyped == Spec => []TypeInv
BY InitTypes, NextTypes, PTL DEF Spec

\* Every variable of the memory store keeps its type; among others, no record has a
\* stamp that no Put was given.
THEOREM StoreIsTyped == Spec => []TypeOK
<1>1. TypeInv => TypeOK
  BY DEF TypeInv
<1>2. QED
  BY <1>1, AlwaysTyped, PTL

-----------------------------------------------------------------------------
(* A store used by one request at a time.                                   *)

\* What one thread on its own still owes the counter.
Lag(stage, removed) ==
  IF stage = "count" THEN -1
  ELSE IF stage \in {"uncount", "forget"} THEN 1
  ELSE IF stage \in {"sweep", "settle"} THEN removed
  ELSE 0

\* How many records there may be meanwhile.
Room(stage) == IF stage \in {"count", "scan", "evict"} THEN MaxRecords + 1 ELSE MaxRecords

\* j names the oldest of the records in the shards it has visited.
SawOldest(j) ==
  /\ j.best # NoStamp => /\ j.victim \in Stored
                         /\ data[j.victim] = j.best
  /\ \A id \in Stored : ShardOf[id] < j.shard => j.best # NoStamp /\ j.best <= data[id]

\* The store is as the only thread at work needs it.
Fits(stage, j) ==
  /\ count = Records + Lag(stage, j.removed)
  /\ Records <= Room(stage)
  /\ stage = "insert" => j.stamp # NoStamp
  /\ stage \in {"scan", "evict"} => Stored # {}
  /\ stage = "scan" => SawOldest(j)
  /\ stage = "evict" => /\ j.victim \in Stored
                        /\ \A id \in Stored : data[j.victim] <= data[id]

Alone(w) == \A v \in Threads \ {w} : pc[v] = "idle"

\* As long as nobody has met anybody, at most one thread is at work and the store
\* is as that thread needs it.
AloneInv == met = {} => \E w \in Threads : Alone(w) /\ Fits(pc[w], job[w])

LEMMA StoredIsFinite == IsFiniteSet(Stored) /\ Stored \subseteq Ids /\ Records \in Nat
<1>1. Stored \subseteq Ids /\ IsFiniteSet(Ids)
  BY StoreAssumption DEF Stored
<1>2. IsFiniteSet(Stored)
  BY <1>1, FS_Subset
<1>3. QED
  BY <1>1, <1>2, FS_CardinalityType DEF Records

\* A set of numbers has a least one.
LEMMA Least ==
  ASSUME NEW T, T \subseteq Nat, T # {}
  PROVE  \E x \in T : \A y \in T : x <= y
<1> DEFINE R == OpToRel(<, Nat)
<1>1. IsWellFoundedOn(R, Nat)
  BY NatLessThanWellFounded
<1>2. R = {ss \in Nat \X Nat : ss[1] < ss[2]}
  BY DEF OpToRel
<1> HIDE DEF R
<1>3. PICK x \in T : \A y \in T : ~ (<<y, x>> \in R)
  BY <1>1, WFMin
<1>4. \A y \in T : x <= y
  <2> SUFFICES ASSUME NEW y \in T PROVE x <= y
    OBVIOUS
  <2>1. x \in Nat /\ y \in Nat /\ <<y, x>> \notin R
    BY <1>3
  <2>2. ~ (y < x)
    BY <1>2, <2>1
  <2>3. QED
    BY <2>1, <2>2
<1>5. QED
  BY <1>4

\* Only who is at work can go on; whoever begins without meeting anybody is alone.
LEMMA Begins ==
  ASSUME NEW task, Meet(task), met' = {}
  PROVE  met = {} /\ AtRest
<1>1. met' = met \cup {{task, Task(v)} : v \in {v \in Threads : pc[v] # "idle"}}
  BY DEF Meet
<1>2. met = {} /\ {{task, Task(v)} : v \in {v \in Threads : pc[v] # "idle"}} = {}
  BY <1>1
<1>3. \A v \in Threads : pc[v] = "idle"
  BY <1>2
<1>4. QED
  BY <1>2, <1>3 DEF AtRest

LEMMA RestIsExact ==
  ASSUME AloneInv, met = {}, AtRest
  PROVE  count = Records /\ Records <= MaxRecords
<1>1. PICK w \in Threads : Fits(pc[w], job[w])
  BY DEF AloneInv
<1>2. pc[w] = "idle"
  BY DEF AtRest
<1>3. Lag("idle", job[w].removed) = 0 /\ Room("idle") = MaxRecords
  BY DEF Lag, Room
<1>4. QED
  BY <1>1, <1>2, <1>3, StoredIsFinite DEF Fits
LEMMA WhoIsAtWork ==
  ASSUME AloneInv, met = {}, NEW w \in Threads, pc[w] # "idle"
  PROVE  Alone(w) /\ Fits(pc[w], job[w])
<1>1. PICK v \in Threads : Alone(v) /\ Fits(pc[v], job[v])
  BY DEF AloneInv
<1>2. v = w
  BY <1>1 DEF Alone
<1>3. QED
  BY <1>1, <1>2

\* A thread that is alone and moves remains alone.
LEMMA StaysAlone ==
  ASSUME TypeInv, NEW w \in Threads, NEW stage, NEW j, Go(w, stage, j), Alone(w),
         Fits(stage, IF stage = "idle" THEN Blank ELSE j)'
  PROVE  AloneInv'
<1> DEFINE new == IF stage = "idle" THEN Blank ELSE j
<1>1. pc' = [pc EXCEPT ![w] = stage] /\ job' = [job EXCEPT ![w] = new]
  BY DEF Go
<1>2. pc'[w] = stage /\ job'[w] = new /\ \A v \in Threads \ {w} : pc'[v] = pc[v]
  BY <1>1 DEF TypeInv, TypeOK
<1>3. Alone(w)'
  BY <1>2 DEF Alone
<1>4. Fits(pc[w], job[w])'
  BY <1>2 DEF Fits
<1>5. QED
  BY <1>3, <1>4 DEF AloneInv

\* What a step does to the records, and to their number.
LEMMA SameRecords ==
  ASSUME data' = data
  PROVE  Stored' = Stored /\ Records' = Records
<1>1. Stored' = Stored
  BY DEF Stored
<1>2. QED
  BY <1>1 DEF Records

LEMMA OneLess ==
  ASSUME TypeInv, NEW id \in Ids, data' = [data EXCEPT ![id] = NoStamp]
  PROVE  /\ Stored' = Stored \ {id}
         /\ Records' = IF id \in Stored THEN Records - 1 ELSE Records
<1>1. data \in [Ids -> 0..puts]
  BY DEF TypeInv, TypeOK
<1>2. data'[id] = NoStamp /\ \A other \in Ids : other # id => data'[other] = data[other]
  BY <1>1
<1>3. Stored' = Stored \ {id}
  BY <1>2 DEF Stored
<1>4. Cardinality(Stored \ {id}) = IF id \in Stored THEN Cardinality(Stored) - 1 ELSE Cardinality(Stored)
  BY StoredIsFinite, FS_RemoveElement
<1>5. QED
  BY <1>3, <1>4 DEF Records

LEMMA OneMore ==
  ASSUME TypeInv, NEW id \in Ids, NEW stamp, stamp # NoStamp, data' = [data EXCEPT ![id] = stamp]
  PROVE  /\ Stored' = Stored \cup {id}
         /\ Records' = IF id \in Stored THEN Records ELSE Records + 1
<1>1. data \in [Ids -> 0..puts]
  BY DEF TypeInv, TypeOK
<1>2. data'[id] = stamp /\ \A other \in Ids : other # id => data'[other] = data[other]
  BY <1>1
<1>3. Stored' = Stored \cup {id}
  BY <1>2 DEF Stored
<1>4. Cardinality(Stored \cup {id}) = IF id \in Stored THEN Cardinality(Stored) ELSE Cardinality(Stored) + 1
  BY StoredIsFinite, FS_AddElement
<1>5. QED
  BY <1>3, <1>4 DEF Records

LEMMA AloneInit == Init => AloneInv
<1> SUFFICES ASSUME Init PROVE AloneInv
  OBVIOUS
<1>1. Stored = {}
  BY DEF Init, Stored
<1>2. Records = 0
  BY <1>1, FS_EmptySet DEF Records
<1>3. Sweeper \in Threads /\ pc[Sweeper] = "idle" /\ Alone(Sweeper)
  BY Constants DEF Init, Alone
<1>4. Lag("idle", job[Sweeper].removed) = 0 /\ Room("idle") = MaxRecords
  BY DEF Lag, Room
<1>5. Fits("idle", job[Sweeper])
  BY <1>2, <1>4, Constants DEF Fits, Init
<1>6. QED
  BY <1>3, <1>5 DEF AloneInv

\* One step each, of a thread that met nobody.
LEMMA BeginPutAlone ==
  ASSUME TypeInv, AloneInv, met' = {}, NEW w \in Workers, BeginPut(w)
  PROVE  AloneInv'
<1>0. PICK id \in Ids : \E peer : Go(w, "insert", [Blank EXCEPT !.id = id, !.stamp = puts + 1, !.peer = peer])
  BY DEF BeginPut
<1>1. PICK peer : Go(w, "insert", [Blank EXCEPT !.id = id, !.stamp = puts + 1, !.peer = peer])
  BY <1>0
<1>2. data' = data /\ count' = count /\ Meet("put")
  BY DEF BeginPut
<1>3. PICK j : j = [Blank EXCEPT !.id = id, !.stamp = puts + 1, !.peer = peer]
  OBVIOUS
<1>4. met = {} /\ AtRest
  BY <1>2, Begins
<1>5. count = Records /\ Records <= MaxRecords
  BY <1>4, RestIsExact
<1>6. Alone(w) /\ w \in Threads
  BY <1>4, Constants DEF AtRest, Alone
<1>7. j.stamp # NoStamp
  <2>1. j.stamp = puts + 1
    BY <1>3 DEF Blank
  <2>2. puts \in Nat
    BY Constants DEF TypeInv, TypeOK
  <2>3. QED
    BY <2>1, <2>2, Constants
<1>8. Lag("insert", j.removed) = 0 /\ Room("insert") = MaxRecords
  BY DEF Lag, Room
<1>9. Records' = Records
  BY <1>2, SameRecords
<1>10. Fits("insert", j)'
  BY <1>2, <1>5, <1>7, <1>8, <1>9, StoredIsFinite DEF Fits
<1>11. Go(w, "insert", j)
  BY <1>1, <1>3
<1>12. QED
  BY <1>6, <1>10, <1>11, StaysAlone

LEMMA InsertAlone ==
  ASSUME TypeInv, AloneInv, met' = {}, NEW w \in Workers, Insert(w)
  PROVE  AloneInv'
<1> DEFINE id == job[w].id
           stage == IF id \in Stored THEN "idle" ELSE "count"
<1>1. /\ pc[w] = "insert" /\ data' = [data EXCEPT ![id] = job[w].stamp]
      /\ Go(w, stage, job[w]) /\ count' = count /\ met = {}
  BY DEF Insert
<1>2. w \in Threads /\ job[w] \in Job /\ id \in Ids
  BY Constants, Fields DEF TypeInv, TypeOK
<1>3. Alone(w) /\ Fits("insert", job[w])
  BY <1>1, <1>2, WhoIsAtWork
<1>4. count = Records /\ Records <= MaxRecords /\ job[w].stamp # NoStamp
  BY <1>3, StoredIsFinite DEF Fits, Lag, Room
<1>5. Records' = IF id \in Stored THEN Records ELSE Records + 1
  BY <1>1, <1>2, <1>4, OneMore
<1>6. PICK at, j : at = stage /\ j = job[w]
  OBVIOUS
<1>7. count' = Records' + Lag(at, j.removed) /\ Records' <= Room(at)
  BY <1>1, <1>4, <1>5, <1>6, StoredIsFinite, Constants DEF Lag, Room
<1>8. at \in {"idle", "count"}
  BY <1>6
<1>9. Fits(at, IF at = "idle" THEN Blank ELSE j)'
  <2>1. Lag("idle", j.removed) = Lag("idle", Blank.removed)
    BY DEF Lag
  <2>2. QED
    BY <1>7, <1>8, <2>1 DEF Fits
<1>10. Go(w, at, j)
  BY <1>1, <1>6
<1>11. QED
  BY <1>2, <1>3, <1>9, <1>10, StaysAlone

LEMMA CountAlone ==
  ASSUME TypeInv, AloneInv, met' = {}, NEW w \in Workers, Count(w)
  PROVE  AloneInv'
<1>1. /\ pc[w] = "count" /\ count' = count + 1 /\ data' = data /\ met = {}
      /\ Go(w, IF count + 1 > MaxRecords THEN "scan" ELSE "idle", Blank)
  BY DEF Count
<1>2. w \in Threads
  BY Constants
<1>3. Alone(w) /\ Fits("count", job[w])
  BY <1>1, <1>2, WhoIsAtWork
<1>4. count + 1 = Records /\ Records <= MaxRecords + 1
  BY <1>3, StoredIsFinite DEF Fits, Lag, Room
<1>5. PICK at, j : at = (IF count + 1 > MaxRecords THEN "scan" ELSE "idle") /\ j = Blank
  OBVIOUS
<1>6. Records' = Records /\ Stored' = Stored
  BY <1>1, SameRecords
<1>7. count' = Records' + Lag(at, j.removed) /\ Records' <= Room(at)
  BY <1>1, <1>4, <1>5, <1>6, StoredIsFinite, Constants DEF Lag, Room
<1>8. at = "scan" => Stored # {} /\ SawOldest(j)'
  <2> SUFFICES ASSUME at = "scan" PROVE Stored # {} /\ SawOldest(j)'
    OBVIOUS
  <2>1. Records > 0
    BY <1>4, <1>5, StoredIsFinite, Constants
  <2>2. Stored # {}
    BY <2>1, FS_EmptySet DEF Records
  <2>3. \A id \in Stored : ~ (ShardOf[id] < 1)
    BY StoreAssumption, StoredIsFinite DEF Shards
  <2>4. j.best = NoStamp /\ j.shard = 1
    BY <1>5 DEF Blank
  <2>5. QED
    BY <1>6, <2>2, <2>3, <2>4 DEF SawOldest
<1>9. at \in {"scan", "idle"}
  BY <1>5
<1>10. Fits(at, j)'
  BY <1>6, <1>7, <1>8, <1>9 DEF Fits
<1>11. Go(w, at, j) /\ (IF at = "idle" THEN Blank ELSE j) = j
  BY <1>1, <1>5
<1>12. Fits(at, IF at = "idle" THEN Blank ELSE j)'
  BY <1>5, <1>10
<1>13. QED
  BY <1>2, <1>3, <1>11, <1>12, StaysAlone

\* The oldest of a shard is there whenever the shard has anything.
LEMMA ShardHasOldest ==
  ASSUME TypeInv, NEW id \in Stored
  PROVE  \E o \in OldestIn(ShardOf[id]) : TRUE
<1> DEFINE here == {other \in Stored : ShardOf[other] = ShardOf[id]}
           T == {data[other] : other \in here}
<1>1. data \in [Ids -> 0..puts] /\ puts \in Nat /\ here \subseteq Ids /\ id \in here
  BY StoredIsFinite, Constants DEF TypeInv, TypeOK
<1>2. T \subseteq Nat /\ T # {}
  BY <1>1
<1>3. PICK x \in T : \A y \in T : x <= y
  <2> HIDE DEF T
  <2>1. QED
    BY <1>2, Least
<1>4. PICK o \in here : data[o] = x
  BY <1>3
<1>5. \A other \in here : data[o] <= data[other]
  BY <1>3, <1>4
<1>6. o \in OldestIn(ShardOf[id])
  BY <1>4, <1>5 DEF OldestIn
<1>7. QED
  BY <1>6

LEMMA ScanAlone ==
  ASSUME TypeInv, AloneInv, met' = {}, EmptyId \notin Ids, NEW w \in Workers, Scan(w)
  PROVE  AloneInv'
<1> DEFINE s == job[w].shard
           better == {id \in OldestIn(s) : /\ id # EmptyId
                                           /\ job[w].best = NoStamp \/ data[id] < job[w].best}
           seen == IF better = {} THEN job[w]
                   ELSE LET id == CHOOSE id \in better : TRUE
                        IN  [job[w] EXCEPT !.victim = id, !.best = data[id]]
           stage == IF s < NumShards THEN "scan" ELSE IF seen.best = NoStamp THEN "idle" ELSE "evict"
           after == [seen EXCEPT !.shard = s + 1]
<1>1. pc[w] = "scan" /\ Go(w, stage, after) /\ data' = data /\ count' = count /\ met = {}
  BY DEF Scan
<1>2. w \in Threads /\ job[w] \in Job /\ data \in [Ids -> 0..puts] /\ puts \in Nat
  BY Constants DEF TypeInv, TypeOK
<1>3. Alone(w) /\ Fits("scan", job[w])
  BY <1>1, <1>2, WhoIsAtWork
<1>4. count = Records /\ Records <= MaxRecords + 1 /\ Stored # {} /\ SawOldest(job[w])
  BY <1>3, StoredIsFinite DEF Fits, Lag, Room
<1>5. s \in Nat /\ s <= NumShards /\ job[w].best \in Nat /\ NumShards \in Nat
  BY <1>1, <1>2, Fields, Constants DEF TypeInv, ShardsInRange
<1>6. Records' = Records /\ Stored' = Stored
  BY <1>1, SameRecords
<1>n. \A id \in Stored : data[id] \in Nat /\ data[id] # NoStamp /\ ShardOf[id] \in 1..NumShards
  BY <1>2, StoredIsFinite, StoreAssumption DEF Stored, Shards
<1>7. seen \in Job /\ \A id \in Stored : ShardOf[id] < s + 1 => seen.best # NoStamp /\ seen.best <= data[id]
  <2>1. CASE better = {}
    <3>1. seen = job[w]
      BY <2>1
    <3>2. ASSUME NEW id \in Stored, ShardOf[id] < s + 1 PROVE job[w].best # NoStamp /\ job[w].best <= data[id]
      <4>1. CASE ShardOf[id] < s
        BY <4>1, <1>4 DEF SawOldest
      <4>2. CASE ShardOf[id] = s
        <5>1. PICK o \in OldestIn(s) : TRUE
          BY <4>2, ShardHasOldest
        <5>2. o \in Stored /\ data[o] <= data[id] /\ o # EmptyId
          BY <5>1, <4>2, StoredIsFinite DEF OldestIn
        <5>3. ~ (job[w].best = NoStamp \/ data[o] < job[w].best)
          BY <5>1, <5>2, <2>1
        <5>4. data[o] \in Nat /\ data[id] \in Nat
          BY <5>2, <1>n
        <5>5. QED
          BY <5>2, <5>3, <5>4, <1>5
      <4>3. ShardOf[id] < s \/ ShardOf[id] = s
        BY <3>2, <1>5, <1>n
      <4>4. QED
        BY <4>1, <4>2, <4>3
    <3>3. QED
      BY <3>1, <3>2, <1>2
  <2>2. CASE better # {}
    <3>1. PICK v \in better : seen = [job[w] EXCEPT !.victim = v, !.best = data[v]]
      BY <2>2
    <3>2. v \in OldestIn(s) /\ (job[w].best = NoStamp \/ data[v] < job[w].best)
      BY <3>1
    <3>3. v \in Stored /\ ShardOf[v] = s /\ \A id \in Stored : ShardOf[id] = s => data[v] <= data[id]
      BY <3>2 DEF OldestIn
    <3>4. v \in Ids /\ data[v] \in Stamps \cup {NoStamp} /\ data[v] \in Nat /\ data[v] # NoStamp
      <4>1. v \in Ids /\ data[v] \in 0..puts
        BY <3>3, <1>2, StoredIsFinite
      <4>2. puts \in 0..MaxPuts
        BY DEF TypeInv, TypeOK
      <4>3. QED
        BY <4>1, <4>2, <1>2, <3>3, <1>n, Constants DEF Stamps, NoStamp
    <3>5. seen \in Job /\ seen.best = data[v] /\ seen.victim = v
      BY <3>1, <3>4, <1>2 DEF Job
    <3>6. ASSUME NEW id \in Stored, ShardOf[id] < s + 1 PROVE data[v] <= data[id]
      <4>1. CASE ShardOf[id] < s
        <5>1. job[w].best # NoStamp /\ job[w].best <= data[id]
          BY <4>1, <1>4 DEF SawOldest
        <5>2. QED
          BY <5>1, <3>2, <3>4, <1>5, <1>n
      <4>2. CASE ShardOf[id] = s
        BY <4>2, <3>3
      <4>3. ShardOf[id] < s \/ ShardOf[id] = s
        BY <3>6, <1>5, <1>n
      <4>4. QED
        BY <4>1, <4>2, <4>3
    <3>7. QED
      BY <3>4, <3>5, <3>6
  <2>3. QED
    BY <2>1, <2>2
<1>8. seen.best # NoStamp => seen.victim \in Stored /\ data[seen.victim] = seen.best
  <2>1. CASE better = {}
    BY <2>1, <1>4 DEF SawOldest
  <2>2. CASE better # {}
    <3>1. PICK v \in better : seen = [job[w] EXCEPT !.victim = v, !.best = data[v]]
      BY <2>2
    <3>2. v \in Stored /\ seen.victim = v /\ seen.best = data[v]
      BY <3>1, <1>2 DEF OldestIn, Job
    <3>3. QED
      BY <3>2
  <2>3. QED
    BY <2>1, <2>2
<1> HIDE DEF seen, better
<1>9. after \in [id : Ids, stamp : Stamps \cup {NoStamp}, peer : Stamps \cup {NoStamp}, shard : Nat,
                 victim : Ids, best : Stamps \cup {NoStamp}, now : Stamps \cup {NoStamp}, removed : Nat]
        /\ after.best = seen.best /\ after.victim = seen.victim /\ after.shard = s + 1
  BY <1>5, <1>7 DEF Job
<1>10. PICK at, j : at = stage /\ j = after
  OBVIOUS
<1>11. j.best = seen.best /\ j.victim = seen.victim /\ j.shard = s + 1
  BY <1>9, <1>10
<1>12. at = "scan" => SawOldest(j)'
  BY <1>1, <1>6, <1>7, <1>8, <1>11 DEF SawOldest
<1>13. s >= NumShards => seen.best # NoStamp /\ \A id \in Stored : seen.best <= data[id]
  BY <1>4, <1>5, <1>7, <1>n
<1>14. at = "evict" => j.victim \in Stored /\ \A id \in Stored : data[j.victim] <= data[id]
  BY <1>5, <1>8, <1>10, <1>11, <1>13
<1>15. at \in {"scan", "evict"}
  BY <1>5, <1>10, <1>13
<1>16. Lag(at, j.removed) = 0 /\ Room(at) = MaxRecords + 1
  BY <1>15 DEF Lag, Room
<1>17. Fits(at, j)'
  BY <1>1, <1>4, <1>6, <1>12, <1>14, <1>15, <1>16, StoredIsFinite DEF Fits
<1>18. Go(w, at, j) /\ Fits(at, IF at = "idle" THEN Blank ELSE j)'
  BY <1>1, <1>10, <1>15, <1>17
<1>19. QED
  BY <1>2, <1>3, <1>18, StaysAlone

LEMMA EvictAlone ==
  ASSUME TypeInv, AloneInv, met' = {}, NEW w \in Workers, Evict(w)
  PROVE  AloneInv'
<1> DEFINE v == job[w].victim
<1>1. pc[w] = "evict" /\ data' = [data EXCEPT ![v] = NoStamp] /\ Go(w, "uncount", Blank) /\ count' = count /\ met = {}
  BY DEF Evict
<1>2. w \in Threads /\ v \in Ids
  BY Constants, Fields DEF TypeInv, TypeOK
<1>3. Alone(w) /\ Fits("evict", job[w])
  BY <1>1, <1>2, WhoIsAtWork
<1>4. count = Records /\ Records <= MaxRecords + 1 /\ v \in Stored
  BY <1>3, StoredIsFinite DEF Fits, Lag, Room
<1>5. Records' = Records - 1
  BY <1>1, <1>2, <1>4, OneLess
<1>6. PICK j : j = Blank
  OBVIOUS
<1>7. count' = Records' + Lag("uncount", j.removed) /\ Records' <= Room("uncount")
  BY <1>1, <1>4, <1>5, StoredIsFinite, Constants DEF Lag, Room
<1>8. Fits("uncount", j)'
  BY <1>7 DEF Fits
<1>9. Go(w, "uncount", j) /\ Fits("uncount", IF "uncount" = "idle" THEN Blank ELSE j)'
  BY <1>1, <1>6, <1>8
<1>10. QED
  BY <1>2, <1>3, <1>9, StaysAlone

\* A thread that comes to rest leaves an exact counter and a store within its limit.
LEMMA EndsAlone ==
  ASSUME TypeInv, NEW w \in Threads, Alone(w), Go(w, "idle", Blank), count' = Records', Records' <= MaxRecords
  PROVE  AloneInv'
<1>1. PICK j : j = Blank
  OBVIOUS
<1>2. Lag("idle", j.removed) = 0 /\ Room("idle") = MaxRecords
  BY DEF Lag, Room
<1>3. count' = Records' + Lag("idle", j.removed)
  <2>1. data' = data' /\ Records' \in Nat
    <3>1. Stored' \subseteq Ids /\ IsFiniteSet(Ids)
      BY StoreAssumption DEF Stored
    <3>2. IsFiniteSet(Stored')
      BY <3>1, FS_Subset
    <3>3. QED
      BY <3>2, FS_CardinalityType DEF Records
  <2>2. QED
    BY <1>2, <2>1
<1>4. Fits("idle", j)'
  BY <1>2, <1>3 DEF Fits
<1>5. Go(w, "idle", j) /\ Fits("idle", IF "idle" = "idle" THEN Blank ELSE j)'
  BY <1>1, <1>4
<1>6. QED
  BY <1>5, StaysAlone

LEMMA UncountAlone ==
  ASSUME TypeInv, AloneInv, met' = {}, NEW w \in Workers, Uncount(w)
  PROVE  AloneInv'
<1>1. pc[w] = "uncount" /\ data' = data /\ Go(w, "idle", Blank) /\ count' = count - 1 /\ met = {} /\ w \in Threads
  BY Constants DEF Uncount
<1>2. Alone(w) /\ Fits("uncount", job[w])
  BY <1>1, WhoIsAtWork
<1>3. count = Records + 1 /\ Records <= MaxRecords
  BY <1>2 DEF Fits, Lag, Room
<1>4. Records' = Records
  BY <1>1, SameRecords
<1>5. count' = Records' /\ Records' <= MaxRecords
  BY <1>1, <1>3, <1>4, StoredIsFinite
<1>6. QED
  BY <1>1, <1>2, <1>5, EndsAlone

LEMMA BeginDeleteAlone ==
  ASSUME TypeInv, AloneInv, met' = {}, NEW w \in Workers, BeginDelete(w)
  PROVE  AloneInv'
<1>1. PICK id \in Ids : data' = [data EXCEPT ![id] = NoStamp] /\ Go(w, IF id \in Stored THEN "forget" ELSE "idle", Blank)
  BY DEF BeginDelete
<1>2. count' = count /\ Meet("delete") /\ w \in Threads
  BY Constants DEF BeginDelete
<1>3. met = {} /\ AtRest
  BY <1>2, Begins
<1>4. count = Records /\ Records <= MaxRecords /\ Alone(w)
  BY <1>3, RestIsExact DEF AtRest, Alone
<1>5. Records' = IF id \in Stored THEN Records - 1 ELSE Records
  BY <1>1, OneLess
<1>6. CASE id \notin Stored
  BY <1>1, <1>2, <1>4, <1>5, <1>6, EndsAlone
<1>7. CASE id \in Stored
  <2>1. PICK j : j = Blank
    OBVIOUS
  <2>2. count' = Records' + Lag("forget", j.removed) /\ Records' <= Room("forget")
    BY <1>2, <1>4, <1>5, <1>7, StoredIsFinite, Constants DEF Lag, Room
  <2>3. Fits("forget", j)'
    BY <2>2 DEF Fits
  <2>4. Go(w, "forget", j) /\ Fits("forget", IF "forget" = "idle" THEN Blank ELSE j)'
    BY <1>1, <1>7, <2>1, <2>3
  <2>5. QED
    BY <1>2, <1>4, <2>4, StaysAlone
<1>8. QED
  BY <1>6, <1>7

LEMMA ForgetAlone ==
  ASSUME TypeInv, AloneInv, met' = {}, NEW w \in Workers, Forget(w)
  PROVE  AloneInv'
<1>1. pc[w] = "forget" /\ data' = data /\ Go(w, "idle", Blank) /\ count' = Floor(count - 1) /\ met = {} /\ w \in Threads
  BY Constants DEF Forget
<1>2. Alone(w) /\ Fits("forget", job[w])
  BY <1>1, WhoIsAtWork
<1>3. count = Records + 1 /\ Records <= MaxRecords
  BY <1>2 DEF Fits, Lag, Room
<1>4. Records' = Records
  BY <1>1, SameRecords
<1>5. count' = Records' /\ Records' <= MaxRecords
  BY <1>1, <1>3, <1>4, StoredIsFinite DEF Floor
<1>6. QED
  BY <1>1, <1>2, <1>5, EndsAlone

LEMMA BeginSweepAlone ==
  ASSUME TypeInv, AloneInv, met' = {}, BeginSweep
  PROVE  AloneInv'
<1>1. PICK j : j = [Blank EXCEPT !.now = expired]
  OBVIOUS
<1>2. Go(Sweeper, "sweep", j) /\ data' = data /\ count' = count /\ Meet("sweep") /\ Sweeper \in Threads
  BY <1>1, Constants DEF BeginSweep
<1>3. met = {} /\ AtRest
  BY <1>2, Begins
<1>4. count = Records /\ Records <= MaxRecords /\ Alone(Sweeper)
  BY <1>3, RestIsExact DEF AtRest, Alone
<1>5. Records' = Records
  BY <1>2, SameRecords
<1>6. j.removed = 0
  BY <1>1 DEF Blank
<1>7. count' = Records' + Lag("sweep", j.removed) /\ Records' <= Room("sweep")
  BY <1>2, <1>4, <1>5, <1>6, StoredIsFinite DEF Lag, Room
<1>8. Fits("sweep", IF "sweep" = "idle" THEN Blank ELSE j)'
  BY <1>7 DEF Fits
<1>9. QED
  BY <1>2, <1>4, <1>8, StaysAlone

LEMMA SweepAlone ==
  ASSUME TypeInv, AloneInv, met' = {}, Sweep
  PROVE  AloneInv'
<1> DEFINE s == job[Sweeper].shard
           gone == {id \in Stored : ShardOf[id] = s /\ data[id] <= job[Sweeper].now}
           removed == job[Sweeper].removed + Cardinality(gone)
           stage == IF s < NumShards THEN "sweep" ELSE IF removed > 0 THEN "settle" ELSE "idle"
           after == [job[Sweeper] EXCEPT !.shard = s + 1, !.removed = removed]
<1>1. /\ pc[Sweeper] = "sweep" /\ Go(Sweeper, stage, after) /\ count' = count /\ met = {} /\ Sweeper \in Threads
      /\ data' = [id \in Ids |-> IF id \in gone THEN NoStamp ELSE data[id]]
  BY Constants DEF Sweep
<1>2. Alone(Sweeper) /\ Fits("sweep", job[Sweeper])
  BY <1>1, WhoIsAtWork
<1>3. job[Sweeper] \in Job /\ job[Sweeper].removed \in Nat
  BY <1>1, Fields DEF TypeInv, TypeOK
<1>4. count = Records + job[Sweeper].removed /\ Records <= MaxRecords
  BY <1>2 DEF Fits, Lag, Room
<1>5. gone \subseteq Stored /\ Stored' = Stored \ gone
  BY <1>1 DEF Stored
<1>6. after.removed = removed
  BY <1>3 DEF Job
<1> HIDE DEF gone
<1>7. Cardinality(Stored \ gone) = Cardinality(Stored) - Cardinality(Stored \cap gone)
  BY StoredIsFinite, FS_Difference
<1>8. Stored \cap gone = gone
  BY <1>5
<1>9. Records' = Records - Cardinality(gone)
  BY <1>5, <1>7, <1>8 DEF Records
<1>10. IsFiniteSet(gone)
  BY <1>5, StoredIsFinite, FS_Subset
<1>11. Cardinality(gone) \in Nat
  BY <1>10, FS_CardinalityType
<1>12. removed \in Nat /\ count' = Records' + removed /\ Records' <= MaxRecords
  BY <1>1, <1>3, <1>4, <1>9, <1>11, StoredIsFinite, Constants
<1> HIDE DEF removed
<1>13. PICK at, j : at = stage /\ j = after
  OBVIOUS
<1>14. j.removed = removed
  BY <1>6, <1>13
<1>15. CASE at = "idle"
  <2>1. removed = 0
    BY <1>12, <1>13, <1>15
  <2>2. Records' \in Int
    BY <1>9, <1>11, StoredIsFinite
  <2>3. count' = Records'
    <3>1. PICK r \in Int : r = Records'
      BY <2>2
    <3>2. count' = r + 0
      BY <1>12, <2>1, <3>1
    <3>3. \A n \in Int : n + 0 = n
      OBVIOUS
    <3>4. r + 0 = r
      BY <3>3
    <3>5. QED
      BY <3>1, <3>2, <3>4, Zenon
  <2>4. Go(Sweeper, "idle", Blank)
    BY <1>1, <1>13, <1>15 DEF Go
  <2>5. QED
    BY <1>1, <1>2, <1>12, <2>3, <2>4, EndsAlone
<1>16. CASE at \in {"sweep", "settle"}
  <2>1. Lag(at, j.removed) = removed /\ Room(at) = MaxRecords
    BY <1>14, <1>16 DEF Lag, Room
  <2>2. Fits(at, j)'
    BY <1>12, <1>16, <2>1 DEF Fits
  <2>3. Go(Sweeper, at, j) /\ Fits(at, IF at = "idle" THEN Blank ELSE j)'
    BY <1>1, <1>13, <1>16, <2>2
  <2>4. QED
    BY <1>1, <1>2, <2>3, StaysAlone
<1>17. at \in {"sweep", "settle", "idle"}
  BY <1>13
<1>18. QED
  BY <1>15, <1>16, <1>17

LEMMA SettleAlone ==
  ASSUME TypeInv, AloneInv, met' = {}, Settle
  PROVE  AloneInv'
<1>1. /\ pc[Sweeper] = "settle" /\ data' = data /\ Go(Sweeper, "idle", Blank) /\ met = {} /\ Sweeper \in Threads
      /\ count' = Floor(count - job[Sweeper].removed)
  BY Constants DEF Settle
<1>2. Alone(Sweeper) /\ Fits("settle", job[Sweeper]) /\ job[Sweeper].removed \in Nat
  BY <1>1, WhoIsAtWork, Fields DEF TypeInv, TypeOK
<1>3. count = Records + job[Sweeper].removed /\ Records <= MaxRecords
  BY <1>2 DEF Fits, Lag, Room
<1>4. Records' = Records
  BY <1>1, SameRecords
<1>5. count' = Records' /\ Records' <= MaxRecords
  BY <1>1, <1>2, <1>3, <1>4, StoredIsFinite DEF Floor
<1>6. QED
  BY <1>1, <1>2, <1>5, EndsAlone

\* A step that leaves the threads, the records and the counter as they are.
LEMMA NothingMoves ==
  ASSUME AloneInv, UNCHANGED <<data, count, pc, job, met>>
  PROVE  AloneInv'
<1> SUFFICES ASSUME met' = {} PROVE \E w \in Threads : Alone(w)' /\ Fits(pc[w], job[w])'
  BY DEF AloneInv
<1>1. PICK w \in Threads : Alone(w) /\ Fits(pc[w], job[w])
  BY DEF AloneInv
<1>2. Alone(w)'
  BY <1>1 DEF Alone
<1>3. Records' = Records /\ Stored' = Stored
  BY SameRecords
<1>4. SawOldest(job[w])' = SawOldest(job[w])
  BY <1>3 DEF SawOldest
<1>5. Fits(pc[w], job[w])'
  BY <1>1, <1>3, <1>4 DEF Fits
<1>6. QED
  BY <1>2, <1>5

LEMMA AloneNext == EmptyId \notin Ids /\ TypeInv /\ AloneInv /\ [Next]_vars => AloneInv'
<1> SUFFICES ASSUME EmptyId \notin Ids, TypeInv, AloneInv, [Next]_vars, met' = {} PROVE AloneInv'
  BY DEF AloneInv
<1>1. ASSUME NEW w \in Workers, Work(w) PROVE AloneInv'
  BY <1>1, BeginPutAlone, InsertAlone, CountAlone, ScanAlone, EvictAlone, UncountAlone, BeginDeleteAlone, ForgetAlone
     DEF Work
<1>2. CASE BeginSweep \/ Sweep \/ Settle
  BY <1>2, BeginSweepAlone, SweepAlone, SettleAlone
<1>3. CASE Tick
  BY <1>3, NothingMoves DEF Tick
<1>4. CASE UNCHANGED vars
  BY <1>4, NothingMoves DEF vars
<1>5. QED
  BY <1>1, <1>2, <1>3, <1>4 DEF Next

LEMMA AlwaysAlone == EmptyId \notin Ids => (Spec => []AloneInv)
<1> SUFFICES ASSUME EmptyId \notin Ids PROVE Spec => []AloneInv
  OBVIOUS
<1>1. TypeInv /\ AloneInv /\ [Next]_vars => AloneInv'
  BY AloneNext
<1>2. QED
  BY <1>1, AloneInit, AlwaysTyped, PTL DEF Spec

\* A store that serves one request at a time counts its records exactly and keeps
\* its limit after every Put, Delete and sweep, unless the empty string is an id.
THEOREM StoreSettles == EmptyId \notin Ids => (Spec => []SettledExactly)
<1> SUFFICES ASSUME EmptyId \notin Ids PROVE Spec => []SettledExactly
  OBVIOUS
<1>1. AloneInv => SettledExactly
  BY RestIsExact DEF SettledExactly
<1>2. QED
  BY <1>1, AlwaysAlone, PTL

\* What makes room is the oldest record of all, when nobody else is at work and
\* the empty string is not an id.
THEOREM OldestMakesRoom == EmptyId \notin Ids => (Spec => []VictimIsOldest)
<1> SUFFICES ASSUME EmptyId \notin Ids PROVE Spec => []VictimIsOldest
  OBVIOUS
<1>1. AloneInv => VictimIsOldest
  <2> SUFFICES ASSUME AloneInv, NEW w \in Workers, met = {}, pc[w] = "evict"
               PROVE  /\ job[w].victim \in Stored
                      /\ \A id \in Stored : data[job[w].victim] <= data[id]
    BY DEF VictimIsOldest
  <2>1. Fits("evict", job[w])
    BY WhoIsAtWork, Constants
  <2>2. QED
    BY <2>1 DEF Fits
<1>2. QED
  BY <1>1, AlwaysAlone, PTL


-----------------------------------------------------------------------------
(* The counter, whoever meets whom.  It overstates only after one of the    *)
(* accidents CountNeverOverstates names; what follows is what each step     *)
(* relies on as long as no task has met the others it would be hurt by.     *)

\* A Delete that has met nobody is alone at work.
DeletesAreAlone ==
  "delete" \notin UNION met => \A w \in Workers : pc[w] = "forget" => Alone(w)

\* While no Put has met another there is one at a time.
PutsAreApart ==
  {"put"} \notin met =>
    \A v, w \in Workers : pc[v] \notin {"idle", "forget"} /\ pc[w] \notin {"idle", "forget"} => v = w

\* While no Put has met a sweep none is at work during a sweep.
SweepsAreApart ==
  {"put", "sweep"} \notin met /\ pc[Sweeper] # "idle" => \A w \in Workers : pc[w] \in {"idle", "forget"}

\* The record a Put is about to count is there, as long as neither another Put nor
\* a Delete may have taken it.
PutIsThere ==
  {"put"} \notin met /\ "delete" \notin UNION met =>
    \A w \in Workers : pc[w] = "count" => data[job[w].id] = job[w].stamp

\* What is being put has not expired, and a sweep takes only what has.
PutsAreAlive ==
  /\ \A w \in Workers : Putting(w) => expired < job[w].peer /\ job[w].peer <= job[w].stamp
  /\ job[Sweeper].now <= expired

\* A sweep that has ended left nothing to settle.
RestIsEmpty == pc[Sweeper] = "idle" => job[Sweeper].removed = 0

ApartInv == DeletesAreAlone /\ PutsAreApart /\ SweepsAreApart

CounterInv ==
  /\ CountNeverOverstates
  /\ ApartInv
  /\ PutIsThere
  /\ PutsAreAlive
  /\ RestIsEmpty

\* The workers at some stages.
At(stages) == {w \in Workers : pc[w] \in stages}

LEMMA GoIs ==
  ASSUME TypeInv, NEW w \in Threads, NEW stage, NEW j, Go(w, stage, j)
  PROVE  /\ pc'[w] = stage /\ job'[w] = IF stage = "idle" THEN Blank ELSE j
         /\ \A v \in Threads \ {w} : pc'[v] = pc[v] /\ job'[v] = job[v]
<1> DEFINE new == IF stage = "idle" THEN Blank ELSE j
<1>1. pc' = [pc EXCEPT ![w] = stage] /\ job' = [job EXCEPT ![w] = new]
  BY DEF Go
<1> HIDE DEF new
<1>2. pc'[w] = stage /\ job'[w] = new /\ \A v \in Threads \ {w} : pc'[v] = pc[v] /\ job'[v] = job[v]
  BY <1>1 DEF TypeInv, TypeOK
<1>3. QED
  BY <1>2 DEF new

\* Whoever begins leaves what was met as it was, and adds those it meets.
LEMMA MeetIs ==
  ASSUME NEW task, Meet(task)
  PROVE  /\ met \subseteq met'
         /\ \A v \in Threads : pc[v] # "idle" => {task, Task(v)} \in met'
BY DEF Meet

LEMMA AtIsFinite ==
  ASSUME NEW stages
  PROVE  IsFiniteSet(At(stages)) /\ Cardinality(At(stages)) \in Nat
<1>1. At(stages) \subseteq Workers /\ IsFiniteSet(Workers)
  BY StoreAssumption DEF At
<1>2. IsFiniteSet(At(stages))
  BY <1>1, FS_Subset
<1>3. QED
  BY <1>2, FS_CardinalityType

\* How the number of workers at some stages changes when one of them moves.
LEMMA AtMoves ==
  ASSUME TypeInv, NEW w \in Workers, NEW stage, NEW j, Go(w, stage, j), NEW stages
  PROVE  Cardinality(At(stages)') = Cardinality(At(stages)) + (IF stage \in stages THEN 1 ELSE 0)
                                                            - (IF pc[w] \in stages THEN 1 ELSE 0)
<1>1. w \in Threads /\ Workers \subseteq Threads
  BY Constants
<1>2. pc'[w] = stage /\ \A v \in Threads \ {w} : pc'[v] = pc[v]
  BY <1>1, GoIs
<1>3. At(stages)' = IF stage \in stages THEN At(stages) \cup {w} ELSE At(stages) \ {w}
  BY <1>1, <1>2 DEF At
<1>4. w \in At(stages) <=> pc[w] \in stages
  BY DEF At
<1>5. Cardinality(At(stages) \cup {w})
        = IF w \in At(stages) THEN Cardinality(At(stages)) ELSE Cardinality(At(stages)) + 1
  BY AtIsFinite, FS_AddElement
<1>6. Cardinality(At(stages) \ {w})
        = IF w \in At(stages) THEN Cardinality(At(stages)) - 1 ELSE Cardinality(At(stages))
  BY AtIsFinite, FS_RemoveElement
<1>7. PICK n \in Nat : n = Cardinality(At(stages))
  BY AtIsFinite
<1>8. CASE stage \in stages
  <2>1. Cardinality(At(stages)') = IF pc[w] \in stages THEN n ELSE n + 1
    BY <1>3, <1>4, <1>5, <1>7, <1>8
  <2>2. QED
    BY <1>7, <1>8, <2>1
<1>9. CASE stage \notin stages
  <2>1. Cardinality(At(stages)') = IF pc[w] \in stages THEN n - 1 ELSE n
    BY <1>3, <1>4, <1>6, <1>7, <1>9
  <2>2. QED
    BY <1>7, <1>9, <2>1
<1>10. QED
  BY <1>8, <1>9

LEMMA Debts ==
  /\ Uncounted = Cardinality(At({"count"}))
  /\ Unsettled = Cardinality(At({"uncount", "forget"})) + job[Sweeper].removed
<1>1. At({"count"}) = {w \in Workers : pc[w] = "count"}
  BY DEF At
<1>2. At({"uncount", "forget"}) = {w \in Workers : pc[w] \in {"uncount", "forget"}}
  BY DEF At
<1>3. QED
  BY <1>1, <1>2 DEF Uncounted, Unsettled

LEMMA DebtsAreNumbers ==
  ASSUME TypeInv
  PROVE  Uncounted \in Nat /\ Unsettled \in Nat /\ job[Sweeper].removed \in Nat
<1>1. job[Sweeper].removed \in Nat
  BY Constants, Fields DEF TypeInv, TypeOK
<1>2. Cardinality(At({"count"})) \in Nat /\ Cardinality(At({"uncount", "forget"})) \in Nat
  BY AtIsFinite
<1>3. QED
  BY <1>1, <1>2, Debts

\* What a worker's step does to what the counter has yet to learn.
LEMMA DebtsMove ==
  ASSUME TypeInv, NEW w \in Workers, NEW stage, NEW j, Go(w, stage, j)
  PROVE  /\ Uncounted' = Uncounted + (IF stage = "count" THEN 1 ELSE 0) - (IF pc[w] = "count" THEN 1 ELSE 0)
         /\ Unsettled' = Unsettled + (IF stage \in {"uncount", "forget"} THEN 1 ELSE 0)
                                   - (IF pc[w] \in {"uncount", "forget"} THEN 1 ELSE 0)
<1>1. job'[Sweeper] = job[Sweeper]
  BY GoIs, Constants
<1>2. Uncounted' = Cardinality(At({"count"})')
  <2>1. At({"count"})' = {v \in Workers : pc'[v] = "count"}
    BY DEF At
  <2>2. QED
    BY <2>1 DEF Uncounted
<1>3. Unsettled' = Cardinality(At({"uncount", "forget"})') + job'[Sweeper].removed
  <2>1. At({"uncount", "forget"})' = {v \in Workers : pc'[v] \in {"uncount", "forget"}}
    BY DEF At
  <2>2. QED
    BY <2>1 DEF Unsettled
<1>4. Uncounted' = Uncounted + (IF stage = "count" THEN 1 ELSE 0) - (IF pc[w] = "count" THEN 1 ELSE 0)
  <2>1. Cardinality(At({"count"})') = Cardinality(At({"count"})) + (IF stage \in {"count"} THEN 1 ELSE 0)
                                                                 - (IF pc[w] \in {"count"} THEN 1 ELSE 0)
    BY AtMoves
  <2>2. QED
    BY <1>2, <2>1, Debts
<1>5. PICK a \in Nat, r \in Nat : a = Cardinality(At({"uncount", "forget"})) /\ r = job[Sweeper].removed
  BY AtIsFinite, DebtsAreNumbers
<1>6. Cardinality(At({"uncount", "forget"})') = a + (IF stage \in {"uncount", "forget"} THEN 1 ELSE 0)
                                                  - (IF pc[w] \in {"uncount", "forget"} THEN 1 ELSE 0)
  BY <1>5, AtMoves
<1>7. Unsettled = a + r
  BY <1>5, Debts
<1>8. Unsettled' = Cardinality(At({"uncount", "forget"})') + r
  BY <1>1, <1>3, <1>5
<1>9. Unsettled' = Unsettled + (IF stage \in {"uncount", "forget"} THEN 1 ELSE 0)
                             - (IF pc[w] \in {"uncount", "forget"} THEN 1 ELSE 0)
  BY <1>5, <1>6, <1>7, <1>8
<1>10. QED
  BY <1>4, <1>9

\* What a step that moves no worker does to it.
LEMMA DebtsStay ==
  ASSUME TypeInv, \A w \in Workers : pc'[w] = pc[w]
  PROVE  Uncounted' = Uncounted /\ Unsettled' = Unsettled - job[Sweeper].removed + job'[Sweeper].removed
<1>1. Uncounted' = Uncounted
  BY DEF Uncounted
<1>2. {w \in Workers : pc'[w] \in {"uncount", "forget"}} = {w \in Workers : pc[w] \in {"uncount", "forget"}}
  OBVIOUS
<1>3. Unsettled' = Cardinality(At({"uncount", "forget"})) + job'[Sweeper].removed
  BY <1>2 DEF Unsettled, At
<1>4. PICK a \in Nat, r \in Nat : a = Cardinality(At({"uncount", "forget"})) /\ r = job[Sweeper].removed
  BY AtIsFinite, DebtsAreNumbers
<1>5. Unsettled = a + r
  BY <1>4, Debts
<1>6. Unsettled - r = a
  BY <1>4, <1>5
<1>7. QED
  BY <1>1, <1>3, <1>4, <1>6

LEMMA CounterInit == Init => CounterInv
<1> SUFFICES ASSUME Init PROVE CounterInv
  OBVIOUS
<1>1. (\A w \in Threads : pc[w] = "idle" /\ job[w] = Blank) /\ Workers \subseteq Threads /\ Sweeper \in Threads
  BY Constants DEF Init
<1>2. Blank.removed = 0 /\ Blank.now = NoStamp /\ NoStamp <= expired
  BY Constants DEF Blank, Init
<1>3. count <= Records - Uncounted + Unsettled
  <2>1. Records = 0
    BY FS_EmptySet DEF Init, Stored, Records
  <2>2. {w \in Workers : pc[w] = "count"} = {} /\ {w \in Workers : pc[w] \in {"uncount", "forget"}} = {}
    BY <1>1
  <2>3. Uncounted = 0 /\ Unsettled = 0
    BY <1>1, <1>2, <2>2, FS_EmptySet DEF Uncounted, Unsettled
  <2>4. count = 0
    BY DEF Init
  <2>5. QED
    BY <2>1, <2>3, <2>4
<1>4. ApartInv
  BY <1>1 DEF ApartInv, DeletesAreAlone, PutsAreApart, SweepsAreApart
<1>5. PutIsThere /\ PutsAreAlive /\ RestIsEmpty
  BY <1>1, <1>2 DEF PutIsThere, PutsAreAlive, RestIsEmpty, Putting
<1>6. QED
  BY <1>3, <1>4, <1>5 DEF CounterInv, CountNeverOverstates

\* Who goes on with a task meets nobody new.
LEMMA GoOnApart ==
  ASSUME TypeInv, ApartInv, met' = met, NEW w \in Workers, NEW stage, NEW j, Go(w, stage, j),
         pc[w] # "idle", stage # "forget", pc[w] = "forget" => stage = "idle"
  PROVE  ApartInv'
<1>1. w \in Threads /\ w # Sweeper /\ Workers \subseteq Threads /\ Sweeper \in Threads
  BY Constants
<1>2. pc'[w] = stage /\ \A v \in Threads \ {w} : pc'[v] = pc[v]
  BY <1>1, GoIs
<1>3. DeletesAreAlone'
  <2> SUFFICES ASSUME "delete" \notin UNION met, NEW v \in Workers, pc'[v] = "forget" PROVE FALSE
    BY DEF DeletesAreAlone
  <2>1. v # w /\ pc[v] = "forget"
    BY <1>1, <1>2
  <2>2. Alone(v)
    BY <2>1 DEF ApartInv, DeletesAreAlone
  <2>3. QED
    BY <1>1, <2>1, <2>2 DEF Alone
<1>4. PutsAreApart'
  <2> SUFFICES ASSUME {"put"} \notin met, NEW u \in Workers, NEW v \in Workers,
                      pc'[u] \notin {"idle", "forget"}, pc'[v] \notin {"idle", "forget"}
               PROVE  u = v
    BY DEF PutsAreApart
  <2>1. pc[u] \notin {"idle", "forget"} /\ pc[v] \notin {"idle", "forget"}
    BY <1>1, <1>2
  <2>2. QED
    BY <2>1 DEF ApartInv, PutsAreApart
<1>5. SweepsAreApart'
  <2> SUFFICES ASSUME {"put", "sweep"} \notin met, pc'[Sweeper] # "idle", NEW v \in Workers
               PROVE  pc'[v] \in {"idle", "forget"}
    BY DEF SweepsAreApart
  <2>1. \A u \in Workers : pc[u] \in {"idle", "forget"}
    BY <1>1, <1>2 DEF ApartInv, SweepsAreApart
  <2>2. QED
    BY <1>1, <1>2, <2>1
<1>6. QED
  BY <1>3, <1>4, <1>5 DEF ApartInv

\* A worker that begins.
LEMMA BeginApart ==
  ASSUME TypeInv, ApartInv, NEW w \in Workers, NEW stage, NEW j, Go(w, stage, j),
         \/ stage \in {"forget", "idle"} /\ Meet("delete")
         \/ stage = "insert" /\ Meet("put")
  PROVE  ApartInv'
<1>1. w \in Threads /\ Sweeper \notin Workers /\ Workers \subseteq Threads /\ Sweeper \in Threads
  BY Constants
<1>2. pc'[w] = stage /\ \A v \in Threads \ {w} : pc'[v] = pc[v]
  BY <1>1, GoIs
<1>3. met \subseteq met'
  BY MeetIs
<1>4. stage \in {"forget", "idle"} => \A v \in Threads : pc[v] # "idle" => "delete" \in UNION met'
  <2> SUFFICES ASSUME stage \in {"forget", "idle"}, NEW v \in Threads, pc[v] # "idle" PROVE "delete" \in UNION met'
    OBVIOUS
  <2>1. Meet("delete")
    OBVIOUS
  <2>2. {"delete", Task(v)} \in met'
    BY <2>1, MeetIs
  <2>3. QED
    BY <2>2
<1>5. stage = "insert" => \A v \in Threads : pc[v] # "idle" => {"put", Task(v)} \in met'
  BY MeetIs
<1>6. DeletesAreAlone'
  <2> SUFFICES ASSUME "delete" \notin UNION met', NEW v \in Workers, pc'[v] = "forget" PROVE Alone(v)'
    BY DEF DeletesAreAlone
  <2>1. CASE stage = "insert"
    <3>1. v # w /\ pc[v] = "forget" /\ v # Sweeper /\ v \in Threads
      BY <1>1, <1>2, <2>1
    <3>2. {"put", "delete"} \in met'
      BY <1>5, <2>1, <3>1 DEF Task
    <3>3. QED
      BY <3>2
  <2>2. CASE stage \in {"forget", "idle"}
    <3>1. \A u \in Threads : pc[u] = "idle"
      BY <1>4, <2>2
    <3>2. v = w
      BY <1>1, <1>2, <3>1
    <3>3. QED
      BY <1>2, <3>1, <3>2 DEF Alone
  <2>3. QED
    BY <2>1, <2>2
<1>7. PutsAreApart'
  <2> SUFFICES ASSUME {"put"} \notin met', NEW u \in Workers, NEW v \in Workers,
                      pc'[u] \notin {"idle", "forget"}, pc'[v] \notin {"idle", "forget"}
               PROVE  u = v
    BY DEF PutsAreApart
  <2>1. ASSUME NEW x \in Workers, x # w, pc'[x] \notin {"idle", "forget"}, stage = "insert" PROVE FALSE
    <3>1. pc[x] \notin {"idle", "forget"} /\ x \in Threads /\ x # Sweeper
      BY <1>1, <1>2, <2>1
    <3>2. {"put", "put"} \in met'
      BY <1>5, <2>1, <3>1 DEF Task
    <3>3. QED
      BY <3>2
  <2>2. CASE stage = "insert"
    BY <2>1, <2>2
  <2>3. CASE stage # "insert"
    <3>1. u # w /\ v # w
      BY <1>2, <2>3
    <3>2. pc[u] \notin {"idle", "forget"} /\ pc[v] \notin {"idle", "forget"}
      BY <1>1, <1>2, <3>1
    <3>3. QED
      BY <1>3, <3>2 DEF ApartInv, PutsAreApart
  <2>4. QED
    BY <2>2, <2>3
<1>8. SweepsAreApart'
  <2> SUFFICES ASSUME {"put", "sweep"} \notin met', pc'[Sweeper] # "idle", NEW v \in Workers
               PROVE  pc'[v] \in {"idle", "forget"}
    BY DEF SweepsAreApart
  <2>1. pc[Sweeper] # "idle" /\ Task(Sweeper) = "sweep"
    BY <1>1, <1>2 DEF Task
  <2>2. stage # "insert"
    BY <1>1, <1>5, <2>1
  <2>3. pc[v] \in {"idle", "forget"}
    BY <1>3, <2>1 DEF ApartInv, SweepsAreApart
  <2>4. QED
    BY <1>1, <1>2, <2>2, <2>3
<1>9. QED
  BY <1>6, <1>7, <1>8 DEF ApartInv

\* The sweeper, beginning or going on.
LEMMA SweepApart ==
  ASSUME TypeInv, ApartInv, NEW stage, NEW j, Go(Sweeper, stage, j),
         \/ pc[Sweeper] = "idle" /\ Meet("sweep")
         \/ pc[Sweeper] # "idle" /\ met' = met
  PROVE  ApartInv'
<1>1. Workers \subseteq Threads /\ Sweeper \in Threads /\ Sweeper \notin Workers
  BY Constants
<1>2. pc'[Sweeper] = stage /\ \A v \in Threads \ {Sweeper} : pc'[v] = pc[v]
  BY <1>1, GoIs
<1>3. met \subseteq met'
  BY MeetIs
<1>4. pc[Sweeper] = "idle" => \A v \in Threads : pc[v] # "idle" => {"sweep", Task(v)} \in met'
  BY MeetIs
<1>5. DeletesAreAlone'
  <2> SUFFICES ASSUME "delete" \notin UNION met', NEW v \in Workers, pc'[v] = "forget" PROVE FALSE
    BY DEF DeletesAreAlone
  <2>1. v # Sweeper /\ v \in Threads /\ pc[v] = "forget"
    BY <1>1, <1>2
  <2>2. Alone(v)
    BY <1>3, <2>1 DEF ApartInv, DeletesAreAlone
  <2>3. pc[Sweeper] = "idle"
    BY <1>1, <2>1, <2>2 DEF Alone
  <2>4. {"sweep", "delete"} \in met'
    BY <1>4, <2>1, <2>3 DEF Task
  <2>5. QED
    BY <2>4
<1>6. PutsAreApart'
  BY <1>1, <1>2, <1>3 DEF ApartInv, PutsAreApart
<1>7. SweepsAreApart'
  <2> SUFFICES ASSUME {"put", "sweep"} \notin met', NEW v \in Workers PROVE pc'[v] \in {"idle", "forget"}
    BY DEF SweepsAreApart
  <2>1. pc'[v] = pc[v] /\ v \in Threads /\ v # Sweeper
    BY <1>1, <1>2
  <2>2. CASE pc[Sweeper] = "idle"
    <3>1. ASSUME pc[v] \notin {"idle", "forget"} PROVE FALSE
      <4>1. {"sweep", "put"} \in met'
        BY <1>4, <2>1, <2>2, <3>1 DEF Task
      <4>2. QED
        BY <4>1
    <3>2. QED
      BY <2>1, <3>1
  <2>3. CASE pc[Sweeper] # "idle"
    BY <1>3, <2>1, <2>3 DEF ApartInv, SweepsAreApart
  <2>4. QED
    BY <2>2, <2>3
<1>8. QED
  BY <1>5, <1>6, <1>7 DEF ApartInv

\* Nothing is put that has expired, after a worker's step.
LEMMA StaysAlive ==
  ASSUME TypeInv, PutsAreAlive, RestIsEmpty, expired' = expired, NEW w \in Workers, NEW stage, NEW j, Go(w, stage, j),
         stage \in {"insert", "count"} => expired < j.peer /\ j.peer <= j.stamp
  PROVE  PutsAreAlive' /\ RestIsEmpty'
<1>1. w \in Threads /\ w # Sweeper /\ Workers \subseteq Threads /\ Sweeper \in Threads
  BY Constants
<1>2. /\ pc'[w] = stage /\ job'[w] = IF stage = "idle" THEN Blank ELSE j
      /\ \A v \in Threads \ {w} : pc'[v] = pc[v] /\ job'[v] = job[v]
  BY <1>1, GoIs
<1>3. ASSUME NEW v \in Workers, Putting(v)' PROVE expired' < job'[v].peer /\ job'[v].peer <= job'[v].stamp
  <2>1. CASE v = w
    <3>1. stage \in {"insert", "count"} /\ job'[v] = j
      BY <1>2, <1>3, <2>1 DEF Putting
    <3>2. QED
      BY <3>1
  <2>2. CASE v # w
    <3>1. Putting(v) /\ job'[v] = job[v]
      BY <1>1, <1>2, <1>3, <2>2 DEF Putting
    <3>2. QED
      BY <3>1 DEF PutsAreAlive
  <2>3. QED
    BY <2>1, <2>2
<1>4. job'[Sweeper] = job[Sweeper] /\ pc'[Sweeper] = pc[Sweeper]
  BY <1>1, <1>2
<1>5. PutsAreAlive'
  BY <1>3, <1>4 DEF PutsAreAlive
<1>6. RestIsEmpty'
  BY <1>4 DEF RestIsEmpty
<1>7. QED
  BY <1>5, <1>6

\* What CountNeverOverstates excludes: a Delete that met something, or Puts that met
\* each other in a store where a Put also met a sweep.
Accident ==
  \/ "delete" \in UNION met
  \/ {{"put"}, {"put", "sweep"}} \subseteq met

Truthful == count <= Records - Uncounted + Unsettled

\* It is enough that the counter stays truthful while no accident happens, and an
\* accident does not go away.
LEMMA StaysTruthful ==
  ASSUME CountNeverOverstates, met \subseteq met', ~ Accident' /\ ~ Accident /\ Truthful => Truthful'
  PROVE  CountNeverOverstates'
<1>1. Accident => Accident'
  BY DEF Accident
<1>2. Accident \/ Truthful
  BY DEF CountNeverOverstates, Accident, Truthful
<1>3. Accident' \/ Truthful'
  BY <1>1, <1>2
<1>4. QED
  BY <1>3 DEF CountNeverOverstates, Accident, Truthful

\* A worker's step after which the counter owes as much as before, or less.
LEMMA NothingLost ==
  ASSUME TypeInv, CountNeverOverstates, met \subseteq met', NEW w \in Workers, NEW stage, NEW j, Go(w, stage, j),
         NEW n \in Int, NEW m \in Int, count' = count + n, Records' = Records + m,
         n + (IF stage = "count" THEN 1 ELSE 0) - (IF pc[w] = "count" THEN 1 ELSE 0)
           <= m + (IF stage \in {"uncount", "forget"} THEN 1 ELSE 0) - (IF pc[w] \in {"uncount", "forget"} THEN 1 ELSE 0)
  PROVE  CountNeverOverstates'
<1>1. ASSUME Truthful PROVE Truthful'
  <2> DEFINE c1 == IF stage = "count" THEN 1 ELSE 0
             c0 == IF pc[w] = "count" THEN 1 ELSE 0
             s1 == IF stage \in {"uncount", "forget"} THEN 1 ELSE 0
             s0 == IF pc[w] \in {"uncount", "forget"} THEN 1 ELSE 0
  <2>1. Uncounted' = Uncounted + c1 - c0 /\ Unsettled' = Unsettled + s1 - s0
    BY DebtsMove
  <2>2. n + c1 - c0 <= m + s1 - s0
    OBVIOUS
  <2>3. c1 \in Int /\ c0 \in Int /\ s1 \in Int /\ s0 \in Int
    OBVIOUS
  <2> HIDE DEF c1, c0, s1, s0
  <2>4. Uncounted \in Int /\ Unsettled \in Int /\ Records \in Int /\ count \in Int
    BY DebtsAreNumbers, StoredIsFinite DEF TypeInv, TypeOK
  <2>5. PICK U \in Int, S \in Int, R \in Int, c \in Int : U = Uncounted /\ S = Unsettled /\ R = Records /\ c = count
    BY <2>4
  <2>6. c <= R - U + S
    BY <1>1, <2>5 DEF Truthful
  <2>7. c + n <= (R + m) - (U + c1 - c0) + (S + s1 - s0)
    BY <2>2, <2>3, <2>5, <2>6
  <2>8. QED
    BY <2>1, <2>5, <2>7 DEF Truthful
<1>2. QED
  BY <1>1, StaysTruthful

\* One step each of a worker.
LEMMA BeginPutCounts ==
  ASSUME TypeInv, CounterInv, NEW w \in Workers, BeginPut(w)
  PROVE  CounterInv'
<1> DEFINE peers == {job[v].stamp : v \in {v \in Workers : Putting(v)}} \cup {puts + 1}
<1>1. /\ pc[w] = "idle" /\ puts' = puts + 1 /\ Meet("put")
      /\ data' = data /\ count' = count /\ expired' = expired
  BY DEF BeginPut
<1>p. PICK id \in Ids : \E peer \in peers :
        /\ \A other \in peers : peer <= other
        /\ Go(w, "insert", [Blank EXCEPT !.id = id, !.stamp = puts + 1, !.peer = peer])
  BY Zenon DEF BeginPut
<1>2. PICK peer \in peers :
        /\ \A other \in peers : peer <= other
        /\ Go(w, "insert", [Blank EXCEPT !.id = id, !.stamp = puts + 1, !.peer = peer])
  BY <1>p, Zenon
<1>3. PICK j : j = [Blank EXCEPT !.id = id, !.stamp = puts + 1, !.peer = peer]
  OBVIOUS
<1>4. Go(w, "insert", j) /\ j.peer = peer /\ j.stamp = puts + 1
  BY <1>2, <1>3 DEF Blank
<1>5. puts \in Nat /\ expired \in Nat /\ expired <= puts
  BY Constants DEF TypeInv, TypeOK
<1>6. expired < peer
  <2>1. ASSUME NEW v \in Workers, Putting(v) PROVE expired < job[v].stamp
    <3>1. expired < job[v].peer /\ job[v].peer <= job[v].stamp
      BY <2>1 DEF CounterInv, PutsAreAlive
    <3>2. job[v].peer \in Nat /\ job[v].stamp \in Nat
      BY Fields, Constants DEF TypeInv, TypeOK
    <3>3. QED
      BY <1>5, <3>1, <3>2
  <2>2. expired < puts + 1
    BY <1>5
  <2>3. QED
    BY <2>1, <2>2
<1>7. peer <= puts + 1
  BY <1>2
<1>8. met \subseteq met'
  BY <1>1, MeetIs
<1>9. CountNeverOverstates'
  <2>1. count' = count + 0 /\ Records' = Records + 0
    BY <1>1, SameRecords, StoredIsFinite DEF TypeInv, TypeOK
  <2>2. QED
    BY <1>1, <1>4, <1>8, <2>1, NothingLost DEF CounterInv
<1>10. ApartInv'
  BY <1>1, <1>4, BeginApart DEF CounterInv
<1>11. PutIsThere'
  <2> SUFFICES ASSUME {"put"} \notin met', "delete" \notin UNION met', NEW v \in Workers, pc'[v] = "count"
               PROVE  data'[job'[v].id] = job'[v].stamp
    BY DEF PutIsThere
  <2>1. v # w /\ pc[v] = "count" /\ job'[v] = job[v]
    BY <1>4, GoIs, Constants
  <2>2. QED
    BY <1>1, <1>8, <2>1 DEF CounterInv, PutIsThere
<1>12. PutsAreAlive' /\ RestIsEmpty'
  BY <1>1, <1>4, <1>6, <1>7, StaysAlive DEF CounterInv
<1>13. QED
  BY <1>9, <1>10, <1>11, <1>12 DEF CounterInv

\* A worker that leaves the records alone and goes on to anything but a count.
LEMMA LeavesRecords ==
  ASSUME TypeInv, CounterInv, data' = data, met \subseteq met', NEW w \in Workers, NEW stage, NEW j, Go(w, stage, j),
         stage # "count"
  PROVE  PutIsThere'
<1> SUFFICES ASSUME {"put"} \notin met', "delete" \notin UNION met', NEW v \in Workers, pc'[v] = "count"
             PROVE  data'[job'[v].id] = job'[v].stamp
  BY DEF PutIsThere
<1>1. v # w /\ pc[v] = "count" /\ job'[v] = job[v]
  BY GoIs, Constants
<1>2. QED
  BY <1>1 DEF CounterInv, PutIsThere

\* A Put that meets no other is the only one at its stage.
LEMMA OnlyPut ==
  ASSUME ApartInv, {"put"} \notin met, NEW w \in Workers, pc[w] \notin {"idle", "forget"},
         NEW v \in Workers, pc[v] = "count"
  PROVE  v = w
BY DEF ApartInv, PutsAreApart

LEMMA InsertCounts ==
  ASSUME TypeInv, CounterInv, NEW w \in Workers, Insert(w)
  PROVE  CounterInv'
<1> DEFINE id == job[w].id
           stage == IF id \in Stored THEN "idle" ELSE "count"
<1>1. /\ pc[w] = "insert" /\ data' = [data EXCEPT ![id] = job[w].stamp] /\ Go(w, stage, job[w])
      /\ count' = count /\ met' = met /\ expired' = expired
  BY DEF Insert
<1>2. w \in Threads /\ job[w] \in Job /\ id \in Ids /\ data \in [Ids -> 0..puts]
  BY Constants, Fields DEF TypeInv, TypeOK
<1>3. expired < job[w].peer /\ job[w].peer <= job[w].stamp
  BY <1>1 DEF CounterInv, PutsAreAlive, Putting
<1>4. job[w].stamp # NoStamp
  <2>1. job[w].peer \in Nat /\ job[w].stamp \in Nat /\ expired \in Nat
    BY <1>2, Fields, Constants DEF TypeInv, TypeOK
  <2>2. QED
    BY <1>3, <2>1, Constants
<1>5. Records' = IF id \in Stored THEN Records ELSE Records + 1
  BY <1>1, <1>2, <1>4, OneMore
<1>6. CountNeverOverstates'
  <2>1. count' = count + 0 /\ Records \in Int /\ count \in Int
    BY <1>1, StoredIsFinite DEF TypeInv, TypeOK
  <2>2. CASE id \in Stored
    <3>1. Go(w, "idle", job[w]) /\ Records' = Records + 0
      BY <1>1, <1>5, <2>1, <2>2
    <3>2. QED
      BY <1>1, <2>1, <3>1, NothingLost DEF CounterInv
  <2>3. CASE id \notin Stored
    <3>1. Go(w, "count", job[w]) /\ Records' = Records + 1
      BY <1>1, <1>5, <2>3
    <3>2. QED
      BY <1>1, <2>1, <3>1, NothingLost DEF CounterInv
  <2>4. QED
    BY <2>2, <2>3
<1>7. stage \in {"idle", "count"}
  OBVIOUS
<1> HIDE DEF stage
<1>8. ApartInv'
  BY <1>1, <1>7, GoOnApart DEF CounterInv
<1>9. PutIsThere'
  <2> SUFFICES ASSUME {"put"} \notin met, "delete" \notin UNION met, NEW v \in Workers, pc'[v] = "count"
               PROVE  data'[job'[v].id] = job'[v].stamp
    BY <1>1 DEF PutIsThere
  <2>1. ASSUME v # w PROVE FALSE
    <3>1. pc[v] = "count"
      BY <1>1, <1>2, <2>1, GoIs, Constants
    <3>2. QED
      BY <1>1, <2>1, <3>1, OnlyPut DEF CounterInv
  <2>2. stage = "count" /\ job'[v] = job[w]
    BY <1>1, <1>2, <1>7, <2>1, GoIs
  <2>3. QED
    BY <1>1, <1>2, <2>2
<1>10. PutsAreAlive' /\ RestIsEmpty'
  BY <1>1, <1>3, StaysAlive DEF CounterInv
<1>11. QED
  BY <1>6, <1>8, <1>9, <1>10 DEF CounterInv

\* A worker that goes on, leaving the records alone, to none of the stages that rely
\* on others.
LEMMA GoesOn ==
  ASSUME TypeInv, CounterInv, data' = data, expired' = expired, met' = met,
         NEW w \in Workers, NEW stage, NEW j, Go(w, stage, j),
         pc[w] # "idle", stage \notin {"insert", "count", "forget"}, pc[w] = "forget" => stage = "idle",
         CountNeverOverstates'
  PROVE  CounterInv'
<1>1. ApartInv'
  BY GoOnApart DEF CounterInv
<1>2. PutIsThere'
  BY LeavesRecords
<1>3. PutsAreAlive' /\ RestIsEmpty'
  BY StaysAlive DEF CounterInv
<1>4. QED
  BY <1>1, <1>2, <1>3 DEF CounterInv

LEMMA CountCounts ==
  ASSUME TypeInv, CounterInv, NEW w \in Workers, Count(w)
  PROVE  CounterInv'
<1>1. /\ pc[w] = "count" /\ count' = count + 1 /\ data' = data /\ expired' = expired /\ met' = met
      /\ Go(w, IF count + 1 > MaxRecords THEN "scan" ELSE "idle", Blank)
  BY DEF Count
<1>2. PICK stage \in {"scan", "idle"} : Go(w, stage, Blank)
  BY <1>1
<1>3. Records' = Records + 0
  BY <1>1, SameRecords, StoredIsFinite
<1>4. CountNeverOverstates'
  BY <1>1, <1>2, <1>3, NothingLost DEF CounterInv
<1>5. QED
  BY <1>1, <1>2, <1>4, GoesOn

LEMMA ScanCounts ==
  ASSUME TypeInv, CounterInv, NEW w \in Workers, Scan(w)
  PROVE  CounterInv'
<1> DEFINE s == job[w].shard
           better == {id \in OldestIn(s) : /\ id # EmptyId
                                           /\ job[w].best = NoStamp \/ data[id] < job[w].best}
           seen == IF better = {} THEN job[w]
                   ELSE LET id == CHOOSE id \in better : TRUE
                        IN  [job[w] EXCEPT !.victim = id, !.best = data[id]]
           at == IF s < NumShards THEN "scan" ELSE IF seen.best = NoStamp THEN "idle" ELSE "evict"
           after == [seen EXCEPT !.shard = s + 1]
<1>0. pc[w] = "scan" /\ Go(w, at, after) /\ UNCHANGED <<data, count, puts, expired, met>>
  BY DEF Scan
<1>1. pc[w] = "scan" /\ data' = data /\ count' = count /\ expired' = expired /\ met' = met
  BY <1>0
<1>2. at \in {"scan", "idle", "evict"}
  OBVIOUS
<1> HIDE DEF at, after
<1>3. PICK stage, j : stage = at /\ j = after
  OBVIOUS
<1>i. stage \in {"scan", "idle", "evict"}
  BY <1>2, <1>3
<1>g. Go(w, stage, j)
  BY <1>0, <1>3
<1>4. count' = count + 0 /\ Records' = Records + 0
  BY <1>1, SameRecords, StoredIsFinite DEF TypeInv, TypeOK
<1>5. CountNeverOverstates'
  BY <1>1, <1>i, <1>g, <1>4, NothingLost DEF CounterInv
<1>6. QED
  BY <1>1, <1>i, <1>g, <1>5, GoesOn

LEMMA EvictCounts ==
  ASSUME TypeInv, CounterInv, NEW w \in Workers, Evict(w)
  PROVE  CounterInv'
<1> DEFINE gone == job[w].victim
<1>1. /\ pc[w] = "evict" /\ data' = [data EXCEPT ![gone] = NoStamp] /\ Go(w, "uncount", Blank)
      /\ count' = count /\ expired' = expired /\ met' = met
  BY DEF Evict
<1>2. gone \in Ids
  BY Constants, Fields DEF TypeInv, TypeOK
<1>3. Records' = IF gone \in Stored THEN Records - 1 ELSE Records
  BY <1>1, <1>2, OneLess
<1> HIDE DEF gone
<1>4. CountNeverOverstates'
  <2>1. count' = count + 0 /\ Records \in Int
    BY <1>1, StoredIsFinite DEF TypeInv, TypeOK
  <2>2. CASE gone \in Stored
    <3>1. Records' = Records + (-1)
      BY <1>3, <2>1, <2>2
    <3>2. QED
      BY <1>1, <2>1, <3>1, NothingLost DEF CounterInv
  <2>3. CASE gone \notin Stored
    <3>1. Records' = Records + 0
      BY <1>3, <2>1, <2>3
    <3>2. QED
      BY <1>1, <2>1, <3>1, NothingLost DEF CounterInv
  <2>4. QED
    BY <2>2, <2>3
<1>5. ApartInv'
  BY <1>1, GoOnApart DEF CounterInv
<1>6. PutIsThere'
  <2> SUFFICES ASSUME {"put"} \notin met, NEW v \in Workers, pc'[v] = "count" PROVE FALSE
    BY <1>1 DEF PutIsThere
  <2>1. v # w /\ pc[v] = "count"
    BY <1>1, GoIs, Constants
  <2>2. QED
    BY <1>1, <2>1, OnlyPut DEF CounterInv
<1>7. PutsAreAlive' /\ RestIsEmpty'
  BY <1>1, StaysAlive DEF CounterInv
<1>8. QED
  BY <1>4, <1>5, <1>6, <1>7 DEF CounterInv

LEMMA UncountCounts ==
  ASSUME TypeInv, CounterInv, NEW w \in Workers, Uncount(w)
  PROVE  CounterInv'
<1>1. /\ pc[w] = "uncount" /\ count' = count - 1 /\ data' = data /\ expired' = expired /\ met' = met
      /\ Go(w, "idle", Blank)
  BY DEF Uncount
<1>2. count' = count + (-1) /\ Records' = Records + 0
  BY <1>1, SameRecords, StoredIsFinite DEF TypeInv, TypeOK
<1>3. CountNeverOverstates'
  BY <1>1, <1>2, NothingLost DEF CounterInv
<1>4. QED
  BY <1>1, <1>3, GoesOn

LEMMA BeginDeleteCounts ==
  ASSUME TypeInv, CounterInv, NEW w \in Workers, BeginDelete(w)
  PROVE  CounterInv'
<1>1. pc[w] = "idle" /\ count' = count /\ expired' = expired /\ Meet("delete")
  BY DEF BeginDelete
<1>2. PICK id \in Ids : data' = [data EXCEPT ![id] = NoStamp] /\ Go(w, IF id \in Stored THEN "forget" ELSE "idle", Blank)
  BY DEF BeginDelete
<1>3. Records' = IF id \in Stored THEN Records - 1 ELSE Records
  BY <1>2, OneLess
<1>4. PICK stage \in {"forget", "idle"} : Go(w, stage, Blank) /\ (stage = "forget" <=> id \in Stored)
  BY <1>2
<1>5. met \subseteq met'
  BY <1>1, MeetIs
<1>6. CountNeverOverstates'
  <2>1. count' = count + 0 /\ Records \in Int
    BY <1>1, StoredIsFinite DEF TypeInv, TypeOK
  <2>2. CASE id \in Stored
    <3>1. Records' = Records + (-1) /\ stage = "forget"
      BY <1>3, <1>4, <2>1, <2>2
    <3>2. QED
      BY <1>1, <1>4, <1>5, <2>1, <3>1, NothingLost DEF CounterInv
  <2>3. CASE id \notin Stored
    <3>1. Records' = Records + 0 /\ stage = "idle"
      BY <1>3, <1>4, <2>1, <2>3
    <3>2. QED
      BY <1>1, <1>4, <1>5, <2>1, <3>1, NothingLost DEF CounterInv
  <2>4. QED
    BY <2>2, <2>3
<1>7. ApartInv'
  BY <1>1, <1>4, BeginApart DEF CounterInv
<1>8. PutIsThere'
  <2> SUFFICES ASSUME "delete" \notin UNION met', NEW v \in Workers, pc'[v] = "count" PROVE FALSE
    BY DEF PutIsThere
  <2>1. v \in Threads /\ pc[v] = "count"
    BY <1>4, GoIs, Constants
  <2>2. {"delete", Task(v)} \in met'
    BY <1>1, <2>1, MeetIs
  <2>3. QED
    BY <2>2
<1>9. PutsAreAlive' /\ RestIsEmpty'
  BY <1>1, <1>4, StaysAlive DEF CounterInv
<1>10. QED
  BY <1>6, <1>7, <1>8, <1>9 DEF CounterInv

\* A Delete counts down to zero at the least; alone, it has nothing else to count.
LEMMA ForgetCounts ==
  ASSUME TypeInv, CounterInv, NEW w \in Workers, Forget(w)
  PROVE  CounterInv'
<1>1. /\ pc[w] = "forget" /\ count' = Floor(count - 1) /\ data' = data /\ expired' = expired /\ met' = met
      /\ Go(w, "idle", Blank)
  BY DEF Forget
<1>2. Uncounted' = Uncounted /\ Unsettled' = Unsettled - 1
  <2>1. PICK U \in Nat, S \in Nat : U = Uncounted /\ S = Unsettled
    BY DebtsAreNumbers
  <2>2. Uncounted' = U + 0 - 0 /\ Unsettled' = S + 0 - 1
    BY <1>1, <2>1, DebtsMove
  <2>3. QED
    BY <2>1, <2>2
<1>3. PICK R \in Nat, U \in Nat, S \in Nat, c \in Int : R = Records /\ U = Uncounted /\ S = Unsettled /\ c = count
  BY StoredIsFinite, DebtsAreNumbers DEF TypeInv, TypeOK
<1>4. S >= 1
  <2>1. w \in At({"uncount", "forget"})
    BY <1>1 DEF At
  <2>2. Cardinality(At({"uncount", "forget"})) # 0
    BY <2>1, AtIsFinite, FS_EmptySet
  <2>3. PICK a \in Nat, r \in Nat : a = Cardinality(At({"uncount", "forget"})) /\ r = job[Sweeper].removed
    BY AtIsFinite, DebtsAreNumbers
  <2>4. S = a + r /\ a # 0
    BY <1>3, <2>2, <2>3, Debts
  <2>5. QED
    BY <2>3, <2>4
<1>5. ASSUME ~ Accident', ~ Accident, Truthful PROVE Truthful'
  <2>1. Alone(w)
    BY <1>1, <1>5 DEF CounterInv, ApartInv, DeletesAreAlone, Accident
  <2>2. At({"count"}) = {}
    BY <1>1, <2>1, Constants DEF At, Alone
  <2>3. U = 0
    BY <1>3, <2>2, Debts, FS_EmptySet
  <2>4. c <= R - U + S
    BY <1>3, <1>5 DEF Truthful
  <2>5. Floor(c - 1) <= R - U + (S - 1)
    BY <1>3, <1>4, <2>3, <2>4 DEF Floor
  <2>6. Records' = R
    BY <1>1, <1>3, SameRecords
  <2>7. QED
    BY <1>1, <1>2, <1>3, <2>5, <2>6 DEF Truthful
<1>6. CountNeverOverstates'
  BY <1>1, <1>5, StaysTruthful DEF CounterInv
<1>7. QED
  BY <1>1, <1>6, GoesOn

\* The sweeper's step leaves the workers where they are.
LEMMA SweeperMoves ==
  ASSUME TypeInv, NEW stage, NEW j, Go(Sweeper, stage, j)
  PROVE  /\ \A w \in Workers : pc'[w] = pc[w] /\ job'[w] = job[w]
         /\ pc'[Sweeper] = stage /\ job'[Sweeper] = IF stage = "idle" THEN Blank ELSE j
BY GoIs, Constants

\* After the sweeper's step what is put is alive, as long as the sweep works by a time
\* that has passed.
LEMMA SweptStaysAlive ==
  ASSUME TypeInv, PutsAreAlive, expired' = expired, NEW stage, NEW j, Go(Sweeper, stage, j), j.now <= expired
  PROVE  PutsAreAlive' /\ RestIsEmpty'
<1>1. /\ \A w \in Workers : pc'[w] = pc[w] /\ job'[w] = job[w]
      /\ pc'[Sweeper] = stage /\ job'[Sweeper] = IF stage = "idle" THEN Blank ELSE j
  BY SweeperMoves
<1>2. Blank.removed = 0 /\ Blank.now = 0
  BY Constants DEF Blank
<1>3. job'[Sweeper].now <= expired'
  <2>1. expired \in Nat
    BY Constants DEF TypeInv, TypeOK
  <2>2. 0 <= expired
    BY <2>1
  <2>3. QED
    BY <1>1, <1>2, <2>2
<1>4. \A w \in Workers : Putting(w)' => Putting(w)
  BY <1>1 DEF Putting
<1>5. PutsAreAlive'
  BY <1>1, <1>3, <1>4 DEF PutsAreAlive
<1>6. RestIsEmpty'
  BY <1>1, <1>2 DEF RestIsEmpty
<1>7. QED
  BY <1>5, <1>6

LEMMA BeginSweepCounts ==
  ASSUME TypeInv, CounterInv, BeginSweep
  PROVE  CounterInv'
<1>1. PICK j : j = [Blank EXCEPT !.now = expired]
  OBVIOUS
<1>2. /\ pc[Sweeper] = "idle" /\ Go(Sweeper, "sweep", j) /\ data' = data /\ count' = count /\ expired' = expired
      /\ Meet("sweep") /\ j.now = expired /\ j.removed = 0
  BY <1>1 DEF BeginSweep, Blank
<1>3. /\ \A w \in Workers : pc'[w] = pc[w] /\ job'[w] = job[w]
      /\ job'[Sweeper] = j
  BY <1>2, SweeperMoves
<1>4. met \subseteq met'
  BY <1>2, MeetIs
<1>5. CountNeverOverstates'
  <2>1. job[Sweeper].removed = 0
    BY <1>2 DEF CounterInv, RestIsEmpty
  <2>2. Uncounted' = Uncounted /\ Unsettled' = Unsettled - 0 + 0
    BY <1>2, <1>3, <2>1, DebtsStay
  <2>3. Unsettled' = Unsettled
    BY <2>2, DebtsAreNumbers
  <2>4. Records' = Records
    BY <1>2, SameRecords
  <2>5. Truthful => Truthful'
    BY <1>2, <2>2, <2>3, <2>4 DEF Truthful
  <2>6. QED
    BY <1>4, <2>5, StaysTruthful DEF CounterInv
<1>6. ApartInv'
  BY <1>2, SweepApart DEF CounterInv
<1>7. PutIsThere'
  BY <1>2, <1>3, <1>4 DEF CounterInv, PutIsThere
<1>8. PutsAreAlive' /\ RestIsEmpty'
  <2>1. j.now <= expired
    BY <1>2, Constants DEF TypeInv, TypeOK
  <2>2. QED
    BY <1>2, <2>1, SweptStaysAlive DEF CounterInv
<1>9. QED
  BY <1>5, <1>6, <1>7, <1>8 DEF CounterInv

LEMMA SweepCounts ==
  ASSUME TypeInv, CounterInv, Sweep
  PROVE  CounterInv'
<1> DEFINE s == job[Sweeper].shard
           gone == {id \in Stored : ShardOf[id] = s /\ data[id] <= job[Sweeper].now}
           removed == job[Sweeper].removed + Cardinality(gone)
           at == IF s < NumShards THEN "sweep" ELSE IF removed > 0 THEN "settle" ELSE "idle"
           after == [job[Sweeper] EXCEPT !.shard = s + 1, !.removed = removed]
<1>1. pc[Sweeper] = "sweep" /\ Go(Sweeper, at, after) /\ count' = count /\ expired' = expired /\ met' = met
  BY DEF Sweep
<1>2. data' = [id \in Ids |-> IF id \in gone THEN NoStamp ELSE data[id]]
  BY DEF Sweep
<1>3. job[Sweeper] \in Job /\ job[Sweeper].removed \in Nat
  BY Constants, Fields DEF TypeInv, TypeOK
<1>4. gone \subseteq Stored /\ Stored' = Stored \ gone
  BY <1>2 DEF Stored
<1>5. after.removed = removed /\ after.now = job[Sweeper].now
  BY <1>3 DEF Job
<1>6. ASSUME NEW id \in gone PROVE id \in Ids /\ data[id] <= job[Sweeper].now
  BY DEF Stored
<1> HIDE DEF gone
<1>7. Cardinality(Stored \ gone) = Cardinality(Stored) - Cardinality(Stored \cap gone)
  BY StoredIsFinite, FS_Difference
<1>8. Stored \cap gone = gone
  BY <1>4
<1>9. Records' = Records - Cardinality(gone)
  BY <1>4, <1>7, <1>8 DEF Records
<1>10. IsFiniteSet(gone)
  BY <1>4, StoredIsFinite, FS_Subset
<1>11. PICK k \in Nat : k = Cardinality(gone)
  BY <1>10, FS_CardinalityType
<1>12. PICK r \in Nat, R \in Nat, U \in Nat, S \in Nat, c \in Int :
         r = job[Sweeper].removed /\ R = Records /\ U = Uncounted /\ S = Unsettled /\ c = count
  BY <1>3, StoredIsFinite, DebtsAreNumbers DEF TypeInv, TypeOK
<1>13. removed = r + k
  BY <1>11, <1>12
<1>14. at \in {"sweep", "settle", "idle"} /\ (at = "idle" => removed = 0)
  BY <1>12, <1>13
<1> HIDE DEF removed, at, after
<1>15. job'[Sweeper].removed = r + k
  <2>1. job'[Sweeper] = IF at = "idle" THEN Blank ELSE after
    BY <1>1, SweeperMoves
  <2>2. CASE at = "idle"
    BY <1>13, <1>14, <2>1, <2>2 DEF Blank
  <2>3. CASE at # "idle"
    BY <1>5, <1>13, <2>1, <2>3
  <2>4. QED
    BY <2>2, <2>3
<1>16. CountNeverOverstates'
  <2>1. \A w \in Workers : pc'[w] = pc[w]
    BY <1>1, SweeperMoves
  <2>2. Uncounted' = U /\ Unsettled' = S - r + (r + k)
    BY <1>12, <1>15, <2>1, DebtsStay
  <2>3. Records' = R - k
    BY <1>9, <1>11, <1>12
  <2>4. Truthful => c <= R - U + S
    BY <1>12 DEF Truthful
  <2>5. c <= R - U + S => c <= (R - k) - U + (S - r + (r + k))
    BY <1>11, <1>12
  <2>6. Truthful => Truthful'
    BY <1>1, <1>12, <2>2, <2>3, <2>4, <2>5 DEF Truthful
  <2>7. QED
    BY <1>1, <2>6, StaysTruthful DEF CounterInv
<1>17. ApartInv'
  BY <1>1, SweepApart DEF CounterInv
<1>18. PutIsThere'
  <2> SUFFICES ASSUME {"put"} \notin met, "delete" \notin UNION met, NEW w \in Workers, pc'[w] = "count"
               PROVE  data'[job'[w].id] = job'[w].stamp
    BY <1>1 DEF PutIsThere
  <2>1. pc[w] = "count" /\ job'[w] = job[w]
    BY <1>1, SweeperMoves
  <2>2. data[job[w].id] = job[w].stamp
    BY <1>1, <2>1 DEF CounterInv, PutIsThere
  <2>3. job[w] \in Job /\ job[w].id \in Ids
    BY Constants, Fields DEF TypeInv, TypeOK
  <2>4. job[w].id \notin gone
    <3>1. expired < job[w].peer /\ job[w].peer <= job[w].stamp /\ job[Sweeper].now <= expired
      BY <2>1 DEF CounterInv, PutsAreAlive, Putting
    <3>2. job[w].peer \in Nat /\ job[w].stamp \in Nat /\ job[Sweeper].now \in Nat /\ expired \in Nat
      BY <1>3, <2>3, Fields, Constants DEF TypeInv, TypeOK
    <3>3. ~ (job[w].stamp <= job[Sweeper].now)
      BY <3>1, <3>2
    <3>4. QED
      BY <1>6, <2>2, <3>3
  <2>5. QED
    BY <1>2, <2>1, <2>2, <2>3, <2>4
<1>19. PutsAreAlive' /\ RestIsEmpty'
  <2>1. after.now <= expired
    BY <1>5 DEF CounterInv, PutsAreAlive
  <2>2. QED
    BY <1>1, <2>1, SweptStaysAlive DEF CounterInv
<1>20. QED
  BY <1>16, <1>17, <1>18, <1>19 DEF CounterInv

\* A sweep, too, counts down to zero at the least: there is no more for the counter to
\* have yet than there are records.
LEMMA UncountedIsStored ==
  ASSUME TypeInv, CounterInv, ~ Accident, pc[Sweeper] # "idle"
  PROVE  Uncounted <= Records
<1>1. CASE \A w \in Workers : pc[w] # "count"
  <2>1. At({"count"}) = {}
    BY <1>1 DEF At
  <2>2. Uncounted = 0
    BY <2>1, Debts, FS_EmptySet
  <2>3. QED
    BY <2>2, StoredIsFinite
<1>2. CASE \E w \in Workers : pc[w] = "count"
  <2>1. PICK w \in Workers : pc[w] = "count"
    BY <1>2
  <2>2. {"put", "sweep"} \in met
    BY <2>1 DEF CounterInv, ApartInv, SweepsAreApart
  <2>3. {"put"} \notin met /\ "delete" \notin UNION met
    BY <2>2 DEF Accident
  <2>4. At({"count"}) = {w}
    BY <2>1, <2>3 DEF CounterInv, ApartInv, PutsAreApart, At
  <2>5. Uncounted = 1
    BY <2>4, Debts, FS_Singleton
  <2>6. data[job[w].id] = job[w].stamp
    BY <2>1, <2>3 DEF CounterInv, PutIsThere
  <2>7. job[w].stamp # NoStamp /\ job[w].id \in Ids
    <3>1. expired < job[w].peer /\ job[w].peer <= job[w].stamp
      BY <2>1 DEF CounterInv, PutsAreAlive, Putting
    <3>2. job[w].peer \in Nat /\ job[w].stamp \in Nat /\ expired \in Nat /\ job[w].id \in Ids
      BY Fields, Constants DEF TypeInv, TypeOK
    <3>3. QED
      BY <3>1, <3>2, Constants
  <2>8. job[w].id \in Stored
    BY <2>6, <2>7 DEF Stored
  <2>9. Records # 0
    BY <2>8, StoredIsFinite, FS_EmptySet DEF Records
  <2>10. QED
    BY <2>5, <2>9, StoredIsFinite
<1>3. QED
  BY <1>1, <1>2

LEMMA SettleCounts ==
  ASSUME TypeInv, CounterInv, Settle
  PROVE  CounterInv'
<1>1. /\ pc[Sweeper] = "settle" /\ Go(Sweeper, "idle", Blank) /\ data' = data /\ expired' = expired /\ met' = met
      /\ count' = Floor(count - job[Sweeper].removed)
  BY DEF Settle
<1>2. PICK r \in Nat, R \in Nat, U \in Nat, S \in Nat, c \in Int :
        r = job[Sweeper].removed /\ R = Records /\ U = Uncounted /\ S = Unsettled /\ c = count
  BY StoredIsFinite, DebtsAreNumbers DEF TypeInv, TypeOK
<1>3. \A w \in Workers : pc'[w] = pc[w] /\ job'[w] = job[w]
  BY <1>1, SweeperMoves
<1>4. job'[Sweeper].removed = 0
  BY <1>1, SweeperMoves DEF Blank
<1>5. Uncounted' = U /\ Unsettled' = S - r + 0
  BY <1>2, <1>3, <1>4, DebtsStay
<1>6. S >= r
  <2>1. PICK a \in Nat : a = Cardinality(At({"uncount", "forget"}))
    BY AtIsFinite
  <2>2. S = a + r
    BY <1>2, <2>1, Debts
  <2>3. QED
    BY <1>2, <2>1, <2>2
<1>7. ASSUME ~ Accident', ~ Accident, Truthful PROVE Truthful'
  <2>1. U <= R
    BY <1>1, <1>2, <1>7, UncountedIsStored
  <2>2. c <= R - U + S
    BY <1>2, <1>7 DEF Truthful
  <2>3. Floor(c - r) <= R - U + (S - r + 0)
    BY <1>2, <1>6, <2>1, <2>2 DEF Floor
  <2>4. Records' = R
    BY <1>1, <1>2, SameRecords
  <2>5. QED
    BY <1>1, <1>2, <1>5, <2>3, <2>4 DEF Truthful
<1>8. CountNeverOverstates'
  BY <1>1, <1>7, StaysTruthful DEF CounterInv
<1>9. ApartInv'
  BY <1>1, SweepApart DEF CounterInv
<1>10. PutIsThere'
  BY <1>1, <1>3 DEF CounterInv, PutIsThere
<1>11. PutsAreAlive' /\ RestIsEmpty'
  <2>1. Blank.now <= expired
    <3>1. expired \in Nat
      BY Constants DEF TypeInv, TypeOK
    <3>2. Blank.now = 0
      BY Constants DEF Blank
    <3>3. QED
      BY <3>1, <3>2
  <2>2. QED
    BY <1>1, <2>1, SweptStaysAlive DEF CounterInv
<1>12. QED
  BY <1>8, <1>9, <1>10, <1>11 DEF CounterInv

\* A step that leaves the threads, the records and the counter as they are.
LEMMA NothingCounts ==
  ASSUME TypeInv, CounterInv, UNCHANGED <<data, count, pc, job, met>>, PutsAreAlive'
  PROVE  CounterInv'
<1>1. Records' = Records
  BY SameRecords
<1>2. Uncounted' = Uncounted /\ Unsettled' = Unsettled
  BY DEF Uncounted, Unsettled
<1>3. CountNeverOverstates'
  BY <1>1, <1>2 DEF CounterInv, CountNeverOverstates
<1>4. ApartInv'
  BY DEF CounterInv, ApartInv, DeletesAreAlone, PutsAreApart, SweepsAreApart, Alone
<1>5. PutIsThere' /\ RestIsEmpty'
  BY DEF CounterInv, PutIsThere, RestIsEmpty
<1>6. QED
  BY <1>3, <1>4, <1>5 DEF CounterInv

LEMMA TickCounts ==
  ASSUME TypeInv, CounterInv, Tick
  PROVE  CounterInv'
<1>1. /\ expired' = expired + 1 /\ UNCHANGED <<data, count, pc, job, met>>
      /\ \A w \in Workers : Putting(w) => job[w].peer > expired + 1
  BY DEF Tick
<1>2. expired \in Nat /\ \A w \in Threads : job[w].peer \in Nat /\ job[w].now \in Nat
  BY Fields, Constants DEF TypeInv, TypeOK
<1>3. PutsAreAlive'
  <2>1. ASSUME NEW w \in Workers, Putting(w)' PROVE expired' < job'[w].peer /\ job'[w].peer <= job'[w].stamp
    <3>1. Putting(w) /\ job'[w] = job[w] /\ w \in Threads
      BY <1>1, <2>1, Constants DEF Putting
    <3>2. job[w].peer <= job[w].stamp
      BY <3>1 DEF CounterInv, PutsAreAlive
    <3>3. expired' < job[w].peer
      BY <1>1, <1>2, <3>1
    <3>4. QED
      BY <3>1, <3>2, <3>3
  <2>2. job'[Sweeper].now <= expired'
    <3>1. job[Sweeper].now <= expired
      BY DEF CounterInv, PutsAreAlive
    <3>2. job[Sweeper].now \in Nat
      BY <1>2, Constants
    <3>3. QED
      BY <1>1, <1>2, <3>1, <3>2
  <2>3. QED
    BY <2>1, <2>2 DEF PutsAreAlive
<1>4. QED
  BY <1>1, <1>3, NothingCounts

LEMMA CounterNext == TypeInv /\ CounterInv /\ [Next]_vars => CounterInv'
<1> SUFFICES ASSUME TypeInv, CounterInv, [Next]_vars PROVE CounterInv'
  OBVIOUS
<1>1. ASSUME NEW w \in Workers, Work(w) PROVE CounterInv'
  BY <1>1, BeginPutCounts, InsertCounts, CountCounts, ScanCounts, EvictCounts, UncountCounts, BeginDeleteCounts,
     ForgetCounts
     DEF Work
<1>2. CASE BeginSweep \/ Sweep \/ Settle
  BY <1>2, BeginSweepCounts, SweepCounts, SettleCounts
<1>3. CASE Tick
  BY <1>3, TickCounts
<1>4. CASE UNCHANGED vars
  <2>1. UNCHANGED <<data, count, pc, job, met, expired>>
    BY <1>4 DEF vars
  <2>2. PutsAreAlive'
    BY <2>1 DEF CounterInv, PutsAreAlive, Putting
  <2>3. QED
    BY <2>1, <2>2, NothingCounts
<1>5. QED
  BY <1>1, <1>2, <1>3, <1>4 DEF Next

\* With any number of requests and a sweep under way the counter never shows more
\* records than there are, so evictOldest never makes room in a store that is not
\* full, unless a Delete has met another task, or Puts have met each other where a Put
\* has met a sweep.
THEOREM CounterIsNeverHigh == Spec => []CountNeverOverstates
<1>1. CounterInv => CountNeverOverstates
  BY DEF CounterInv
<1>2. QED
  BY <1>1, CounterInit, CounterNext, AlwaysTyped, PTL DEF Spec
=============================================================================
