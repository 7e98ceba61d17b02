--------------------------- MODULE LimiterProofs ---------------------------
(***************************************************************************)
(* No place of the limiter is lost or given twice, for any number of       *)
(* handlers and any limits.                                                *)
(***************************************************************************)
EXTENDS Limiter, FiniteSetTheorems, TLAPS

\* Who stands in a queue is there once, and waits.
QueuesHoldWaiters ==
  /\ \A i \in DOMAIN queue : pc[queue[i]] = "queue"
  /\ \A i \in DOMAIN heavyQueue : pc[heavyQueue[i]] = "heavyQueue"

\* Only large texts pass by the heavy semaphore.
HeavyPathIsHeavy ==
  \A h \in Handlers : pc[h] \in {"askHeavy", "heavyQueue", "back"} => heavy[h]

\* Nobody stands in the queue of a semaphore that has room.
QueuedOnlyWhenFull ==
  /\ queue # <<>> => sem = Inflight
  /\ heavyQueue # <<>> => heavySem = HeavyInflight

PlacesInv ==
  /\ TypeOK
  /\ QueuesHoldWaiters
  /\ HeavyPathIsHeavy
  /\ PlacesMatchHolders
  /\ QueuedOnlyWhenFull

-----------------------------------------------------------------------------
(* Sets of handlers.                                                        *)

LEMMA OneMore ==
  ASSUME NEW S \in SUBSET Handlers, NEW h \in Handlers, h \notin S
  PROVE  Cardinality(S \cup {h}) = Cardinality(S) + 1
BY LimitsAssumption, FS_Subset, FS_AddElement

LEMMA OneLess ==
  ASSUME NEW S \in SUBSET Handlers, NEW h \in S
  PROVE  /\ Cardinality(S) > 0
         /\ Cardinality(S \ {h}) = Cardinality(S) - 1
<1>1. IsFiniteSet(S)
  BY LimitsAssumption, FS_Subset
<1>2. Cardinality(S) \in Nat /\ Cardinality(S) # 0
  BY <1>1, FS_CardinalityType, FS_EmptySet
<1>3. Cardinality(S) > 0
  BY <1>2
<1>4. Cardinality(S \ {h}) = Cardinality(S) - 1
  BY <1>1, FS_RemoveElement
<1>5. QED
  BY <1>3, <1>4

\* One goes out and another comes in.
LEMMA OneForAnother ==
  ASSUME NEW S \in SUBSET Handlers, NEW g \in S, NEW h \in Handlers \ S
  PROVE  Cardinality((S \ {g}) \cup {h}) = Cardinality(S)
<1>1. Cardinality(S \ {g}) = Cardinality(S) - 1
  BY OneLess
<1>2. Cardinality((S \ {g}) \cup {h}) = Cardinality(S \ {g}) + 1
  BY OneMore
<1>3. Cardinality(S) \in Nat
  BY LimitsAssumption, FS_Subset, FS_CardinalityType
<1>4. QED
  BY <1>1, <1>2, <1>3

-----------------------------------------------------------------------------
(* Queues.                                                                  *)

LEMMA Joined ==
  ASSUME NEW q \in Seq(Handlers), NoRepeats(q), NEW h \in Handlers,
         \A i \in DOMAIN q : q[i] # h
  PROVE  /\ Append(q, h) \in Seq(Handlers)
         /\ NoRepeats(Append(q, h))
         /\ Append(q, h) # <<>>
         /\ \A i \in DOMAIN Append(q, h) : Append(q, h)[i] = h \/ \E j \in DOMAIN q : Append(q, h)[i] = q[j]
BY DEF NoRepeats

LEMMA Served ==
  ASSUME NEW q \in Seq(Handlers), NoRepeats(q), q # <<>>
  PROVE  /\ Head(q) \in Handlers
         /\ 1 \in DOMAIN q /\ Head(q) = q[1]
         /\ Tail(q) \in Seq(Handlers)
         /\ NoRepeats(Tail(q))
         /\ \A i \in DOMAIN Tail(q) : Tail(q)[i] # Head(q) /\ \E j \in DOMAIN q : Tail(q)[i] = q[j]
<1>1. Head(q) \in Handlers /\ 1 \in DOMAIN q /\ Head(q) = q[1] /\ Tail(q) \in Seq(Handlers)
  OBVIOUS
<1>2. \A i \in DOMAIN Tail(q) : i + 1 \in DOMAIN q /\ Tail(q)[i] = q[i + 1] /\ i \in Nat \ {0}
  OBVIOUS
<1>3. QED
  BY <1>1, <1>2 DEF NoRepeats

LEMMA Gone ==
  ASSUME NEW q \in Seq(Handlers), NoRepeats(q), NEW i \in DOMAIN q
  PROVE  /\ Without(q, i) \in Seq(Handlers)
         /\ NoRepeats(Without(q, i))
         /\ \A j \in DOMAIN Without(q, i) :
              Without(q, i)[j] # q[i] /\ \E k \in DOMAIN q : Without(q, i)[j] = q[k]
         /\ Without(q, i) # <<>> => q # <<>>
<1> DEFINE w == Without(q, i)
           At(j) == IF j < i THEN j ELSE j + 1
<1>1. Len(q) \in Nat /\ DOMAIN q = 1..Len(q) /\ i \in 1..Len(q)
  OBVIOUS
<1>2. DOMAIN w = 1..(Len(q) - 1) /\ \A j \in 1..(Len(q) - 1) : w[j] = q[At(j)]
  BY DEF Without
<1>3. \A j \in 1..(Len(q) - 1) : At(j) \in DOMAIN q /\ At(j) # i
  BY <1>1
<1>4. \A j, k \in 1..(Len(q) - 1) : At(j) = At(k) => j = k
  BY <1>1
<1>5. w \in Seq(Handlers)
  <2>1. \A j \in DOMAIN w : w[j] \in Handlers
    BY <1>1, <1>2, <1>3
  <2>2. w = [j \in 1..(Len(q) - 1) |-> w[j]]
    BY DEF Without
  <2>3. QED
    BY <1>1, <1>2, <2>1, <2>2
<1>6. \A j \in DOMAIN w : w[j] # q[i] /\ \E k \in DOMAIN q : w[j] = q[k]
  BY <1>2, <1>3 DEF NoRepeats
<1>7. NoRepeats(w)
  BY <1>2, <1>3, <1>4 DEF NoRepeats
<1>8. QED
  BY <1>1, <1>5, <1>6, <1>7

-----------------------------------------------------------------------------
LEMMA InitPlaces == Init => PlacesInv
<1> SUFFICES ASSUME Init PROVE PlacesInv
  OBVIOUS
<1>1. TypeOK
  BY LimitsAssumption DEF Init, TypeOK, Stages, NoRepeats
<1>2. Working = {} /\ HoldingHeavy = {}
  BY DEF Init, Working, HoldingHeavy
<1>3. QED
  BY <1>1, <1>2, FS_EmptySet
  DEF Init, PlacesInv, QueuesHoldWaiters, HeavyPathIsHeavy, PlacesMatchHolders, QueuedOnlyWhenFull

LEMMA NextPlaces == PlacesInv /\ [Next]_vars => PlacesInv'
<1> SUFFICES ASSUME PlacesInv, [Next]_vars PROVE PlacesInv'
  OBVIOUS
<1> USE DEF PlacesInv
<1>a. Working \subseteq Handlers /\ HoldingHeavy \subseteq Handlers
  BY DEF Working, HoldingHeavy
<1>b. sem \in Nat /\ heavySem \in Nat /\ Inflight \in Nat \ {0} /\ HeavyInflight \in Nat \ {0}
  BY LimitsAssumption DEF TypeOK
<1>1. ASSUME NEW h \in Handlers, Arrive(h) PROVE PlacesInv'
  <2>1. Working' = Working /\ HoldingHeavy' = HoldingHeavy
    BY <1>1 DEF Arrive, Goto, TypeOK, Working, HoldingHeavy
  <2>2. TypeOK' /\ QueuesHoldWaiters' /\ HeavyPathIsHeavy'
    BY <1>1 DEF Arrive, Goto, TypeOK, Stages, QueuesHoldWaiters, HeavyPathIsHeavy, NoRepeats
  <2>3. QED
    BY <1>1, <2>1, <2>2 DEF Arrive, PlacesMatchHolders, QueuedOnlyWhenFull
<1>2. ASSUME NEW h \in Handlers, AskHeavy(h) PROVE PlacesInv'
  <2>0. heavy[h] /\ pc[h] = "askHeavy" /\ Working' = Working
    BY <1>2 DEF AskHeavy, Goto, TypeOK, HeavyPathIsHeavy, Working
  <2>1. CASE heavySem < HeavyInflight
    <3>1. h \notin HoldingHeavy /\ HoldingHeavy' = HoldingHeavy \cup {h}
      BY <1>2, <2>0, <2>1, <1>b DEF AskHeavy, Goto, TypeOK, HoldingHeavy
    <3>2. Cardinality(HoldingHeavy') = Cardinality(HoldingHeavy) + 1
      BY <3>1, <1>a, OneMore
    <3>3. TypeOK' /\ QueuesHoldWaiters' /\ HeavyPathIsHeavy'
      BY <1>2, <2>0, <2>1, <1>b DEF AskHeavy, Goto, TypeOK, Stages, QueuesHoldWaiters, HeavyPathIsHeavy, NoRepeats
    <3>4. QED
      BY <1>2, <1>b, <2>0, <2>1, <3>2, <3>3 DEF AskHeavy, PlacesMatchHolders, QueuedOnlyWhenFull
  <2>2. CASE heavySem = HeavyInflight
    <3>1. HoldingHeavy' = HoldingHeavy
      BY <1>2, <2>0, <2>2, <1>b DEF AskHeavy, Goto, TypeOK, HoldingHeavy
    <3>2. /\ heavyQueue' = Append(heavyQueue, h)
          /\ pc' = [pc EXCEPT ![h] = "heavyQueue"]
          /\ UNCHANGED <<heavy, sem, heavySem, queue>>
      BY <1>2, <2>2, <1>b DEF AskHeavy, Goto
    <3>3. \A i \in DOMAIN heavyQueue : heavyQueue[i] # h
      BY <2>0 DEF QueuesHoldWaiters
    <3>4. heavyQueue' \in Seq(Handlers) /\ NoRepeats(heavyQueue')
      BY <3>2, <3>3, Joined DEF TypeOK
    <3>5. TypeOK'
      BY <3>2, <3>4 DEF TypeOK, Stages, NoRepeats
    <3>6. QueuesHoldWaiters'
      BY <2>0, <3>2, <3>3, Joined DEF TypeOK, QueuesHoldWaiters
    <3>7. HeavyPathIsHeavy'
      BY <2>0, <3>2 DEF TypeOK, HeavyPathIsHeavy
    <3>8. QED
      BY <2>0, <2>2, <3>1, <3>2, <3>5, <3>6, <3>7 DEF PlacesMatchHolders, QueuedOnlyWhenFull
  <2>3. QED
    BY <1>2, <2>1, <2>2 DEF AskHeavy
<1>3. ASSUME NEW h \in Handlers, Ask(h) PROVE PlacesInv'
  <2>0. pc[h] = "ask" /\ HoldingHeavy' = HoldingHeavy
    BY <1>3 DEF Ask, Goto, TypeOK, HoldingHeavy
  <2>1. CASE sem < Inflight
    <3>1. h \notin Working /\ Working' = Working \cup {h}
      BY <1>3, <2>0, <2>1, <1>b DEF Ask, Goto, TypeOK, Working
    <3>2. Cardinality(Working') = Cardinality(Working) + 1
      BY <3>1, <1>a, OneMore
    <3>3. TypeOK' /\ QueuesHoldWaiters' /\ HeavyPathIsHeavy'
      BY <1>3, <2>0, <2>1, <1>b DEF Ask, Goto, TypeOK, Stages, QueuesHoldWaiters, HeavyPathIsHeavy, NoRepeats
    <3>4. QED
      BY <1>3, <1>b, <2>0, <2>1, <3>2, <3>3 DEF Ask, PlacesMatchHolders, QueuedOnlyWhenFull
  <2>2. CASE sem = Inflight
    <3>1. Working' = Working
      BY <1>3, <2>0, <2>2, <1>b DEF Ask, Goto, TypeOK, Working
    <3>2. /\ queue' = Append(queue, h)
          /\ pc' = [pc EXCEPT ![h] = "queue"]
          /\ UNCHANGED <<heavy, sem, heavySem, heavyQueue>>
      BY <1>3, <2>2, <1>b DEF Ask, Goto
    <3>3. \A i \in DOMAIN queue : queue[i] # h
      BY <2>0 DEF QueuesHoldWaiters
    <3>4. queue' \in Seq(Handlers) /\ NoRepeats(queue')
      BY <3>2, <3>3, Joined DEF TypeOK
    <3>5. TypeOK'
      BY <3>2, <3>4 DEF TypeOK, Stages, NoRepeats
    <3>6. QueuesHoldWaiters'
      BY <2>0, <3>2, <3>3, Joined DEF TypeOK, QueuesHoldWaiters
    <3>7. HeavyPathIsHeavy'
      BY <2>0, <3>2 DEF TypeOK, HeavyPathIsHeavy
    <3>8. QED
      BY <2>0, <2>2, <3>1, <3>2, <3>5, <3>6, <3>7 DEF PlacesMatchHolders, QueuedOnlyWhenFull
  <2>3. QED
    BY <1>3, <2>1, <2>2 DEF Ask
<1>4. ASSUME NEW h \in Handlers, GiveUpHeavy(h) PROVE PlacesInv'
  <2>1. PICK i \in DOMAIN heavyQueue : heavyQueue[i] = h /\ heavyQueue' = Without(heavyQueue, i)
    BY <1>4 DEF GiveUpHeavy
  <2>2. Working' = Working /\ HoldingHeavy' = HoldingHeavy
    BY <1>4 DEF GiveUpHeavy, Goto, TypeOK, Working, HoldingHeavy
  <2>3. /\ heavyQueue' \in Seq(Handlers)
        /\ NoRepeats(heavyQueue')
        /\ \A j \in DOMAIN heavyQueue' : heavyQueue'[j] # h /\ \E k \in DOMAIN heavyQueue : heavyQueue'[j] = heavyQueue[k]
        /\ heavyQueue' # <<>> => heavyQueue # <<>>
    BY <2>1, Gone DEF TypeOK
  <2>4. TypeOK' /\ HeavyPathIsHeavy'
    BY <1>4, <2>3 DEF GiveUpHeavy, Goto, TypeOK, Stages, HeavyPathIsHeavy, NoRepeats
  <2>5. QueuesHoldWaiters'
    BY <1>4, <2>3 DEF GiveUpHeavy, Goto, TypeOK, QueuesHoldWaiters
  <2>6. QED
    BY <1>4, <2>2, <2>3, <2>4, <2>5 DEF GiveUpHeavy, PlacesMatchHolders, QueuedOnlyWhenFull
<1>5. ASSUME NEW h \in Handlers, GiveUp(h) PROVE PlacesInv'
  <2>1. PICK i \in DOMAIN queue : queue[i] = h /\ queue' = Without(queue, i)
    BY <1>5 DEF GiveUp
  <2>2. Working' = Working /\ HoldingHeavy' = HoldingHeavy
    BY <1>5 DEF GiveUp, Goto, TypeOK, Working, HoldingHeavy
  <2>3. /\ queue' \in Seq(Handlers)
        /\ NoRepeats(queue')
        /\ \A j \in DOMAIN queue' : queue'[j] # h /\ \E k \in DOMAIN queue : queue'[j] = queue[k]
        /\ queue' # <<>> => queue # <<>>
    BY <2>1, Gone DEF TypeOK
  <2>4. TypeOK' /\ HeavyPathIsHeavy'
    BY <1>5, <2>3 DEF GiveUp, Goto, TypeOK, Stages, HeavyPathIsHeavy, NoRepeats
  <2>5. QueuesHoldWaiters'
    BY <1>5, <2>3 DEF GiveUp, Goto, TypeOK, QueuesHoldWaiters
  <2>6. QED
    BY <1>5, <2>2, <2>3, <2>4, <2>5 DEF GiveUp, PlacesMatchHolders, QueuedOnlyWhenFull
<1>6. ASSUME NEW h \in Handlers, Leave(h) PROVE PlacesInv'
  <2>0. h \in Working /\ Cardinality(Working) > 0 /\ Cardinality(Working \ {h}) = Cardinality(Working) - 1
    BY <1>6, <1>a, OneLess DEF Leave, Working
  <2>1. CASE queue = <<>>
    <3>1. Working' = Working \ {h} /\ HoldingHeavy' = HoldingHeavy
      BY <1>6, <2>1 DEF Leave, Goto, TypeOK, Working, HoldingHeavy
    <3>2. TypeOK' /\ QueuesHoldWaiters' /\ HeavyPathIsHeavy'
      BY <1>6, <1>b, <2>0, <2>1 DEF Leave, Goto, TypeOK, Stages, QueuesHoldWaiters, HeavyPathIsHeavy, NoRepeats, PlacesMatchHolders
    <3>3. QED
      BY <1>6, <2>0, <2>1, <3>1, <3>2 DEF Leave, PlacesMatchHolders, QueuedOnlyWhenFull
  <2>2. CASE queue # <<>>
    <3> DEFINE g == Head(queue)
    <3>1. /\ pc' = [pc EXCEPT ![h] = IF heavy[h] THEN "back" ELSE "out", ![g] = "inside"]
          /\ queue' = Tail(queue)
          /\ UNCHANGED <<heavy, sem, heavySem, heavyQueue>>
      BY <1>6, <2>2 DEF Leave
    <3>2. /\ g \in Handlers
          /\ pc[g] = "queue"
          /\ Tail(queue) \in Seq(Handlers)
          /\ NoRepeats(Tail(queue))
          /\ \A i \in DOMAIN Tail(queue) : Tail(queue)[i] # g /\ \E j \in DOMAIN queue : Tail(queue)[i] = queue[j]
      BY <2>2, Served DEF TypeOK, QueuesHoldWaiters
    <3> HIDE DEF g
    <3>3. g # h /\ g \notin Working
      BY <2>0, <3>2 DEF Working
    <3>4. Working' = (Working \ {h}) \cup {g}
      BY <3>1, <3>2, <3>3 DEF TypeOK, Working
    <3>5. HoldingHeavy' = HoldingHeavy
      BY <1>6, <3>1, <3>2, <3>3 DEF Leave, TypeOK, HoldingHeavy
    <3>6. Cardinality(Working') = Cardinality(Working)
      BY <2>0, <3>2, <3>3, <3>4, <1>a, OneForAnother
    <3>7. TypeOK' /\ HeavyPathIsHeavy'
      BY <3>1, <3>2, <3>3 DEF TypeOK, Stages, HeavyPathIsHeavy, NoRepeats
    <3>8. QueuesHoldWaiters'
      BY <1>6, <3>1, <3>2, <3>3 DEF Leave, TypeOK, QueuesHoldWaiters
    <3>9. QED
      BY <2>2, <3>1, <3>5, <3>6, <3>7, <3>8 DEF PlacesMatchHolders, QueuedOnlyWhenFull
  <2>3. QED
    BY <2>1, <2>2
<1>7. ASSUME NEW h \in Handlers, LeaveHeavy(h) PROVE PlacesInv'
  <2>0. /\ h \in HoldingHeavy
        /\ Cardinality(HoldingHeavy) > 0
        /\ Cardinality(HoldingHeavy \ {h}) = Cardinality(HoldingHeavy) - 1
    BY <1>7, <1>a, OneLess DEF LeaveHeavy, HoldingHeavy, HeavyPathIsHeavy
  <2>1. CASE heavyQueue = <<>>
    <3>1. HoldingHeavy' = HoldingHeavy \ {h} /\ Working' = Working
      BY <1>7, <2>1 DEF LeaveHeavy, Goto, TypeOK, Working, HoldingHeavy
    <3>2. TypeOK' /\ QueuesHoldWaiters' /\ HeavyPathIsHeavy'
      BY <1>7, <1>b, <2>0, <2>1 DEF LeaveHeavy, Goto, TypeOK, Stages, QueuesHoldWaiters, HeavyPathIsHeavy, NoRepeats, PlacesMatchHolders
    <3>3. QED
      BY <1>7, <2>0, <2>1, <3>1, <3>2 DEF LeaveHeavy, PlacesMatchHolders, QueuedOnlyWhenFull
  <2>2. CASE heavyQueue # <<>>
    <3> DEFINE g == Head(heavyQueue)
    <3>1. /\ pc' = [pc EXCEPT ![h] = "out", ![g] = "ask"]
          /\ heavyQueue' = Tail(heavyQueue)
          /\ UNCHANGED <<heavy, sem, heavySem, queue>>
      BY <1>7, <2>2 DEF LeaveHeavy
    <3>2. /\ g \in Handlers
          /\ pc[g] = "heavyQueue"
          /\ Tail(heavyQueue) \in Seq(Handlers)
          /\ NoRepeats(Tail(heavyQueue))
          /\ \A i \in DOMAIN Tail(heavyQueue) :
               Tail(heavyQueue)[i] # g /\ \E j \in DOMAIN heavyQueue : Tail(heavyQueue)[i] = heavyQueue[j]
      BY <2>2, Served DEF TypeOK, QueuesHoldWaiters
    <3> HIDE DEF g
    <3>3. g # h /\ g \notin HoldingHeavy /\ heavy[g]
      BY <2>0, <3>2 DEF HoldingHeavy, HeavyPathIsHeavy
    <3>4. HoldingHeavy' = (HoldingHeavy \ {h}) \cup {g}
      BY <3>1, <3>2, <3>3 DEF TypeOK, HoldingHeavy
    <3>5. Working' = Working
      BY <1>7, <3>1, <3>2, <3>3 DEF LeaveHeavy, TypeOK, Working
    <3>6. Cardinality(HoldingHeavy') = Cardinality(HoldingHeavy)
      BY <2>0, <3>2, <3>3, <3>4, <1>a, OneForAnother
    <3>7. TypeOK' /\ HeavyPathIsHeavy'
      BY <3>1, <3>2, <3>3 DEF TypeOK, Stages, HeavyPathIsHeavy, NoRepeats
    <3>8. QueuesHoldWaiters'
      BY <1>7, <3>1, <3>2, <3>3 DEF LeaveHeavy, TypeOK, QueuesHoldWaiters
    <3>9. QED
      BY <2>2, <3>1, <3>5, <3>6, <3>7, <3>8 DEF PlacesMatchHolders, QueuedOnlyWhenFull
  <2>3. QED
    BY <2>1, <2>2
<1>8. ASSUME UNCHANGED vars PROVE PlacesInv'
  BY <1>8 DEF vars, TypeOK, QueuesHoldWaiters, HeavyPathIsHeavy, PlacesMatchHolders, QueuedOnlyWhenFull,
              Working, HoldingHeavy, NoRepeats
<1>9. QED
  BY <1>1, <1>2, <1>3, <1>4, <1>5, <1>6, <1>7, <1>8 DEF Next, Proceed

LEMMA AlwaysPlaces == Spec => []PlacesInv
BY InitPlaces, NextPlaces, PTL DEF Spec

-----------------------------------------------------------------------------
\* Every place taken in a semaphore of acquire belongs to one request, and no
\* path out of it keeps or returns one too many.
THEOREM NoPlaceIsLost == Spec => []PlacesMatchHolders
<1>1. PlacesInv => PlacesMatchHolders
  BY DEF PlacesInv
<1>2. QED
  BY <1>1, AlwaysPlaces, PTL

\* A large text at work has a heavy place.
LEMMA LargeAtWork ==
  ASSUME PlacesInv
  PROVE  /\ {h \in Working : heavy[h]} \subseteq Handlers
         /\ Cardinality({h \in Working : heavy[h]}) \in Nat
         /\ Cardinality({h \in Working : heavy[h]}) <= HeavyInflight
<1>1. {h \in Working : heavy[h]} \subseteq HoldingHeavy /\ HoldingHeavy \subseteq Handlers
  BY DEF Working, HoldingHeavy
<1>2. /\ Cardinality({h \in Working : heavy[h]}) \in Nat
      /\ Cardinality({h \in Working : heavy[h]}) <= Cardinality(HoldingHeavy)
  BY <1>1, LimitsAssumption, FS_Subset, FS_CardinalityType
<1>3. Cardinality(HoldingHeavy) \in 0..HeavyInflight
  BY DEF PlacesInv, TypeOK, PlacesMatchHolders
<1>4. QED
  BY <1>1, <1>2, <1>3, LimitsAssumption

\* Large texts leave a place for the others when limits.heavy_inflight is less
\* than limits.inflight.
THEOREM HeavyTextsLeaveRoom == Spec => []HeavyLeavesRoom
<1>1. PlacesInv => HeavyLeavesRoom
  BY LargeAtWork, LimitsAssumption DEF HeavyLeavesRoom
<1>2. QED
  BY <1>1, AlwaysPlaces, PTL

\* The comment of acquire: whoever waits for a common place waits for ordinary texts
\* being served, on all the places but those the heavy limit gives to large texts.
THEOREM LargeTextsHinderOnlyTheirLike == Spec => []OrdinaryTextsGoOn
<1>1. ASSUME PlacesInv, queue # <<>>
      PROVE  Cardinality({h \in Working : ~heavy[h]}) + HeavyInflight >= Inflight
  <2> DEFINE Large == {h \in Working : heavy[h]}
             Ordinary == {h \in Working : ~heavy[h]}
  <2>1. /\ Large \subseteq Handlers /\ Ordinary \subseteq Handlers
        /\ Large \cup Ordinary = Working /\ Large \cap Ordinary = {}
    BY DEF Working
  <2>2. Cardinality(Large) \in Nat /\ Cardinality(Large) <= HeavyInflight
    BY <1>1, LargeAtWork
  <2>3. Cardinality(Working) = Inflight
    BY <1>1 DEF PlacesInv, PlacesMatchHolders, QueuedOnlyWhenFull
  <2> HIDE DEF Large, Ordinary
  <2>4. IsFiniteSet(Large) /\ IsFiniteSet(Ordinary)
    BY <2>1, LimitsAssumption, FS_Subset
  <2>5. Cardinality(Ordinary) \in Nat
    BY <2>4, FS_CardinalityType
  <2>6. Cardinality(Large \cap Ordinary) = 0
    BY <2>1, FS_EmptySet
  <2>7. Cardinality(Working) = Cardinality(Large) + Cardinality(Ordinary) - Cardinality(Large \cap Ordinary)
    BY <2>1, <2>4, FS_Union
  <2>8. Cardinality(Ordinary) + HeavyInflight >= Inflight
    BY <2>2, <2>3, <2>5, <2>6, <2>7, LimitsAssumption
  <2>9. QED
    BY <2>8 DEF Ordinary
<1>2. PlacesInv => OrdinaryTextsGoOn
  BY <1>1 DEF OrdinaryTextsGoOn
<1>3. QED
  BY <1>2, AlwaysPlaces, PTL

\* Every variable of the limiter keeps its type: no counter of places goes below zero
\* or over its limit, whoever gives up waiting.
THEOREM PlacesAreTyped == Spec => []TypeOK
<1>1. PlacesInv => TypeOK
  BY DEF PlacesInv
<1>2. QED
  BY <1>1, AlwaysPlaces, PTL
=============================================================================
