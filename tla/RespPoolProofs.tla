--------------------------- MODULE RespPoolProofs ---------------------------
(***************************************************************************)
(* The pool of connections to Redis loses no place, shares no connection   *)
(* and reuses none that is out of step, for any size and any callers.      *)
(***************************************************************************)
EXTENDS RespPool, FiniteSetTheorems, TLAPS

WithConn == {"use", "release", "return", "discard"}

\* A call holds a connection between the moment it gets it and its return or
\* discard.
HoldsWhenItShould ==
  \A c \in Callers : held[c] # NoConn <=> pc[c] \in WithConn

\* An answer may be late only on an open connection that is to be discarded.
LateGoesAway ==
  /\ idle \subseteq live
  /\ late \subseteq live
  /\ \A c \in Callers : pc[c] \in WithConn \ {"discard"} => held[c] \notin late

\* Close drains a pool that is closed.
DrainsWhenClosed == closer = "draining" => closed

PoolInv ==
  /\ TypeOK
  /\ DrainsWhenClosed
  /\ HoldsWhenItShould
  /\ OneUserPerConnection
  /\ LateGoesAway
  /\ IdleInStep
  /\ PlacesAccountedFor

-----------------------------------------------------------------------------
LEMMA OneMore ==
  ASSUME NEW S, NEW x, IsFiniteSet(S), x \notin S
  PROVE  Cardinality(S \cup {x}) = Cardinality(S) + 1
BY FS_AddElement

LEMMA OneLess ==
  ASSUME NEW S, NEW x \in S, IsFiniteSet(S)
  PROVE  Cardinality(S \ {x}) = Cardinality(S) - 1
BY FS_RemoveElement

\* What the places are counted with.
LEMMA Counted ==
  ASSUME TypeOK
  PROVE  /\ IsFiniteSet(live) /\ IsFiniteSet(Owing) /\ IsFiniteSet(idle)
         /\ Cardinality(live) \in Nat /\ Cardinality(Owing) \in Nat /\ Cardinality(idle) \in Nat
         /\ permits \in Nat /\ PoolSize \in Nat \ {0}
<1>1. live \subseteq Conns /\ Owing \subseteq Callers /\ idle \subseteq Conns
  BY DEF TypeOK, Owing
<1>2. IsFiniteSet(live) /\ IsFiniteSet(Owing) /\ IsFiniteSet(idle)
  BY <1>1, PoolAssumption, FS_Subset
<1>3. Cardinality(live) \in Nat /\ Cardinality(Owing) \in Nat /\ Cardinality(idle) \in Nat
  BY <1>2, FS_CardinalityType
<1>4. permits \in Nat /\ PoolSize \in Nat \ {0}
  BY PoolAssumption DEF TypeOK
<1>5. QED
  BY <1>2, <1>3, <1>4

LEMMA InitPool == Init => PoolInv
<1> SUFFICES ASSUME Init PROVE PoolInv
  OBVIOUS
<1>1. TypeOK
  <2>1. permits \in 0..PoolSize
    BY PoolAssumption DEF Init
  <2>2. pc \in [Callers -> Stages] /\ held \in [Callers -> Conns \cup {NoConn}]
    BY DEF Init, Stages
  <2>3. QED
    BY <2>1, <2>2 DEF Init, TypeOK
<1>2. Owing = {} /\ live = {}
  BY DEF Init, Owing
<1>3. PlacesAccountedFor
  <2>1. Cardinality(Owing) = 0 /\ Cardinality(live) = 0
    BY <1>2, FS_EmptySet
  <2>2. permits = PoolSize /\ PoolSize \in Nat
    BY PoolAssumption DEF Init
  <2>3. QED
    BY <2>1, <2>2 DEF PlacesAccountedFor
<1>4. QED
  BY <1>1, <1>3 DEF Init, PoolInv, DrainsWhenClosed, HoldsWhenItShould, WithConn, OneUserPerConnection, LateGoesAway, IdleInStep

-----------------------------------------------------------------------------
(* Who holds what.                                                          *)

Custody ==
  TypeOK /\ DrainsWhenClosed /\ HoldsWhenItShould /\ OneUserPerConnection /\ LateGoesAway /\ IdleInStep

LEMMA NextCustody ==
  ASSUME PoolInv, [Next]_vars
  PROVE  Custody'
<1> USE DEF PoolInv
<1> USE DEF DrainsWhenClosed, HoldsWhenItShould, WithConn, OneUserPerConnection, LateGoesAway, IdleInStep
<1>c. PoolSize \in Nat \ {0} /\ permits \in 0..PoolSize /\ NoConn \notin Conns
  BY PoolAssumption DEF TypeOK
<1>1. ASSUME NEW c \in Callers, Call(c) PROVE Custody'
  BY <1>1 DEF Call, Goto, Custody, TypeOK, Stages
<1>2. ASSUME NEW c \in Callers, TakeIdle(c) PROVE Custody'
  <2>1. PICK k \in idle : idle' = idle \ {k} /\ held' = [held EXCEPT ![c] = k]
    BY <1>2 DEF TakeIdle, Hold
  <2>2. k \in Conns /\ k # NoConn /\ k \notin late /\ k \in live
    BY <1>c DEF TypeOK
  <2>3. \A d \in Callers : held[d] # k
    BY <2>2
  <2>4. TypeOK'
    BY <1>2, <2>1, <2>2 DEF TakeIdle, Goto, TypeOK, Stages
  <2>5. QED
    BY <1>2, <2>1, <2>2, <2>3, <2>4 DEF TakeIdle, Goto, Custody, TypeOK
<1>3. ASSUME NEW c \in Callers, NoneIdle(c) PROVE Custody'
  BY <1>3 DEF NoneIdle, Goto, Custody, TypeOK, Stages
<1>4. ASSUME NEW c \in Callers, TakePermit(c) PROVE Custody'
  BY <1>4, <1>c DEF TakePermit, Goto, Custody, TypeOK, Stages
<1>5. ASSUME NEW c \in Callers, TimeOut(c) PROVE Custody'
  BY <1>5 DEF TimeOut, Goto, Custody, TypeOK, Stages
<1>6. ASSUME NEW c \in Callers, Dial(c) PROVE Custody'
  <2>1. CASE pc' = [pc EXCEPT ![c] = "refused"] /\ UNCHANGED <<held, live>>
    BY <1>6, <2>1 DEF Dial, Custody, TypeOK, Stages
  <2>2. ASSUME NEW k \in Conns \ live, live' = live \cup {k},
               held' = [held EXCEPT ![c] = k], pc' = [pc EXCEPT ![c] = "use"]
        PROVE  Custody'
    <3>1. k # NoConn /\ k \notin idle /\ k \notin late /\ \A d \in Callers : held[d] # k
      BY <1>c
    <3>2. TypeOK'
      BY <1>6, <2>2 DEF Dial, TypeOK, Stages
    <3>3. QED
      BY <1>6, <2>2, <3>1, <3>2 DEF Dial, Custody, TypeOK
  <2>3. QED
    BY <1>6, <2>1, <2>2 DEF Dial, Goto, Hold
<1>7. ASSUME NEW c \in Callers, ReturnPermit(c) PROVE Custody'
  BY <1>7, <1>c DEF ReturnPermit, Goto, Custody, TypeOK, Stages
<1>8. ASSUME NEW c \in Callers, Answered(c) PROVE Custody'
  BY <1>8 DEF Answered, Goto, Custody, TypeOK, Stages
<1>9. ASSUME NEW c \in Callers, Broken(c) PROVE Custody'
  <2>1. held[c] \in live \ idle /\ held[c] \in Conns /\ \A d \in Callers : held[d] = held[c] => d = c
    BY <1>9 DEF Broken, TypeOK
  <2>2. TypeOK'
    BY <1>9, <2>1 DEF Broken, Goto, TypeOK, Stages
  <2>3. QED
    BY <1>9, <2>1, <2>2 DEF Broken, Goto, Custody, TypeOK
<1>10. ASSUME NEW c \in Callers, Release(c) PROVE Custody'
  BY <1>10 DEF Release, Goto, Custody, TypeOK, Stages
<1>11. ASSUME NEW c \in Callers, Return(c) PROVE Custody'
  <2>1. /\ held[c] \in live \ idle /\ held[c] \in Conns /\ held[c] \notin late
        /\ \A d \in Callers : held[d] = held[c] => d = c
    BY <1>11 DEF Return, TypeOK
  <2>2. CASE Cardinality(idle) < PoolSize
    <3>1. /\ pc[c] = "return"
          /\ idle' = idle \cup {held[c]}
          /\ held' = [held EXCEPT ![c] = NoConn]
          /\ pc' = [pc EXCEPT ![c] = "out"]
          /\ UNCHANGED <<permits, live, late, closed, closer>>
      BY <1>11, <2>2 DEF Return, Goto, Hold
    <3>2. QED
      BY <2>1, <3>1 DEF Custody, TypeOK, Stages
  <2>3. CASE ~(Cardinality(idle) < PoolSize)
    <3>1. /\ pc[c] = "return"
          /\ idle' = idle
          /\ held' = [held EXCEPT ![c] = held[c]]
          /\ pc' = [pc EXCEPT ![c] = "discard"]
          /\ UNCHANGED <<permits, live, late, closed, closer>>
      BY <1>11, <2>3 DEF Return, Goto, Hold
    <3>2. QED
      BY <2>1, <3>1 DEF Custody, TypeOK, Stages
  <2>4. QED
    BY <2>2, <2>3
<1>12. ASSUME NEW c \in Callers, Discard(c) PROVE Custody'
  <2>1. /\ held[c] \in live \ idle /\ \A d \in Callers : held[d] = held[c] => d = c
    BY <1>12 DEF Discard, TypeOK
  <2>2. TypeOK'
    BY <1>12 DEF Discard, Goto, Hold, TypeOK, Stages
  <2>3. QED
    BY <1>12, <2>1, <2>2 DEF Discard, Goto, Hold, Custody, TypeOK
<1>13. ASSUME NEW c \in Callers, Permit(c) PROVE Custody'
  BY <1>13, <1>c DEF Permit, Goto, Custody, TypeOK, Stages
<1>14. ASSUME Close PROVE Custody'
  BY <1>14 DEF Close, Custody, TypeOK, Stages
<1>15. ASSUME Drain PROVE Custody'
  BY <1>15 DEF Drain, Custody, TypeOK, Stages
<1>16. ASSUME UNCHANGED vars PROVE Custody'
  BY <1>16 DEF vars, Custody, TypeOK
<1>17. QED
  BY <1>1, <1>2, <1>3, <1>4, <1>5, <1>6, <1>7, <1>8, <1>9, <1>10, <1>11, <1>12, <1>13, <1>14, <1>15, <1>16
  DEF Next, Proceed

-----------------------------------------------------------------------------
(* Where the places are.                                                    *)

\* Nothing that is counted changes.
Same == permits' = permits /\ live' = live /\ Owing' = Owing /\ closed' = closed

LEMMA SamePlaces == PlacesAccountedFor /\ Same => PlacesAccountedFor'
BY DEF Same, PlacesAccountedFor

LEMMA NextPlaces ==
  ASSUME PoolInv, [Next]_vars
  PROVE  PlacesAccountedFor'
<1> USE DEF PoolInv
<1>c. /\ IsFiniteSet(live) /\ IsFiniteSet(Owing) /\ IsFiniteSet(idle)
      /\ Cardinality(live) \in Nat /\ Cardinality(Owing) \in Nat /\ Cardinality(idle) \in Nat
      /\ permits \in Nat /\ PoolSize \in Nat \ {0}
  BY Counted
<1>0. ASSUME Same PROVE PlacesAccountedFor'
  BY <1>0, SamePlaces
<1>1. ASSUME NEW c \in Callers,
             Call(c) \/ TakeIdle(c) \/ NoneIdle(c) \/ TimeOut(c) \/ Answered(c) \/ Broken(c)
               \/ Release(c) \/ Return(c)
      PROVE  Same
  BY <1>1 DEF Same, Owing, TypeOK, Goto,
              Call, TakeIdle, NoneIdle, TimeOut, Answered, Broken, Release, Return
<1>2. ASSUME NEW c \in Callers, TakePermit(c) PROVE PlacesAccountedFor'
  <2>1. c \notin Owing /\ Owing' = Owing \cup {c}
    BY <1>2 DEF TakePermit, Goto, TypeOK, Owing
  <2>2. Cardinality(Owing') = Cardinality(Owing) + 1
    BY <2>1, <1>c, OneMore
  <2>3. permits' = permits - 1 /\ live' = live /\ closed' = closed
    BY <1>2 DEF TakePermit
  <2>4. QED
    BY <2>2, <2>3, <1>c DEF PlacesAccountedFor
<1>3. ASSUME NEW c \in Callers, Dial(c) PROVE PlacesAccountedFor'
  <2>1. CASE pc' = [pc EXCEPT ![c] = "refused"] /\ UNCHANGED <<held, live>>
    <3>1. Same
      BY <1>3, <2>1 DEF Dial, TypeOK, Owing, Same
    <3>2. QED
      BY <3>1, <1>0
  <2>2. ASSUME NEW k \in Conns \ live, live' = live \cup {k}, pc' = [pc EXCEPT ![c] = "use"]
        PROVE  PlacesAccountedFor'
    <3>1. c \in Owing /\ Owing' = Owing \ {c}
      BY <1>3, <2>2 DEF Dial, TypeOK, Owing
    <3>2. Cardinality(Owing') = Cardinality(Owing) - 1
      BY <3>1, <1>c, OneLess
    <3>3. Cardinality(live') = Cardinality(live) + 1
      BY <2>2, <1>c, OneMore
    <3>4. permits' = permits /\ closed' = closed
      BY <1>3 DEF Dial
    <3>5. QED
      BY <3>2, <3>3, <3>4, <1>c DEF PlacesAccountedFor
  <2>3. QED
    BY <1>3, <2>1, <2>2 DEF Dial, Goto, Hold
<1>4. ASSUME NEW c \in Callers, ReturnPermit(c) \/ Permit(c) PROVE PlacesAccountedFor'
  <2>1. c \in Owing /\ Owing' = Owing \ {c}
    BY <1>4 DEF ReturnPermit, Permit, Goto, TypeOK, Owing
  <2>2. Cardinality(Owing') = Cardinality(Owing) - 1 /\ Cardinality(Owing) \in Nat \ {0}
    <3>1. Cardinality(Owing') = Cardinality(Owing) - 1
      BY <2>1, <1>c, OneLess
    <3>2. Cardinality(Owing) # 0
      BY <2>1, <1>c, FS_EmptySet
    <3>3. QED
      BY <3>1, <3>2, <1>c
  <2>3. permits < PoolSize
    BY <2>2, <1>c DEF PlacesAccountedFor
  <2>4. permits' = permits + 1 /\ live' = live /\ closed' = closed
    BY <1>4, <2>3 DEF ReturnPermit, Permit
  <2>5. QED
    BY <2>2, <2>4, <1>c DEF PlacesAccountedFor
<1>5. ASSUME NEW c \in Callers, Discard(c) PROVE PlacesAccountedFor'
  <2>1. c \notin Owing /\ Owing' = Owing \cup {c}
    BY <1>5 DEF Discard, Goto, TypeOK, Owing
  <2>2. Cardinality(Owing') = Cardinality(Owing) + 1
    BY <2>1, <1>c, OneMore
  <2>3. held[c] \in live
    BY <1>5 DEF Discard, HoldsWhenItShould, WithConn, OneUserPerConnection
  <2>4. Cardinality(live') = Cardinality(live) - 1
    BY <1>5, <2>3, <1>c, OneLess DEF Discard
  <2>5. permits' = permits /\ closed' = closed
    BY <1>5 DEF Discard
  <2>6. QED
    BY <2>2, <2>4, <2>5, <1>c DEF PlacesAccountedFor
<1>6. ASSUME Close PROVE PlacesAccountedFor'
  <2>1. permits' = permits /\ live' = live /\ Owing' = Owing /\ closed'
    BY <1>6 DEF Close, Owing
  <2>2. QED
    BY <2>1 DEF PlacesAccountedFor
<1>7. ASSUME Drain PROVE PlacesAccountedFor'
  <2>1. permits' = permits /\ Owing' = Owing /\ closed'
    BY <1>7 DEF Drain, Owing, DrainsWhenClosed
  <2>2. CASE UNCHANGED live
    BY <2>1, <2>2 DEF PlacesAccountedFor
  <2>3. ASSUME NEW k \in idle, live' = live \ {k} PROVE PlacesAccountedFor'
    <3>1. Cardinality(live') = Cardinality(live) - 1
      BY <2>3, <1>c, OneLess DEF LateGoesAway
    <3>2. QED
      BY <2>1, <3>1, <1>c DEF PlacesAccountedFor
  <2>4. QED
    BY <1>7, <2>2, <2>3 DEF Drain
<1>8. ASSUME UNCHANGED vars PROVE Same
  BY <1>8 DEF vars, Same, Owing
<1>9. QED
  BY <1>0, <1>1, <1>2, <1>3, <1>4, <1>5, <1>6, <1>7, <1>8 DEF Next, Proceed

LEMMA NextPool == PoolInv /\ [Next]_vars => PoolInv'
BY NextCustody, NextPlaces DEF PoolInv, Custody

LEMMA AlwaysPool == Spec => []PoolInv
BY InitPool, NextPool, PTL DEF Spec

-----------------------------------------------------------------------------
\* No two calls of respPool.do work with one connection, nor any with one that
\* is free or closed.
THEOREM ConnectionsAreNotShared == Spec => []OneUserPerConnection
<1>1. PoolInv => OneUserPerConnection
  BY DEF PoolInv
<1>2. QED
  BY <1>1, AlwaysPool, PTL

\* acquire, release and discard keep every place of the pool, whatever fails.
THEOREM PlacesAreKept == Spec => []PlacesAccountedFor
<1>1. PoolInv => PlacesAccountedFor
  BY DEF PoolInv
<1>2. QED
  BY <1>1, AlwaysPool, PTL

\* A connection on which the answer to another command may come is not reused.
THEOREM ReusedInStep == Spec => []IdleInStep
<1>1. PoolInv => IdleInStep
  BY DEF PoolInv
<1>2. QED
  BY <1>1, AlwaysPool, PTL

\* Every variable of the pool keeps its type: no more connections are free than the
\* pool may hold.
THEOREM PoolIsTyped == Spec => []TypeOK
<1>1. PoolInv => TypeOK
  BY DEF PoolInv
<1>2. QED
  BY <1>1, AlwaysPool, PTL
=============================================================================
