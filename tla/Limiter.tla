------------------------------- MODULE Limiter -------------------------------
(***************************************************************************)
(* The limiter of concurrent processing, Server.acquire of                 *)
(* internal/api/server.go: a place in the common semaphore for everyone,   *)
(* and for a large text a place in the heavy one first.                    *)
(*                                                                         *)
(* The semaphores are buffered channels.  A goroutine that finds one full  *)
(* waits in its queue, and a place given back goes to the head of the      *)
(* queue directly, so nobody overtakes it.                                 *)
(***************************************************************************)
EXTENDS Naturals, Sequences, FiniteSets

CONSTANTS
  Handlers,       \* goroutines that serve requests, one after another
  Inflight,       \* limits.inflight
  HeavyInflight   \* limits.heavy_inflight

\* The defaults replace a limit of zero.
ASSUME LimitsAssumption ==
  /\ IsFiniteSet(Handlers)
  /\ Inflight \in Nat \ {0}
  /\ HeavyInflight \in Nat \ {0}

VARIABLES
  pc,          \* pc[h]: where the request of h stands
  heavy,       \* heavy[h]: its text is a large one
  sem,         \* places taken in the common semaphore
  heavySem,    \* places taken in the heavy one
  queue,       \* who waits for a common place, in order
  heavyQueue   \* who waits for a heavy one

vars == <<pc, heavy, sem, heavySem, queue, heavyQueue>>

Stages == {"out", "askHeavy", "heavyQueue", "ask", "queue", "inside", "back"}

NoRepeats(q) == \A i, j \in DOMAIN q : q[i] = q[j] => i = j

TypeOK ==
  /\ pc \in [Handlers -> Stages]
  /\ heavy \in [Handlers -> BOOLEAN]
  /\ sem \in 0..Inflight
  /\ heavySem \in 0..HeavyInflight
  /\ queue \in Seq(Handlers) /\ NoRepeats(queue)
  /\ heavyQueue \in Seq(Handlers) /\ NoRepeats(heavyQueue)

Init ==
  /\ pc = [h \in Handlers |-> "out"]
  /\ heavy = [h \in Handlers |-> FALSE]
  /\ sem = 0
  /\ heavySem = 0
  /\ queue = <<>>
  /\ heavyQueue = <<>>

Goto(h, stage) == pc' = [pc EXCEPT ![h] = stage]

Without(q, i) == [j \in 1..(Len(q) - 1) |-> IF j < i THEN q[j] ELSE q[j + 1]]

\* Mutant of Arrive: a large text goes for a common place right away.
ArriveByOneGate(h) ==
  /\ pc[h] = "out"
  /\ \E large \in BOOLEAN :
       /\ heavy' = [heavy EXCEPT ![h] = large]
       /\ Goto(h, "ask")
  /\ UNCHANGED <<sem, heavySem, queue, heavyQueue>>

Arrive(h) ==
  /\ pc[h] = "out"
  /\ \E large \in BOOLEAN :
       /\ heavy' = [heavy EXCEPT ![h] = large]
       /\ Goto(h, IF large THEN "askHeavy" ELSE "ask")
  /\ UNCHANGED <<sem, heavySem, queue, heavyQueue>>

AskHeavy(h) ==
  /\ pc[h] = "askHeavy"
  /\ \/ /\ heavySem < HeavyInflight
        /\ heavySem' = heavySem + 1
        /\ Goto(h, "ask")
        /\ UNCHANGED heavyQueue
     \/ /\ heavySem = HeavyInflight
        /\ heavyQueue' = Append(heavyQueue, h)
        /\ Goto(h, "heavyQueue")
        /\ UNCHANGED heavySem
  /\ UNCHANGED <<heavy, sem, queue>>

\* Mutant of Ask: one place too many.
AskOneTooMany(h) ==
  /\ pc[h] = "ask"
  /\ \/ /\ sem <= Inflight
        /\ sem' = sem + 1
        /\ Goto(h, "inside")
        /\ UNCHANGED queue
     \/ /\ sem > Inflight
        /\ queue' = Append(queue, h)
        /\ Goto(h, "queue")
        /\ UNCHANGED sem
  /\ UNCHANGED <<heavy, heavySem, heavyQueue>>

Ask(h) ==
  /\ pc[h] = "ask"
  /\ \/ /\ sem < Inflight
        /\ sem' = sem + 1
        /\ Goto(h, "inside")
        /\ UNCHANGED queue
     \/ /\ sem = Inflight
        /\ queue' = Append(queue, h)
        /\ Goto(h, "queue")
        /\ UNCHANGED sem
  /\ UNCHANGED <<heavy, heavySem, heavyQueue>>

\* limits.max_wait has passed, or the client has gone away.
GiveUpHeavy(h) ==
  /\ pc[h] = "heavyQueue"
  /\ \E i \in DOMAIN heavyQueue : heavyQueue[i] = h /\ heavyQueue' = Without(heavyQueue, i)
  /\ Goto(h, "out")
  /\ UNCHANGED <<heavy, sem, heavySem, queue>>

\* Mutant of GiveUp: the heavy place is not given back.
GiveUpKeepingHeavy(h) ==
  /\ pc[h] = "queue"
  /\ \E i \in DOMAIN queue : queue[i] = h /\ queue' = Without(queue, i)
  /\ Goto(h, "out")
  /\ UNCHANGED <<heavy, sem, heavySem, heavyQueue>>

\* The same, in the common queue; a large text has a heavy place to give back.
GiveUp(h) ==
  /\ pc[h] = "queue"
  /\ \E i \in DOMAIN queue : queue[i] = h /\ queue' = Without(queue, i)
  /\ Goto(h, IF heavy[h] THEN "back" ELSE "out")
  /\ UNCHANGED <<heavy, sem, heavySem, heavyQueue>>

\* The request has been served: its common place goes to the head of the queue.
Leave(h) ==
  LET after == IF heavy[h] THEN "back" ELSE "out" IN
  /\ pc[h] = "inside"
  /\ \/ /\ queue = <<>>
        /\ sem' = sem - 1
        /\ Goto(h, after)
        /\ UNCHANGED queue
     \/ /\ queue # <<>>
        /\ pc' = [pc EXCEPT ![h] = after, ![Head(queue)] = "inside"]
        /\ queue' = Tail(queue)
        /\ UNCHANGED sem
  /\ UNCHANGED <<heavy, heavySem, heavyQueue>>

\* The heavy place goes back after the common one, served or not.
LeaveHeavy(h) ==
  /\ pc[h] = "back"
  /\ \/ /\ heavyQueue = <<>>
        /\ heavySem' = heavySem - 1
        /\ Goto(h, "out")
        /\ UNCHANGED heavyQueue
     \/ /\ heavyQueue # <<>>
        /\ pc' = [pc EXCEPT ![h] = "out", ![Head(heavyQueue)] = "ask"]
        /\ heavyQueue' = Tail(heavyQueue)
        /\ UNCHANGED heavySem
  /\ UNCHANGED <<heavy, sem, queue>>

\* What a handler does of itself, and sooner or later will.
Proceed(h) == AskHeavy(h) \/ Ask(h) \/ Leave(h) \/ LeaveHeavy(h)

Next == \E h \in Handlers : Arrive(h) \/ Proceed(h) \/ GiveUpHeavy(h) \/ GiveUp(h)

Spec == Init /\ [][Next]_vars

\* No fairness for giving up: nobody is to depend on the timer of its own.
FairSpec == Spec /\ \A h \in Handlers : WF_vars(Proceed(h))

-----------------------------------------------------------------------------
(* Properties.                                                              *)

Working == {h \in Handlers : pc[h] = "inside"}
HoldingHeavy == {h \in Handlers : heavy[h] /\ pc[h] \in {"ask", "queue", "inside", "back"}}

\* Every place taken belongs to someone, and a common place to someone at work:
\* no path out of acquire or of its release leaks one, and a large text that
\* waits holds no common place.
PlacesMatchHolders ==
  /\ sem = Cardinality(Working)
  /\ heavySem = Cardinality(HoldingHeavy)

\* Large texts never take every common place, unless the heavy limit is no less
\* than the common one, of which validateTimings only warns.
HeavyLeavesRoom ==
  HeavyInflight < Inflight => Cardinality({h \in Working : heavy[h]}) < Inflight

\* The promise of the comment in acquire: a large text that waits hinders only its
\* like.  Whenever somebody waits for a common place, all of them but the few the
\* heavy limit leaves to large texts are with ordinary ones that are being served:
\* none is lost, and none is with a large text that waits for something itself.
OrdinaryTextsGoOn ==
  queue # <<>> => Cardinality({h \in Working : ~heavy[h]}) + HeavyInflight >= Inflight

Waiting == {"askHeavy", "heavyQueue", "ask", "queue"}

\* Whoever waits gets in, or gives up, though no timer ever fires: the two
\* semaphores cannot block each other, and new requests cannot overtake forever.
WaitersGetIn == \A h \in Handlers : pc[h] \in Waiting ~> pc[h] \notin Waiting
=============================================================================
