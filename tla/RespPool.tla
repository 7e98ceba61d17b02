------------------------------- MODULE RespPool -------------------------------
(***************************************************************************)
(* The pool of connections to Redis, internal/store/resp.go: callers of    *)
(* respPool.do share at most PoolSize connections, opened on demand, while *)
(* somebody may close the pool.                                            *)
(*                                                                         *)
(* A permit (an element of the channel sem) stands for a connection that   *)
(* may still be opened; a connection waits for its next user in the        *)
(* channel idle.  A blocked select that is handed an element directly is,  *)
(* here, one that takes it after it was put: a newcomer may slip in        *)
(* between, so there are more behaviours than in Go and never fewer.       *)
(***************************************************************************)
EXTENDS Naturals, FiniteSets

CONSTANTS
  Callers,    \* goroutines that send commands, one after another
  Conns,      \* names of connections
  PoolSize,   \* store.redis.pool_size
  NoConn      \* what a caller without a connection holds

ASSUME PoolAssumption ==
  /\ IsFiniteSet(Callers)
  /\ IsFiniteSet(Conns)
  /\ PoolSize \in Nat \ {0}
  /\ NoConn \notin Conns

VARIABLES
  pc,        \* pc[c]: where the call of c stands
  held,      \* held[c]: the connection c works with
  idle,      \* the connections in the channel idle
  permits,   \* the length of the channel sem
  live,      \* the connections open on this side
  late,      \* those on which the answer to an abandoned command may still come
  closed,    \* respPool.closed
  closer     \* where Close stands

vars == <<pc, held, idle, permits, live, late, closed, closer>>

Stages == {"out", "fast", "wait", "dial", "refused", "use",
           "release", "return", "discard", "permit"}

TypeOK ==
  /\ pc \in [Callers -> Stages]
  /\ held \in [Callers -> Conns \cup {NoConn}]
  /\ idle \subseteq Conns
  /\ permits \in 0..PoolSize
  /\ live \subseteq Conns
  /\ late \subseteq Conns
  /\ closed \in BOOLEAN
  /\ closer \in {"out", "draining", "done"}

Init ==
  /\ pc = [c \in Callers |-> "out"]
  /\ held = [c \in Callers |-> NoConn]
  /\ idle = {}
  /\ permits = PoolSize
  /\ live = {}
  /\ late = {}
  /\ closed = FALSE
  /\ closer = "out"

Goto(c, stage) == pc' = [pc EXCEPT ![c] = stage]
Hold(c, k) == held' = [held EXCEPT ![c] = k]

-----------------------------------------------------------------------------
(* acquire.                                                                 *)

\* ErrPoolClosed at once, or on to the connections.
Call(c) ==
  /\ pc[c] = "out"
  /\ Goto(c, IF closed THEN "out" ELSE "fast")
  /\ UNCHANGED <<held, idle, permits, live, late, closed, closer>>

\* A caller takes a connection out of idle: in the first select or in the second.
TakeIdle(c) ==
  /\ pc[c] \in {"fast", "wait"}
  /\ \E k \in idle :
       /\ idle' = idle \ {k}
       /\ Hold(c, k)
  /\ Goto(c, "use")
  /\ UNCHANGED <<permits, live, late, closed, closer>>

\* The first select finds nothing: the timer is set.
NoneIdle(c) ==
  /\ pc[c] = "fast"
  /\ idle = {}
  /\ Goto(c, "wait")
  /\ UNCHANGED <<held, idle, permits, live, late, closed, closer>>

TakePermit(c) ==
  /\ pc[c] = "wait"
  /\ permits > 0
  /\ permits' = permits - 1
  /\ Goto(c, "dial")
  /\ UNCHANGED <<held, idle, live, late, closed, closer>>

\* ErrPoolBusy: DialTimeout has passed.
TimeOut(c) ==
  /\ pc[c] = "wait"
  /\ Goto(c, "out")
  /\ UNCHANGED <<held, idle, permits, live, late, closed, closer>>

\* Mutant of Dial: the connection that failed the password check is kept open.
DialLeavingOpen(c) ==
  /\ pc[c] = "dial"
  /\ \E k \in Conns \ live :
       /\ live' = live \cup {k}
       /\ \/ Hold(c, k) /\ Goto(c, "use")
          \/ UNCHANGED held /\ Goto(c, "refused")
  /\ UNCHANGED <<idle, permits, late, closed, closer>>

\* dialRESP, the password check included, succeeds or fails.
Dial(c) ==
  /\ pc[c] = "dial"
  /\ \/ \E k \in Conns \ live :
          /\ live' = live \cup {k}
          /\ Hold(c, k)
          /\ Goto(c, "use")
     \/ /\ Goto(c, "refused")
        /\ UNCHANGED <<held, live>>
  /\ UNCHANGED <<idle, permits, late, closed, closer>>

\* A send that blocks while the channel is full.
ReturnPermit(c) ==
  /\ pc[c] = "refused"
  /\ permits < PoolSize
  /\ permits' = permits + 1
  /\ Goto(c, "out")
  /\ UNCHANGED <<held, idle, live, late, closed, closer>>

-----------------------------------------------------------------------------
(* do: the command, then release or discard.                                *)

\* An answer, be it an error Redis answers with: the connection is in step.
Answered(c) ==
  /\ pc[c] = "use"
  /\ Goto(c, "release")
  /\ UNCHANGED <<held, idle, permits, live, late, closed, closer>>

\* Mutant of Broken: a connection that timed out goes back to the pool.
BrokenReleased(c) ==
  /\ pc[c] = "use"
  /\ late' = late \cup {held[c]}
  /\ Goto(c, "release")
  /\ UNCHANGED <<held, idle, permits, live, closed, closer>>

\* A deadline, a lost connection, an answer that cannot be read.
Broken(c) ==
  /\ pc[c] = "use"
  /\ late' = late \cup {held[c]}
  /\ Goto(c, "discard")
  /\ UNCHANGED <<held, idle, permits, live, closed, closer>>

\* release looks at closed.
Release(c) ==
  /\ pc[c] = "release"
  /\ Goto(c, IF closed THEN "discard" ELSE "return")
  /\ UNCHANGED <<held, idle, permits, live, late, closed, closer>>

\* Mutant of Return: the caller goes on holding what it has given back.
ReturnAndKeep(c) ==
  /\ pc[c] = "return"
  /\ idle' = idle \cup {held[c]}
  /\ Goto(c, "use")
  /\ UNCHANGED <<held, permits, live, late, closed, closer>>

\* Mutant of Return: the connection and a permit for another go back.
ReturnWithPermit(c) ==
  /\ pc[c] = "return"
  /\ idle' = idle \cup {held[c]}
  /\ permits' = permits + 1
  /\ Hold(c, NoConn)
  /\ Goto(c, "out")
  /\ UNCHANGED <<live, late, closed, closer>>

\* The connection goes to idle; were idle full, it would be discarded.
Return(c) ==
  LET room == Cardinality(idle) < PoolSize IN
  /\ pc[c] = "return"
  /\ idle' = IF room THEN idle \cup {held[c]} ELSE idle
  /\ Hold(c, IF room THEN NoConn ELSE held[c])
  /\ Goto(c, IF room THEN "out" ELSE "discard")
  /\ UNCHANGED <<permits, live, late, closed, closer>>

\* discard closes the connection, then gives its permit back.
Discard(c) ==
  /\ pc[c] = "discard"
  /\ live' = live \ {held[c]}
  /\ late' = late \ {held[c]}
  /\ Hold(c, NoConn)
  /\ Goto(c, "permit")
  /\ UNCHANGED <<idle, permits, closed, closer>>

Permit(c) ==
  /\ pc[c] = "permit"
  /\ permits' = IF permits < PoolSize THEN permits + 1 ELSE permits
  /\ Goto(c, "out")
  /\ UNCHANGED <<held, idle, live, late, closed, closer>>

-----------------------------------------------------------------------------
(* Close.                                                                   *)

Close ==
  /\ ~closed
  /\ closed' = TRUE
  /\ closer' = "draining"
  /\ UNCHANGED <<pc, held, idle, permits, live, late>>

Drain ==
  /\ closer = "draining"
  /\ \/ \E k \in idle :
          /\ idle' = idle \ {k}
          /\ live' = live \ {k}
          /\ late' = late \ {k}
          /\ UNCHANGED closer
     \/ /\ idle = {}
        /\ closer' = "done"
        /\ UNCHANGED <<idle, live, late>>
  /\ UNCHANGED <<pc, held, permits, closed>>

-----------------------------------------------------------------------------
\* What a call that has begun does until it returns.
Proceed(c) ==
  \/ TakeIdle(c) \/ NoneIdle(c) \/ TakePermit(c) \/ TimeOut(c)
  \/ Dial(c) \/ ReturnPermit(c)
  \/ Answered(c) \/ Broken(c)
  \/ Release(c) \/ Return(c) \/ Discard(c) \/ Permit(c)

Next ==
  \/ \E c \in Callers : Call(c) \/ Proceed(c)
  \/ Close
  \/ Drain

Spec == Init /\ [][Next]_vars

\* A call takes every step it can take: its waits have deadlines (DialTimeout,
\* ReadTimeout, WriteTimeout).
FairSpec == Spec /\ \A c \in Callers : WF_vars(Proceed(c))

-----------------------------------------------------------------------------
(* Properties.                                                              *)

\* No two goroutines write to one connection, and none to a connection that
\* waits in idle or was closed.
OneUserPerConnection ==
  /\ \A c, d \in Callers : held[c] # NoConn /\ held[c] = held[d] => c = d
  /\ \A c \in Callers : held[c] # NoConn => held[c] \in live \ idle

\* The calls that hold a permit and no connection.
Owing == {c \in Callers : pc[c] \in {"dial", "refused", "permit"}}

\* The pool never has more connections than its size, and loses no place: every
\* place is a permit, an open connection or a call between the two.  Close takes
\* places away, with the connections it closes.
PlacesAccountedFor ==
  /\ permits + Cardinality(live) + Cardinality(Owing) <= PoolSize
  /\ ~closed => permits + Cardinality(live) + Cardinality(Owing) = PoolSize

\* A connection that waits for its next user has no answer on its way: nobody
\* gets the record asked for by somebody else.
IdleInStep == idle \cap late = {}

\* Every call returns: the send that gives back the permit of a failed dial,
\* which has no deadline, never blocks for good.
CallsReturn == \A c \in Callers : pc[c] # "out" ~> pc[c] = "out"
=============================================================================
