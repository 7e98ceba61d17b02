------------------------------ MODULE RedisStore ------------------------------
(***************************************************************************)
(* The store over Redis, internal/store/redis.go, in every replica of the  *)
(* service: Put, Get, Delete and Ping, with the fallback to the memory of  *)
(* the process and the pause after a failure.                              *)
(*                                                                         *)
(* A command may fail in the ways named by Failures:                       *)
(*   "unreached"  Redis does not get it                                    *)
(*   "late"       no answer in time: Redis may yet execute it, at any time *)
(*   "busy"       no connection is free in time (ErrPoolBusy)              *)
(*   "refused"    Redis answers with an error (RedisError)                 *)
(* A record is the text it keeps.                                          *)
(***************************************************************************)
EXTENDS Naturals

CONSTANTS
  Replicas,
  Callers,      \* goroutines of all replicas
  ReplicaOf,    \* the replica of each
  Ids,          \* payload ids
  Texts,        \* the texts that records keep
  Puttable,     \* Puttable[i]: the texts put under i
  Failures,
  Absent,       \* no record (ErrNotFound)
  Unreadable,   \* a record that cannot be decrypted (ErrCorrupted)
  Unparsed,     \* a value cut short, or of another version (ErrNotFound, ErrBadRecord)
  Done,         \* success with nothing to return
  Failed,       \* an error
  Nothing       \* no answer yet

AllFailures == {"unreached", "late", "busy", "refused"}

MarkList == <<Absent, Unreadable, Unparsed, Done, Failed, Nothing>>
Marks == {MarkList[n] : n \in DOMAIN MarkList}

ASSUME RedisAssumption ==
  /\ ReplicaOf \in [Callers -> Replicas]
  /\ Puttable \in [Ids -> SUBSET Texts]
  /\ Failures \subseteq AllFailures
  /\ Marks \cap (Texts \cup AllFailures) = {}
  /\ Texts \cap AllFailures = {}
  /\ \A m, n \in DOMAIN MarkList : MarkList[m] = MarkList[n] => m = n

VARIABLES
  redis,      \* redis[i]: what Redis has under i
  wire,       \* the abandoned commands that Redis may yet execute
  fallback,   \* fallback[r][i]: what the memory of replica r has under i
  paused,     \* paused[r]: downUntil of r is in the future
  pc,         \* pc[c]: where the call of c stands
  call,       \* call[c]: the call
  got,        \* got[c]: what Redis answered to it, and at the end what it returns
  owed,       \* owed[r][i]: the record that r may rely on (history)
  due         \* due[c]: the record that the call of c is to give or to keep (history)

store == <<redis, wire, fallback, paused>>
vars == <<redis, wire, fallback, paused, pc, call, got, owed, due>>

Commands ==
  (UNION {[op : {"put"}, id : {i}, text : Puttable[i]] : i \in Ids})
    \cup [op : {"get", "delete"}, id : Ids]
    \cup [op : {"ping"}]

TypeOK ==
  /\ redis \in [Ids -> Texts \cup {Absent, Unreadable, Unparsed}]
  /\ wire \subseteq Commands
  /\ fallback \in [Replicas -> [Ids -> Texts \cup {Absent}]]
  /\ paused \in [Replicas -> BOOLEAN]
  /\ pc \in [Callers -> {"out", "forget", "check", "send", "receive", "local"}]
  /\ call \in [Callers -> Commands]
  /\ got \in [Callers -> Texts \cup Marks \cup Failures]
  /\ owed \in [Replicas -> [Ids -> Texts \cup {Absent}]]
  /\ due \in [Callers -> Texts \cup {Absent}]
  /\ \A c \in Callers : pc[c] \in {"forget", "check", "send"} => got[c] = Nothing

NoRecords == [i \in Ids |-> Absent]

Init ==
  /\ redis = NoRecords
  /\ wire = {}
  /\ fallback = [r \in Replicas |-> NoRecords]
  /\ paused = [r \in Replicas |-> FALSE]
  /\ pc = [c \in Callers |-> "out"]
  /\ call = [c \in Callers |-> [op |-> "ping"]]
  /\ got = [c \in Callers |-> Nothing]
  /\ owed = [r \in Replicas |-> NoRecords]
  /\ due = [c \in Callers |-> Absent]

On(i) == {c \in Callers : call[c].op # "ping" /\ call[c].id = i}

Deleting(i) ==
  \/ \E c \in On(i) : pc[c] # "out" /\ call[c].op = "delete"
  \/ [op |-> "delete", id |-> i] \in wire

\* Nobody may rely on what is under i any more.
Release(i) ==
  /\ owed' = [r \in Replicas |-> [owed[r] EXCEPT ![i] = Absent]]
  /\ due' = [c \in Callers |-> IF c \in On(i) THEN Absent ELSE due[c]]

Goto(c, stage) == pc' = [pc EXCEPT ![c] = stage]
Get(c, v) == got' = [got EXCEPT ![c] = v]
Due(c, t) == due' = [due EXCEPT ![c] = t]

-----------------------------------------------------------------------------
(* The beginning of a call.                                                 *)

BeginPut(c) ==
  \E k \in Commands :
    /\ k.op = "put"
    /\ call' = [call EXCEPT ![c] = k]
    /\ Due(c, IF Deleting(k.id) THEN Absent ELSE k.text)
    /\ Goto(c, "check")
    /\ UNCHANGED owed

BeginGet(c) ==
  \E k \in Commands :
    /\ k.op = "get"
    /\ call' = [call EXCEPT ![c] = k]
    /\ Due(c, owed[ReplicaOf[c]][k.id])
    /\ Goto(c, "check")
    /\ UNCHANGED owed

BeginDelete(c) ==
  \E k \in Commands :
    /\ k.op = "delete"
    /\ call' = [call EXCEPT ![c] = k]
    /\ owed' = [r \in Replicas |-> [owed[r] EXCEPT ![k.id] = Absent]]
    /\ due' = [d \in Callers |-> IF d = c \/ d \in On(k.id) THEN Absent ELSE due[d]]
    /\ Goto(c, "forget")

\* Ping asks Redis whatever the pause.
BeginPing(c) ==
  /\ call' = [call EXCEPT ![c] = [op |-> "ping"]]
  /\ Due(c, Absent)
  /\ Goto(c, "send")
  /\ UNCHANGED owed

Begin(c) ==
  /\ pc[c] = "out"
  /\ Get(c, Nothing)
  /\ BeginPut(c) \/ BeginGet(c) \/ BeginDelete(c) \/ BeginPing(c)
  /\ UNCHANGED store

\* Delete deletes from the memory first.
Forget(c) ==
  /\ pc[c] = "forget"
  /\ fallback' = [fallback EXCEPT ![ReplicaOf[c]][call[c].id] = Absent]
  /\ Goto(c, "check")
  /\ UNCHANGED <<redis, wire, paused, call, got, owed, due>>

\* Mutant of Check: a Delete that is over is sent to Redis all the same.
CheckDeleteGoesOn(c) ==
  LET away == paused[ReplicaOf[c]] IN
  /\ pc[c] = "check"
  /\ Get(c, IF away /\ call[c].op = "delete" THEN Done ELSE Nothing)
  /\ Due(c, IF away /\ call[c].op = "get" THEN Absent ELSE due[c])
  /\ Goto(c, IF away /\ call[c].op # "delete" THEN "local" ELSE "send")
  /\ UNCHANGED <<redis, wire, fallback, paused, call, owed>>

\* available: during a pause Put and Get turn to the memory, and Delete is over.
Check(c) ==
  /\ pc[c] = "check"
  /\ \/ /\ ~paused[ReplicaOf[c]]
        /\ Goto(c, "send")
        /\ UNCHANGED <<got, due>>
     \/ /\ paused[ReplicaOf[c]]
        /\ call[c].op = "delete"
        /\ Get(c, Done)
        /\ Goto(c, "out")
        /\ UNCHANGED due
     \/ /\ paused[ReplicaOf[c]]
        /\ call[c].op # "delete"
        /\ Due(c, IF call[c].op = "get" THEN Absent ELSE due[c])
        /\ Goto(c, "local")
        /\ UNCHANGED got
  /\ UNCHANGED <<redis, wire, fallback, paused, call, owed>>

-----------------------------------------------------------------------------
(* Redis.                                                                   *)

Execute(k) ==
  redis' = CASE k.op = "put" -> [redis EXCEPT ![k.id] = k.text]
             [] k.op = "delete" -> [redis EXCEPT ![k.id] = Absent]
             [] OTHER -> redis

Send(c) ==
  LET k == call[c] IN
  /\ pc[c] = "send"
  /\ Goto(c, "receive")
  /\ \/ /\ Execute(k)
        /\ Get(c, IF k.op = "get" THEN redis[k.id] ELSE Done)
        /\ UNCHANGED wire
     \/ \E f \in Failures :
          /\ Get(c, f)
          /\ wire' = IF f = "late" /\ k.op \in {"put", "delete"} THEN wire \cup {k} ELSE wire
          /\ UNCHANGED redis
  /\ UNCHANGED <<fallback, paused, call, owed, due>>

\* Redis comes to a command whose sender waits no more.
Late ==
  /\ \E k \in wire : Execute(k) /\ wire' = wire \ {k}
  /\ UNCHANGED <<fallback, paused, pc, call, got, owed, due>>

\* Redis never comes to it: the connection was lost with it.
Lose ==
  /\ \E k \in wire : wire' = wire \ {k}
  /\ UNCHANGED <<redis, fallback, paused, pc, call, got, owed, due>>

-----------------------------------------------------------------------------
(* The end of a call.                                                       *)

\* What counts as a failure; a value that is not a record does.
Fault(v) == v \in Failures \cup {Unparsed}

\* breaksConnection: whatever is not an answer counts as a lost connection.
Breaks(f) == f \notin {"refused", Unparsed}

\* Mutant of ReceiveFailure: the failure is returned.
ReceiveFailureAsError(c) ==
  /\ pc[c] = "receive"
  /\ Fault(got[c])
  /\ paused' = [paused EXCEPT ![ReplicaOf[c]] = @ \/ Breaks(got[c])]
  /\ Due(c, Absent)
  /\ Get(c, Failed)
  /\ Goto(c, "out")
  /\ UNCHANGED <<redis, wire, fallback, call, owed>>

\* markDegraded, and Put and Get turn to the memory.
ReceiveFailure(c) ==
  LET k == call[c]  r == ReplicaOf[c] IN
  /\ pc[c] = "receive"
  /\ Fault(got[c])
  /\ paused' = [paused EXCEPT ![r] = @ \/ Breaks(got[c])]
  /\ \/ /\ k.op \in {"put", "get"}
        /\ Due(c, IF k.op = "get" /\ got[c] \in Failures THEN Absent ELSE due[c])
        /\ Goto(c, "local")
        /\ UNCHANGED got
     \/ /\ k.op \in {"delete", "ping"}
        /\ Get(c, Failed)
        /\ Goto(c, "out")
        /\ UNCHANGED due
  /\ UNCHANGED <<redis, wire, fallback, call, owed>>

\* Mutant of ReceiveAnswer: a miss in Redis ends a Get.
ReceiveMissAsFinal(c) ==
  LET k == call[c]  r == ReplicaOf[c] IN
  /\ pc[c] = "receive"
  /\ ~Fault(got[c])
  /\ paused' = IF k.op = "ping" THEN [paused EXCEPT ![r] = FALSE] ELSE paused
  /\ owed' = IF k.op = "put" /\ due[c] # Absent
             THEN [q \in Replicas |-> [owed[q] EXCEPT ![k.id] = due[c]]] ELSE owed
  /\ Goto(c, "out")
  /\ UNCHANGED <<redis, wire, fallback, call, got, due>>

\* Mutant of ReceiveAnswer: what Redis took is kept in the memory as well.
ReceiveAnswerAndCache(c) ==
  LET k == call[c]  r == ReplicaOf[c] IN
  /\ pc[c] = "receive"
  /\ ~Fault(got[c])
  /\ paused' = IF k.op = "ping" THEN [paused EXCEPT ![r] = FALSE] ELSE paused
  /\ Goto(c, IF k.op = "put" \/ (k.op = "get" /\ got[c] = Absent) THEN "local" ELSE "out")
  /\ UNCHANGED <<redis, wire, fallback, call, got, owed, due>>

\* A miss sends Get to the memory; a success of Ping ends the pause.
ReceiveAnswer(c) ==
  LET k == call[c]  r == ReplicaOf[c] IN
  /\ pc[c] = "receive"
  /\ ~Fault(got[c])
  /\ paused' = IF k.op = "ping" THEN [paused EXCEPT ![r] = FALSE] ELSE paused
  /\ owed' = IF k.op = "put" /\ due[c] # Absent
             THEN [q \in Replicas |-> [owed[q] EXCEPT ![k.id] = due[c]]] ELSE owed
  /\ Goto(c, IF k.op = "get" /\ got[c] = Absent THEN "local" ELSE "out")
  /\ UNCHANGED <<redis, wire, fallback, call, got, due>>

\* The memory of the process.
Local(c) ==
  LET k == call[c]  r == ReplicaOf[c] IN
  /\ pc[c] = "local"
  /\ Goto(c, "out")
  /\ \/ /\ k.op = "put"
        /\ fallback' = [fallback EXCEPT ![r][k.id] = k.text]
        /\ owed' = IF due[c] # Absent THEN [owed EXCEPT ![r][k.id] = due[c]] ELSE owed
        /\ Get(c, Done)
     \/ /\ k.op = "get"
        /\ Get(c, fallback[r][k.id])
        /\ UNCHANGED <<fallback, owed>>
  /\ UNCHANGED <<redis, wire, paused, call, due>>

-----------------------------------------------------------------------------
(* What happens by itself.                                                  *)

\* A record lapses in Redis, or turns unreadable: another key, another version.
LapseShared ==
  /\ \E i \in Ids :
       /\ redis[i] # Absent
       /\ redis' \in {[redis EXCEPT ![i] = v] :
                      v \in {Absent} \cup (IF redis[i] \in Texts THEN {Unreadable, Unparsed} ELSE {})}
       /\ Release(i)
  /\ UNCHANGED <<wire, fallback, paused, pc, call, got>>

\* A record lapses in the memory or is evicted.
LapseLocal ==
  /\ \E r \in Replicas, i \in Ids :
       /\ fallback[r][i] # Absent
       /\ fallback' = [fallback EXCEPT ![r][i] = Absent]
       /\ Release(i)
  /\ UNCHANGED <<redis, wire, paused, pc, call, got>>

\* store.redis.retry_after has passed.
Resume ==
  /\ \E r \in Replicas : paused[r] /\ paused' = [paused EXCEPT ![r] = FALSE]
  /\ UNCHANGED <<redis, wire, fallback, pc, call, got, owed, due>>

Next ==
  \/ \E c \in Callers :
       \/ Begin(c) \/ Forget(c) \/ Check(c) \/ Send(c)
       \/ ReceiveFailure(c) \/ ReceiveAnswer(c) \/ Local(c)
  \/ Late \/ Lose \/ LapseShared \/ LapseLocal \/ Resume

Spec == Init /\ [][Next]_vars

-----------------------------------------------------------------------------
(* Properties.                                                              *)

\* No failure of Redis comes out of Put and Get: what a call returns is a record
\* or the lack of one, and an error only from Delete and Ping.
ErrorsStayInside ==
  \A c \in Callers : pc[c] = "out" =>
    /\ got[c] \notin Failures
    /\ got[c] = Failed => call[c].op \in {"delete", "ping"}

\* A record once put is found by the replica that put it, and by every replica if
\* Redis took it, whenever Redis answers the Get: through outages, abandoned
\* commands and pauses in between, as long as nothing lapsed or was deleted.
\* (Unreadable: an older record that Redis still has; it is not called missing.)
\* What fails on the way is nothing the caller hears of.
RecordsReadBack ==
  /\ ErrorsStayInside
  /\ \A c \in Callers :
       pc[c] = "out" /\ call[c].op = "get" /\ due[c] # Absent => got[c] \in {due[c], Unreadable}

\* How far a call is, as SharedStore has it.
Stage(c) == CASE pc[c] = "out" -> "out"
              [] pc[c] \in {"receive", "local"} -> "served"
              [] OTHER -> "asked"

\* A value that is not a record goes for a missing one.
Seen(v) == IF v = Unparsed THEN Absent ELSE v

Shared == INSTANCE SharedStore WITH
  map <- [i \in Ids |-> Seen(redis[i])],
  stage <- [c \in Callers |-> Stage(c)],
  answer <- [c \in Callers |-> Seen(got[c])]

\* While no command fails, the store is one map shared by all replicas: the
\* memory of a process, which Get turns to on a miss, never shows.
KeepsShared == Shared!Spec
=============================================================================
