----------------------------- MODULE RedisProofs -----------------------------
(***************************************************************************)
(* The store over Redis, for any number of replicas, callers, records and  *)
(* any of the failures: no failure comes out of Put and Get, a record that *)
(* was put is found again, if an id is used for one text, and while        *)
(* nothing fails the store is the one that replicas share.                 *)
(***************************************************************************)
EXTENDS RedisStore, TLAPS

Stages == {"out", "forget", "check", "send", "receive", "local"}

LEMMA MarksDiffer ==
  /\ Absent # Unreadable /\ Absent # Unparsed /\ Absent # Done /\ Absent # Failed /\ Absent # Nothing
  /\ Unreadable # Unparsed /\ Unreadable # Done /\ Unreadable # Failed /\ Unreadable # Nothing
  /\ Unparsed # Done /\ Unparsed # Failed /\ Unparsed # Nothing
  /\ Done # Failed /\ Done # Nothing /\ Failed # Nothing
BY RedisAssumption DEF MarkList

LEMMA MarksAre == Marks = {Absent, Unreadable, Unparsed, Done, Failed, Nothing}
BY DEF Marks, MarkList

\* A mark, a text and a failure are three things.
LEMMA Kinds ==
  /\ \A v \in Marks : v \notin Texts /\ v \notin Failures
  /\ \A v \in Failures : v \notin Texts /\ v \notin Marks
BY RedisAssumption

Puts == UNION {[op : {"put"}, id : {i}, text : Puttable[i]] : i \in Ids}
Others == [op : {"get", "delete"}, id : Ids]
Pings == [op : {"ping"}]

LEMMA CommandSets == Commands = Puts \cup Others \cup Pings
BY Zenon DEF Commands, Puts, Others, Pings

LEMMA CommandKinds ==
  ASSUME NEW k \in Commands
  PROVE  \/ k.op = "put" /\ k.id \in Ids /\ k.text \in Puttable[k.id] /\ k.text \in Texts
         \/ k.op = "get" /\ k.id \in Ids
         \/ k.op = "delete" /\ k.id \in Ids /\ k = [op |-> "delete", id |-> k.id]
         \/ k.op = "ping"
<1>1. CASE k \in Puts
  <2>1. PICK i \in Ids : k \in [op : {"put"}, id : {i}, text : Puttable[i]]
    BY <1>1 DEF Puts
  <2>2. k.op = "put" /\ k.id = i /\ k.text \in Puttable[i]
    BY <2>1
  <2>3. QED
    BY <2>2, RedisAssumption
<1>2. CASE k \in Others
  BY <1>2 DEF Others
<1>3. CASE k \in Pings
  BY <1>3 DEF Pings
<1>4. QED
  BY <1>1, <1>2, <1>3, CommandSets

LEMMA Ping == [op |-> "ping"] \in Commands
<1>1. [op |-> "ping"] \in Pings
  BY DEF Pings
<1>2. QED
  BY <1>1, CommandSets

Values == Texts \cup {Absent, Unreadable, Unparsed}
Record == Texts \cup {Absent}
Results == Texts \cup Marks \cup Failures

StoreTypes ==
  /\ redis \in [Ids -> Values]
  /\ wire \subseteq Commands
  /\ fallback \in [Replicas -> [Ids -> Record]]
  /\ paused \in [Replicas -> BOOLEAN]

CallTypes ==
  /\ pc \in [Callers -> Stages]
  /\ call \in [Callers -> Commands]
  /\ got \in [Callers -> Results]
  /\ \A c \in Callers : pc[c] \in {"forget", "check", "send"} => got[c] = Nothing

HistoryTypes ==
  /\ owed \in [Replicas -> [Ids -> Record]]
  /\ due \in [Callers -> Record]

LEMMA Types == TypeOK <=> StoreTypes /\ CallTypes /\ HistoryTypes
BY DEF TypeOK, StoreTypes, CallTypes, HistoryTypes, Values, Record, Results, Stages

\* Every stage has the calls that pass through it; no call holds an error before
\* its end.
StagesFit ==
  \A c \in Callers :
    /\ pc[c] = "forget" => call[c].op = "delete"
    /\ pc[c] = "local" => call[c].op \in {"put", "get"}
    /\ pc[c] = "check" => call[c].op # "ping"
    /\ pc[c] # "out" => got[c] # Failed

ErrorInv == TypeOK /\ StagesFit /\ ErrorsStayInside

LEMMA InitErrors == Init => ErrorInv
<1> SUFFICES ASSUME Init PROVE ErrorInv
  OBVIOUS
<1>1. Absent \in Values /\ Absent \in Record /\ Nothing \in Results /\ Nothing # Failed /\ Nothing \notin Failures
  BY MarksAre, MarksDiffer, Kinds DEF Values, Record, Results
<1>2. StoreTypes
  BY <1>1 DEF Init, StoreTypes, NoRecords
<1>3. CallTypes
  BY <1>1, Ping DEF Init, CallTypes, Stages
<1>4. HistoryTypes
  BY <1>1 DEF Init, HistoryTypes, NoRecords
<1>5. StagesFit /\ ErrorsStayInside
  BY <1>1 DEF Init, StagesFit, ErrorsStayInside
<1>6. QED
  BY <1>2, <1>3, <1>4, <1>5, Types DEF ErrorInv

LEMMA ExecuteTypes ==
  ASSUME StoreTypes, NEW k \in Commands, Execute(k)
  PROVE  redis' \in [Ids -> Values]
<1>1. CASE k.op = "put"
  BY <1>1, CommandKinds DEF StoreTypes, Execute, Values
<1>2. CASE k.op = "delete"
  BY <1>2, CommandKinds DEF StoreTypes, Execute, Values
<1>3. CASE k.op \notin {"put", "delete"}
  BY <1>3 DEF StoreTypes, Execute
<1>4. QED
  BY <1>1, <1>2, <1>3

\* One thread moves on with an answer and a debt of its own.
LEMMA Moves ==
  ASSUME ErrorInv, NEW c \in Callers, NEW stage \in Stages, NEW k \in Commands, NEW v \in Results,
         pc' = [pc EXCEPT ![c] = stage], call' = [call EXCEPT ![c] = k], got' = [got EXCEPT ![c] = v],
         stage \in {"forget", "check", "send"} => v = Nothing,
         stage = "forget" => k.op = "delete",
         stage = "local" => k.op \in {"put", "get"},
         stage = "check" => k.op # "ping",
         stage # "out" => v # Failed,
         stage = "out" => v \notin Failures,
         stage = "out" /\ v = Failed => k.op \in {"delete", "ping"}
  PROVE  CallTypes' /\ StagesFit' /\ ErrorsStayInside'
<1>1. CallTypes
  BY Types DEF ErrorInv
<1>2. /\ pc'[c] = stage /\ call'[c] = k /\ got'[c] = v
      /\ \A d \in Callers \ {c} : pc'[d] = pc[d] /\ call'[d] = call[d] /\ got'[d] = got[d]
  BY <1>1 DEF CallTypes
<1>3. pc' \in [Callers -> Stages] /\ call' \in [Callers -> Commands] /\ got' \in [Callers -> Results]
  BY <1>1 DEF CallTypes
<1>4. CallTypes'
  BY <1>1, <1>2, <1>3 DEF CallTypes
<1>5. StagesFit'
  BY <1>2 DEF ErrorInv, StagesFit
<1>6. ErrorsStayInside'
  BY <1>2 DEF ErrorInv, ErrorsStayInside
<1>7. QED
  BY <1>4, <1>5, <1>6

LEMMA Same ==
  ASSUME CallTypes, NEW c \in Callers
  PROVE  /\ call = [call EXCEPT ![c] = call[c]] /\ got = [got EXCEPT ![c] = got[c]]
         /\ call[c] \in Commands /\ got[c] \in Results
BY DEF CallTypes

\* The memory and what may be relied on, after a record has gone or come.
LEMMA RecordTypes ==
  ASSUME NEW f \in [Replicas -> [Ids -> Record]], NEW r \in Replicas, NEW i \in Ids, NEW v \in Record
  PROVE  /\ [f EXCEPT ![r][i] = v] \in [Replicas -> [Ids -> Record]]
         /\ [q \in Replicas |-> [f[q] EXCEPT ![i] = v]] \in [Replicas -> [Ids -> Record]]
<1>1. \A q \in Replicas : f[q] \in [Ids -> Record] /\ [f[q] EXCEPT ![i] = v] \in [Ids -> Record]
  OBVIOUS
<1>2. [f EXCEPT ![r][i] = v] = [f EXCEPT ![r] = [f[r] EXCEPT ![i] = v]]
  OBVIOUS
<1>3. QED
  BY <1>1, <1>2

LEMMA ReleaseTypes ==
  ASSUME HistoryTypes, NEW i \in Ids, Release(i)
  PROVE  HistoryTypes'
<1>1. \A q \in Replicas : owed[q] \in [Ids -> Record] /\ [owed[q] EXCEPT ![i] = Absent] \in [Ids -> Record]
  BY DEF HistoryTypes, Record
<1>2. owed' \in [Replicas -> [Ids -> Record]]
  BY <1>1 DEF Release
<1>3. due' \in [Callers -> Record]
  BY DEF HistoryTypes, Release, Record
<1>4. QED
  BY <1>2, <1>3 DEF HistoryTypes

LEMMA BeginErrors ==
  ASSUME ErrorInv, NEW c \in Callers, Begin(c)
  PROVE  ErrorInv'
<1>t. StoreTypes /\ CallTypes /\ HistoryTypes
  BY Types DEF ErrorInv
<1>1. StoreTypes' /\ got' = [got EXCEPT ![c] = Nothing]
  BY <1>t DEF Begin, Get, store, StoreTypes
<1>2. Nothing \in Results /\ Nothing # Failed /\ Nothing \notin Failures /\ Absent \in Record
  BY MarksAre, MarksDiffer, Kinds DEF Results, Record
<1>m. ASSUME NEW k \in Commands, NEW stage \in {"forget", "check", "send"}, call' = [call EXCEPT ![c] = k], Goto(c, stage),
             stage = "forget" => k.op = "delete", stage = "check" => k.op # "ping", HistoryTypes'
      PROVE  ErrorInv'
  <2>1. CallTypes' /\ StagesFit' /\ ErrorsStayInside'
    <3>1. stage \in Stages /\ stage \notin {"local", "out"}
      BY DEF Stages
    <3>2. pc' = [pc EXCEPT ![c] = stage]
      BY <1>m DEF Goto
    <3>3. QED
      BY <1>m, <1>1, <1>2, <3>1, <3>2, Moves
  <2>2. TypeOK'
    BY <1>1, <1>m, <2>1 DEF TypeOK, StoreTypes, CallTypes, HistoryTypes, Values, Record, Results, Stages
  <2>3. QED
    BY <2>1, <2>2 DEF ErrorInv
<1>d. ASSUME NEW t \in Record, Due(c, t), UNCHANGED owed PROVE HistoryTypes'
  BY <1>d, <1>t DEF HistoryTypes, Due
<1>3. CASE BeginPut(c)
  <2>1. PICK k \in Commands : /\ k.op = "put"
                              /\ call' = [call EXCEPT ![c] = k]
                              /\ Due(c, IF Deleting(k.id) THEN Absent ELSE k.text)
                              /\ Goto(c, "check")
                              /\ UNCHANGED owed
    BY <1>3 DEF BeginPut
  <2>2. (IF Deleting(k.id) THEN Absent ELSE k.text) \in Record
    BY <1>2, <2>1, CommandKinds DEF Record
  <2>3. HistoryTypes'
    BY <1>d, <2>1, <2>2
  <2>4. QED
    BY <1>m, <2>1, <2>3
<1>4. CASE BeginGet(c)
  <2>1. PICK k \in Commands : /\ k.op = "get"
                              /\ call' = [call EXCEPT ![c] = k]
                              /\ Due(c, owed[ReplicaOf[c]][k.id])
                              /\ Goto(c, "check")
                              /\ UNCHANGED owed
    BY <1>4 DEF BeginGet
  <2>2. owed[ReplicaOf[c]][k.id] \in Record
    BY <1>t, <2>1, CommandKinds, RedisAssumption DEF HistoryTypes
  <2>3. HistoryTypes'
    BY <1>d, <2>1, <2>2
  <2>4. QED
    BY <1>m, <2>1, <2>3
<1>5. CASE BeginDelete(c)
  <2>1. PICK k \in Commands :
          /\ k.op = "delete"
          /\ call' = [call EXCEPT ![c] = k]
          /\ owed' = [r \in Replicas |-> [owed[r] EXCEPT ![k.id] = Absent]]
          /\ due' = [d \in Callers |-> IF d = c \/ d \in On(k.id) THEN Absent ELSE due[d]]
          /\ Goto(c, "forget")
    BY <1>5 DEF BeginDelete
  <2>2. due' \in [Callers -> Record]
    BY <1>2, <1>t, <2>1 DEF HistoryTypes
  <2>3. k.id \in Ids
    BY <2>1, CommandKinds
  <2>4. \A q \in Replicas : [owed[q] EXCEPT ![k.id] = Absent] \in [Ids -> Record]
    BY <1>2, <1>t, <2>3 DEF HistoryTypes
  <2>5. HistoryTypes'
    BY <2>1, <2>2, <2>4 DEF HistoryTypes
  <2>6. QED
    BY <1>m, <2>1, <2>5
<1>6. CASE BeginPing(c)
  <2>1. call' = [call EXCEPT ![c] = [op |-> "ping"]] /\ Due(c, Absent) /\ Goto(c, "send") /\ UNCHANGED owed
    BY <1>6 DEF BeginPing
  <2>2. HistoryTypes'
    BY <1>2, <1>d, <2>1
  <2>3. QED
    BY <1>m, <2>1, <2>2, Ping
<1>7. QED
  BY <1>3, <1>4, <1>5, <1>6 DEF Begin

LEMMA StepErrors ==
  ASSUME ErrorInv, NEW c \in Callers, Forget(c) \/ Check(c) \/ Send(c) \/ ReceiveFailure(c) \/ ReceiveAnswer(c) \/ Local(c)
  PROVE  ErrorInv'
<1>t. StoreTypes /\ CallTypes /\ HistoryTypes
  BY Types DEF ErrorInv
<1> DEFINE k == call[c]
           r == ReplicaOf[c]
<1>0. /\ k \in Commands /\ r \in Replicas /\ got[c] \in Results /\ call = [call EXCEPT ![c] = k]
      /\ got = [got EXCEPT ![c] = got[c]]
  BY <1>t, Same, RedisAssumption
<1>2. /\ Absent \in Record /\ Done \in Results /\ Nothing \in Results /\ Failed \in Results
      /\ Done \notin Failures /\ Nothing \notin Failures /\ Failed \notin Failures /\ Absent \notin Failures
      /\ Done # Failed /\ Nothing # Failed
  BY MarksAre, MarksDiffer, Kinds DEF Results, Record
<1>n. pc[c] \in {"forget", "check", "send"} => got[c] = Nothing
  BY <1>t DEF CallTypes
<1>k. /\ pc[c] = "forget" => k.op = "delete"
      /\ pc[c] = "local" => k.op \in {"put", "get"}
      /\ pc[c] = "check" => k.op # "ping"
      /\ pc[c] # "out" => got[c] # Failed
  BY DEF ErrorInv, StagesFit
<1>m. ASSUME NEW stage \in Stages, NEW v \in Results,
             pc' = [pc EXCEPT ![c] = stage], call' = call, got' = [got EXCEPT ![c] = v],
             stage \in {"forget", "check", "send"} => v = Nothing,
             stage = "forget" => k.op = "delete",
             stage = "local" => k.op \in {"put", "get"},
             stage = "check" => k.op # "ping",
             stage # "out" => v # Failed,
             stage = "out" => v \notin Failures,
             stage = "out" /\ v = Failed => k.op \in {"delete", "ping"},
             StoreTypes', HistoryTypes'
      PROVE  ErrorInv'
  <2>1. call' = [call EXCEPT ![c] = k] /\ k \in Commands
    BY <1>0, <1>m
  <2> HIDE DEF k
  <2>2. CallTypes' /\ StagesFit' /\ ErrorsStayInside'
    BY <1>m, <2>1, Moves
  <2>3. TypeOK'
    BY <1>m, <2>2 DEF TypeOK, StoreTypes, CallTypes, HistoryTypes, Values, Record, Results, Stages
  <2>4. QED
    BY <2>2, <2>3 DEF ErrorInv
<1>d. ASSUME NEW t \in Record, Due(c, t), UNCHANGED owed PROVE HistoryTypes'
  BY <1>d, <1>t DEF HistoryTypes, Due
<1>e. UNCHANGED <<owed, due>> => HistoryTypes'
  BY <1>t DEF HistoryTypes
<1>f. UNCHANGED store => StoreTypes'
  BY <1>t DEF StoreTypes, store
<1>g. due[c] \in Record
  BY <1>t DEF HistoryTypes
<1>s. \A stage \in {"out", "forget", "check", "send", "receive", "local"} : stage \in Stages
  BY DEF Stages
<1>3. CASE Forget(c)
  <2>1. pc[c] = "forget" /\ k.op = "delete" /\ got[c] = Nothing
    BY <1>3, <1>n, <1>k DEF Forget
  <2>2. k.id \in Ids
    BY <1>0, <2>1, CommandKinds
  <2>3. fallback' \in [Replicas -> [Ids -> Record]]
    BY <1>3, <1>0, <1>2, <1>t, <2>2, RecordTypes DEF Forget, StoreTypes
  <2>4. StoreTypes' /\ HistoryTypes'
    BY <1>3, <1>e, <1>t, <2>3 DEF Forget, StoreTypes
  <2>5. /\ pc' = [pc EXCEPT ![c] = "check"] /\ call' = call /\ got' = [got EXCEPT ![c] = Nothing]
    BY <1>3, <1>0, <2>1 DEF Forget, Goto
  <2>6. QED
    BY <1>m, <1>2, <1>s, <2>1, <2>4, <2>5
<1>4. CASE Check(c)
  <2>1. pc[c] = "check" /\ k.op # "ping" /\ got[c] = Nothing /\ StoreTypes' /\ call' = call /\ UNCHANGED owed
    BY <1>4, <1>f, <1>n, <1>k DEF Check, store
  <2>2. CASE Goto(c, "send") /\ UNCHANGED <<got, due>>
    <3>1. HistoryTypes' /\ pc' = [pc EXCEPT ![c] = "send"] /\ got' = [got EXCEPT ![c] = Nothing]
      BY <1>0, <1>e, <2>1, <2>2 DEF Goto
    <3>2. QED
      BY <1>m, <1>2, <1>s, <2>1, <3>1
  <2>3. CASE k.op = "delete" /\ Get(c, Done) /\ Goto(c, "out") /\ UNCHANGED due
    <3>1. HistoryTypes' /\ pc' = [pc EXCEPT ![c] = "out"] /\ got' = [got EXCEPT ![c] = Done]
      BY <1>e, <2>1, <2>3 DEF Goto, Get
    <3>2. QED
      BY <1>m, <1>2, <1>s, <2>1, <3>1
  <2>4. CASE k.op # "delete" /\ Due(c, IF call[c].op = "get" THEN Absent ELSE due[c]) /\ Goto(c, "local") /\ UNCHANGED got
    <3>1. HistoryTypes'
      BY <1>2, <1>d, <1>g, <2>1, <2>4
    <3>2. pc' = [pc EXCEPT ![c] = "local"] /\ got' = [got EXCEPT ![c] = Nothing] /\ k.op \in {"put", "get"}
      BY <1>0, <2>1, <2>4, CommandKinds DEF Goto
    <3>3. QED
      BY <1>m, <1>2, <1>s, <2>1, <3>1, <3>2
  <2>5. QED
    BY <1>4, <2>2, <2>3, <2>4 DEF Check
<1>5. CASE Send(c)
  <2>1. pc' = [pc EXCEPT ![c] = "receive"] /\ call' = call /\ UNCHANGED <<fallback, paused, owed, due>>
    BY <1>5 DEF Send, Goto
  <2>2. HistoryTypes'
    BY <1>e, <2>1
  <2>3. CASE Execute(k) /\ Get(c, IF k.op = "get" THEN redis[k.id] ELSE Done) /\ UNCHANGED wire
    <3>1. StoreTypes'
      <4>1. redis' \in [Ids -> Values]
        BY <1>0, <1>t, <2>3, ExecuteTypes
      <4>2. QED
        BY <1>t, <2>1, <2>3, <4>1 DEF StoreTypes
    <3>2. PICK v : v = IF k.op = "get" THEN redis[k.id] ELSE Done
      OBVIOUS
    <3>3. v \in Results /\ v # Failed
      <4>1. CASE k.op = "get"
        <5>1. v \in Values
          BY <1>0, <1>t, <3>2, <4>1, CommandKinds DEF StoreTypes
        <5>2. QED
          BY <5>1, MarksAre, MarksDiffer, Kinds DEF Values, Results
      <4>2. CASE k.op # "get"
        BY <1>2, <3>2, <4>2
      <4>3. QED
        BY <4>1, <4>2
    <3>4. got' = [got EXCEPT ![c] = v]
      BY <2>3, <3>2 DEF Get
    <3>5. QED
      BY <1>m, <1>s, <2>1, <2>2, <3>1, <3>3, <3>4
  <2>4. CASE \E f \in Failures :
               /\ Get(c, f)
               /\ wire' = (IF f = "late" /\ k.op \in {"put", "delete"} THEN wire \cup {k} ELSE wire)
               /\ UNCHANGED redis
    <3>1. PICK f \in Failures : /\ Get(c, f)
                                /\ wire' = (IF f = "late" /\ k.op \in {"put", "delete"} THEN wire \cup {k} ELSE wire)
                                /\ UNCHANGED redis
      BY <2>4
    <3>2. wire' \subseteq Commands
      BY <1>0, <1>t, <3>1 DEF StoreTypes
    <3>3. StoreTypes'
      BY <1>t, <2>1, <3>1, <3>2 DEF StoreTypes
    <3>4. f \in Results /\ f # Failed /\ got' = [got EXCEPT ![c] = f]
      BY <1>2, <3>1 DEF Results, Get
    <3>5. QED
      BY <1>m, <1>s, <2>1, <2>2, <3>3, <3>4
  <2>5. QED
    BY <1>5, <2>3, <2>4 DEF Send
<1>6. CASE ReceiveFailure(c)
  <2>1. pc[c] = "receive" /\ paused' \in [Replicas -> BOOLEAN] /\ UNCHANGED <<redis, wire, fallback, call, owed>>
    <3>1. pc[c] = "receive" /\ paused' = [paused EXCEPT ![r] = @ \/ Breaks(got[c])] /\ UNCHANGED <<redis, wire, fallback, call, owed>>
      BY <1>6 DEF ReceiveFailure
    <3>2. paused \in [Replicas -> BOOLEAN] /\ (paused[r] \/ Breaks(got[c])) \in BOOLEAN
      BY <1>t, Zenon DEF StoreTypes, Breaks
    <3>3. QED
      BY <3>1, <3>2
  <2>2. StoreTypes' /\ got[c] # Failed
    BY <1>k, <1>t, <2>1 DEF StoreTypes
  <2>3. CASE /\ k.op \in {"put", "get"}
             /\ Due(c, IF k.op = "get" /\ got[c] \in Failures THEN Absent ELSE due[c])
             /\ Goto(c, "local")
             /\ UNCHANGED got
    <3>1. HistoryTypes'
      BY <1>2, <1>d, <1>g, <2>1, <2>3
    <3>2. pc' = [pc EXCEPT ![c] = "local"] /\ got' = [got EXCEPT ![c] = got[c]]
      BY <1>0, <2>3 DEF Goto
    <3>3. PICK v \in Results : v = got[c]
      BY <1>0
    <3>4. QED
      BY <1>m, <1>s, <2>1, <2>2, <2>3, <3>1, <3>2, <3>3
  <2>4. CASE k.op \in {"delete", "ping"} /\ Get(c, Failed) /\ Goto(c, "out") /\ UNCHANGED due
    <3>1. HistoryTypes' /\ pc' = [pc EXCEPT ![c] = "out"] /\ got' = [got EXCEPT ![c] = Failed]
      BY <1>e, <2>1, <2>4 DEF Goto, Get
    <3>2. QED
      BY <1>m, <1>2, <1>s, <2>1, <2>2, <2>4, <3>1
  <2>5. QED
    BY <1>6, <2>3, <2>4 DEF ReceiveFailure
<1>7. CASE ReceiveAnswer(c)
  <2>1. pc[c] = "receive" /\ ~Fault(got[c]) /\ UNCHANGED <<redis, wire, fallback, call, got, due>> /\ got[c] # Failed
        /\ got[c] \notin Failures
    BY <1>7, <1>k DEF ReceiveAnswer, Fault
  <2>2. paused' \in [Replicas -> BOOLEAN]
    BY <1>7, <1>0, <1>t DEF ReceiveAnswer, StoreTypes
  <2>3. StoreTypes'
    BY <1>t, <2>1, <2>2 DEF StoreTypes
  <2>4. HistoryTypes'
    <3>1. CASE k.op = "put" /\ due[c] # Absent
      <4>1. owed' = [q \in Replicas |-> [owed[q] EXCEPT ![k.id] = due[c]]] /\ k.id \in Ids
        BY <1>7, <1>0, <3>1, CommandKinds DEF ReceiveAnswer
      <4>2. owed' \in [Replicas -> [Ids -> Record]]
        BY <1>0, <1>g, <1>t, <4>1, RecordTypes DEF HistoryTypes
      <4>3. QED
        BY <1>t, <2>1, <4>2 DEF HistoryTypes
    <3>2. CASE ~(k.op = "put" /\ due[c] # Absent)
      <4>1. owed' = owed
        BY <1>7, <3>2 DEF ReceiveAnswer
      <4>2. QED
        BY <1>e, <2>1, <4>1
    <3>3. QED
      BY <3>1, <3>2
  <2>5. PICK stage \in {"local", "out"} : stage = (IF k.op = "get" /\ got[c] = Absent THEN "local" ELSE "out")
    OBVIOUS
  <2>6. pc' = [pc EXCEPT ![c] = stage] /\ got' = [got EXCEPT ![c] = got[c]]
    BY <1>7, <1>0, <2>1, <2>5 DEF ReceiveAnswer, Goto
  <2>7. PICK v \in Results : v = got[c]
    BY <1>0
  <2>8. stage \in Stages /\ (stage = "local" => k.op \in {"put", "get"}) /\ stage \notin {"forget", "check", "send"}
    BY <1>s, <2>5
  <2>9. QED
    BY <1>m, <2>1, <2>3, <2>4, <2>6, <2>7, <2>8
<1>8. CASE Local(c)
  <2>1. pc' = [pc EXCEPT ![c] = "out"] /\ UNCHANGED <<redis, wire, paused, call, due>>
    BY <1>8 DEF Local, Goto
  <2>2. CASE /\ k.op = "put"
             /\ fallback' = [fallback EXCEPT ![r][k.id] = k.text]
             /\ owed' = (IF due[c] # Absent THEN [owed EXCEPT ![r][k.id] = due[c]] ELSE owed)
             /\ Get(c, Done)
    <3>1. k.id \in Ids /\ k.text \in Record
      BY <1>0, <2>2, CommandKinds DEF Record
    <3>2. fallback' \in [Replicas -> [Ids -> Record]]
      BY <1>0, <1>t, <2>2, <3>1, RecordTypes DEF StoreTypes
    <3>3. owed' \in [Replicas -> [Ids -> Record]]
      BY <1>0, <1>g, <1>t, <2>2, <3>1, RecordTypes DEF HistoryTypes
    <3>4. StoreTypes' /\ HistoryTypes'
      BY <1>t, <2>1, <3>2, <3>3 DEF StoreTypes, HistoryTypes
    <3>5. got' = [got EXCEPT ![c] = Done]
      BY <2>2 DEF Get
    <3>6. QED
      BY <1>m, <1>2, <1>s, <2>1, <3>4, <3>5
  <2>3. CASE k.op = "get" /\ Get(c, fallback[r][k.id]) /\ UNCHANGED <<fallback, owed>>
    <3>1. k.id \in Ids
      BY <1>0, <2>3, CommandKinds
    <3>2. PICK v \in Record : v = fallback[r][k.id]
      BY <1>0, <1>t, <3>1 DEF StoreTypes
    <3>3. v \in Results /\ v \notin Failures /\ v # Failed
      BY <3>2, MarksAre, MarksDiffer, Kinds DEF Record, Results
    <3>4. StoreTypes' /\ HistoryTypes'
      BY <1>e, <1>t, <2>1, <2>3 DEF StoreTypes
    <3>5. got' = [got EXCEPT ![c] = v]
      BY <2>3, <3>2 DEF Get
    <3>6. QED
      BY <1>m, <1>s, <2>1, <3>3, <3>4, <3>5
  <2>4. QED
    BY <1>8, <2>2, <2>3 DEF Local
<1>9. QED
  BY <1>3, <1>4, <1>5, <1>6, <1>7, <1>8

LEMMA NextErrors == ErrorInv /\ [Next]_vars => ErrorInv'
<1> SUFFICES ASSUME ErrorInv, [Next]_vars PROVE ErrorInv'
  OBVIOUS
<1>t. StoreTypes /\ CallTypes /\ HistoryTypes
  BY Types DEF ErrorInv
<1>2. Absent \in Record /\ {Absent, Unreadable, Unparsed} \subseteq Values
  BY DEF Record, Values
<1>m. ASSUME UNCHANGED <<pc, call, got>>, StoreTypes', HistoryTypes' PROVE ErrorInv'
  <2>1. CallTypes' /\ StagesFit' /\ ErrorsStayInside'
    BY <1>m, <1>t DEF CallTypes, ErrorInv, StagesFit, ErrorsStayInside
  <2>2. TypeOK'
    BY <1>m, <2>1 DEF TypeOK, StoreTypes, CallTypes, HistoryTypes, Values, Record, Results, Stages
  <2>3. QED
    BY <2>1, <2>2 DEF ErrorInv
<1>e. UNCHANGED <<owed, due>> => HistoryTypes'
  BY <1>t DEF HistoryTypes
<1>3. ASSUME NEW c \in Callers, Begin(c) \/ Forget(c) \/ Check(c) \/ Send(c) \/ ReceiveFailure(c) \/ ReceiveAnswer(c) \/ Local(c)
      PROVE  ErrorInv'
  BY <1>3, BeginErrors, StepErrors
<1>4. CASE Late
  <2>1. PICK k \in wire : Execute(k) /\ wire' = wire \ {k} /\ UNCHANGED <<fallback, paused, pc, call, got, owed, due>>
    BY <1>4 DEF Late
  <2>2. k \in Commands
    BY <1>t DEF StoreTypes
  <2>3. redis' \in [Ids -> Values]
    BY <1>t, <2>1, <2>2, ExecuteTypes
  <2>4. StoreTypes'
    BY <1>t, <2>1, <2>3 DEF StoreTypes
  <2>5. QED
    BY <1>e, <1>m, <2>1, <2>4
<1>5. CASE Lose
  <2>1. StoreTypes'
    BY <1>5, <1>t DEF Lose, StoreTypes
  <2>2. QED
    BY <1>5, <1>e, <1>m, <2>1 DEF Lose
<1>6. CASE LapseShared
  <2>1. PICK i \in Ids :
          /\ redis' \in {[redis EXCEPT ![i] = v] :
                         v \in {Absent} \cup (IF redis[i] \in Texts THEN {Unreadable, Unparsed} ELSE {})}
          /\ Release(i)
    BY <1>6 DEF LapseShared
  <2>2. PICK v \in Values : redis' = [redis EXCEPT ![i] = v]
    BY <1>2, <2>1
  <2>3. StoreTypes'
    BY <1>6, <1>t, <2>2 DEF LapseShared, StoreTypes
  <2>4. QED
    BY <1>6, <1>m, <1>t, <2>1, <2>3, ReleaseTypes DEF LapseShared
<1>7. CASE LapseLocal
  <2>1. PICK r \in Replicas, i \in Ids : fallback' = [fallback EXCEPT ![r][i] = Absent] /\ Release(i)
    BY <1>7 DEF LapseLocal
  <2>2. fallback' \in [Replicas -> [Ids -> Record]]
    BY <1>2, <1>t, <2>1, RecordTypes DEF StoreTypes
  <2>3. StoreTypes'
    BY <1>7, <1>t, <2>2 DEF LapseLocal, StoreTypes
  <2>4. QED
    BY <1>7, <1>m, <1>t, <2>1, <2>3, ReleaseTypes DEF LapseLocal
<1>8. CASE Resume
  <2>1. StoreTypes'
    BY <1>8, <1>t DEF Resume, StoreTypes
  <2>2. QED
    BY <1>8, <1>e, <1>m, <2>1 DEF Resume
<1>9. CASE UNCHANGED vars
  <2>1. StoreTypes'
    BY <1>9, <1>t DEF vars, StoreTypes
  <2>2. QED
    BY <1>9, <1>e, <1>m, <2>1 DEF vars
<1>10. QED
  BY <1>3, <1>4, <1>5, <1>6, <1>7, <1>8, <1>9 DEF Next

LEMMA AlwaysErrors == Spec => []ErrorInv
BY InitErrors, NextErrors, PTL DEF Spec

\* Every variable of the store over Redis keeps its type.
THEOREM RedisIsTyped == Spec => []TypeOK
<1>1. ErrorInv => TypeOK
  BY DEF ErrorInv
<1>2. QED
  BY <1>1, AlwaysErrors, PTL

\* Whatever fails, Put and Get return no error: only Delete and Ping do, and no call
\* returns a failure of the connection as a record.
THEOREM NoErrorComesOut == Spec => []ErrorsStayInside
<1>1. ErrorInv => ErrorsStayInside
  BY DEF ErrorInv
<1>2. QED
  BY <1>1, AlwaysErrors, PTL

-----------------------------------------------------------------------------
(* A record that was put is found again.                                    *)

\* A disciplined client uses an id for one text.
Disciplined == \A i \in Ids : \A s, t \in Puttable[i] : s = t

\* Every place keeps the texts of its own id.
OwnTexts ==
  /\ \A i \in Ids : redis[i] \in Puttable[i] \cup {Absent, Unreadable, Unparsed}
  /\ \A r \in Replicas, i \in Ids : owed[r][i] \in Puttable[i] \cup {Absent}
  /\ \A c \in Callers : due[c] # Absent =>
       /\ call[c].op \in {"put", "get"}
       /\ due[c] \in Puttable[call[c].id]

\* A replica that asks for i gets t, from Redis or from its own memory.
Has(r, i, t) ==
  \/ redis[i] \in {t, Unreadable}
  \/ redis[i] \in {Absent, Unparsed} /\ fallback[r][i] = t

\* Nobody relies on what is being deleted.
DeletedNotOwed ==
  \A i \in Ids : Deleting(i) =>
    /\ \A r \in Replicas : owed[r][i] = Absent
    /\ \A c \in On(i) : due[c] = Absent

OwedIsHeld == \A r \in Replicas, i \in Ids : owed[r][i] # Absent => Has(r, i, owed[r][i])

\* A Put that was answered is in Redis; a Get has what it is to return before it.
CallHolds(c) ==
  LET r == ReplicaOf[c]  i == call[c].id  t == due[c] IN
  /\ call[c].op = "put" /\ pc[c] = "receive" /\ ~Fault(got[c]) => redis[i] = t
  /\ call[c].op = "get" =>
       /\ pc[c] \in {"check", "send"} => Has(r, i, t)
       /\ pc[c] = "receive" /\ got[c] \notin Failures =>
            \/ got[c] \in {t, Unreadable}
            \/ got[c] \in {Absent, Unparsed} /\ fallback[r][i] = t
       /\ pc[c] = "local" => fallback[r][i] = t
       /\ pc[c] = "out" => got[c] \in {t, Unreadable}

DueIsHeld == \A c \in Callers : due[c] # Absent => CallHolds(c)

KeepInv == ErrorInv /\ OwnTexts /\ DeletedNotOwed /\ OwedIsHeld /\ DueIsHeld

LEMMA InitKeep == Init => KeepInv
<1> SUFFICES ASSUME Init PROVE KeepInv
  OBVIOUS
<1>1. /\ \A i \in Ids : redis[i] = Absent
      /\ \A r \in Replicas, i \in Ids : owed[r][i] = Absent
      /\ \A c \in Callers : due[c] = Absent
  BY DEF Init, NoRecords
<1>2. OwnTexts
  BY <1>1 DEF OwnTexts
<1>3. DeletedNotOwed
  BY <1>1 DEF DeletedNotOwed, On
<1>4. OwedIsHeld /\ DueIsHeld
  BY <1>1 DEF OwedIsHeld, DueIsHeld
<1>5. QED
  BY <1>2, <1>3, <1>4, InitErrors DEF KeepInv

\* A step is gentle to i when who could rely on the text under i still can.
Gentle(i) ==
  \A t \in Puttable[i] :
    /\ redis[i] = t => redis'[i] = t
    /\ \A r \in Replicas : /\ Has(r, i, t) => Has(r, i, t)'
                           /\ fallback[r][i] = t => fallback'[r][i] = t

\* What a step may make of what is owed, and of what a call is due.
OwedFits(r, i) ==
  \/ owed'[r][i] = Absent
  \/ owed'[r][i] = owed[r][i] /\ Gentle(i)
  \/ /\ ~Deleting(i)
     /\ \E t \in Puttable[i] : owed'[r][i] = t /\ Has(r, i, t)'

DueFits(d) ==
  \/ due'[d] = Absent
  \/ /\ pc'[d] = pc[d] /\ call'[d] = call[d] /\ got'[d] = got[d] /\ due'[d] = due[d]
     /\ Gentle(call[d].id)
  \/ /\ call'[d].op \in {"put", "get"}
     /\ due'[d] \in Puttable[call'[d].id] /\ ~Deleting(call'[d].id)
     /\ CallHolds(d)'

Cleared(i) == (\A r \in Replicas : owed[r][i] = Absent) /\ (\A d \in On(i) : due[d] = Absent)

LEMMA CallsNameIds ==
  ASSUME ErrorInv, NEW c \in Callers, call[c].op \in {"put", "get", "delete"}
  PROVE  call[c].id \in Ids /\ ReplicaOf[c] \in Replicas
<1>1. call[c] \in Commands
  BY Types DEF ErrorInv, CallTypes
<1>2. QED
  BY <1>1, CommandKinds, RedisAssumption

\* What keeps the invariant of the records, step by step.
StepFits ==
  /\ \A i \in Ids : redis'[i] \in Puttable[i] \cup {Absent, Unreadable, Unparsed}
  /\ \A r \in Replicas, i \in Ids : OwedFits(r, i)
  /\ \A d \in Callers : DueFits(d)
  /\ \A i \in Ids : Deleting(i)' => Deleting(i) \/ Cleared(i)'

LEMMA Holds ==
  ASSUME KeepInv, ErrorInv', StepFits
  PROVE  KeepInv'
<1>s. /\ \A i \in Ids : redis'[i] \in Puttable[i] \cup {Absent, Unreadable, Unparsed}
      /\ \A r \in Replicas, i \in Ids : OwedFits(r, i)
      /\ \A d \in Callers : DueFits(d)
      /\ \A i \in Ids : Deleting(i)' => Deleting(i) \/ Cleared(i)'
  BY DEF StepFits
<1>a. \A t \in Texts : t # Absent /\ t # Unreadable /\ t # Unparsed
  BY MarksAre, Kinds
<1>p. \A i \in Ids : Puttable[i] \subseteq Texts
  BY RedisAssumption
<1>1. OwnTexts'
  <2>1. ASSUME NEW r \in Replicas, NEW i \in Ids PROVE owed'[r][i] \in Puttable[i] \cup {Absent}
    BY <1>s DEF OwedFits, KeepInv, OwnTexts
  <2>2. ASSUME NEW d \in Callers, due'[d] # Absent
        PROVE  call'[d].op \in {"put", "get"} /\ due'[d] \in Puttable[call'[d].id]
    BY <1>s, <2>2 DEF DueFits, KeepInv, OwnTexts
  <2>3. QED
    BY <1>s, <2>1, <2>2 DEF OwnTexts
<1>2. OwedIsHeld'
  <2> SUFFICES ASSUME NEW r \in Replicas, NEW i \in Ids, owed'[r][i] # Absent PROVE Has(r, i, owed[r][i])'
    BY DEF OwedIsHeld
  <2>1. CASE owed'[r][i] = owed[r][i] /\ Gentle(i)
    <3>1. owed[r][i] \in Puttable[i] /\ Has(r, i, owed[r][i])
      BY <2>1 DEF KeepInv, OwnTexts, OwedIsHeld
    <3>2. QED
      BY <2>1, <3>1 DEF Gentle, Has
  <2>2. CASE \E t \in Puttable[i] : owed'[r][i] = t /\ Has(r, i, t)'
    <3>1. PICK t \in Puttable[i] : owed'[r][i] = t /\ Has(r, i, t)'
      BY <2>2
    <3>2. QED
      BY <3>1 DEF Has
  <2>3. QED
    BY <1>s, <2>1, <2>2 DEF OwedFits
<1>3. DueIsHeld'
  <2> SUFFICES ASSUME NEW d \in Callers, due'[d] # Absent PROVE CallHolds(d)'
    BY DEF DueIsHeld
  <2>1. CASE /\ pc'[d] = pc[d] /\ call'[d] = call[d] /\ got'[d] = got[d] /\ due'[d] = due[d]
             /\ Gentle(call[d].id)
    <3>1. due[d] \in Puttable[call[d].id] /\ CallHolds(d) /\ call[d].op \in {"put", "get"}
      BY <2>1 DEF KeepInv, OwnTexts, DueIsHeld
    <3>2. ReplicaOf[d] \in Replicas
      BY RedisAssumption
    <3>3. /\ redis[call[d].id] = due[d] => redis'[call[d].id] = due[d]
          /\ Has(ReplicaOf[d], call[d].id, due[d]) => Has(ReplicaOf[d], call[d].id, due[d])'
          /\ fallback[ReplicaOf[d]][call[d].id] = due[d] => fallback'[ReplicaOf[d]][call[d].id] = due[d]
      BY <2>1, <3>1, <3>2 DEF Gentle, Has
    <3>4. QED
      BY <2>1, <3>1, <3>3 DEF CallHolds
  <2>2. CASE CallHolds(d)'
    BY <2>2
  <2>3. QED
    BY <1>s, <2>1, <2>2 DEF DueFits
<1>4. DeletedNotOwed'
  <2> SUFFICES ASSUME NEW i \in Ids, Deleting(i)'
               PROVE  (\A r \in Replicas : owed'[r][i] = Absent) /\ (\A d \in On(i)' : due'[d] = Absent)
    BY DEF DeletedNotOwed
  <2>1. CASE Cleared(i)'
    BY <2>1 DEF Cleared
  <2>2. CASE Deleting(i)
    <3>1. (\A r \in Replicas : owed[r][i] = Absent) /\ (\A d \in On(i) : due[d] = Absent)
      BY <2>2 DEF KeepInv, DeletedNotOwed
    <3>2. ASSUME NEW r \in Replicas PROVE owed'[r][i] = Absent
      BY <1>s, <2>2, <3>1 DEF OwedFits
    <3>3. ASSUME NEW d \in On(i)' PROVE due'[d] = Absent
      <4>1. d \in Callers /\ call'[d].op # "ping" /\ call'[d].id = i
        BY <3>3 DEF On
      <4>2. call'[d] = call[d] => d \in On(i)
        BY <4>1 DEF On
      <4>3. QED
        BY <1>s, <2>2, <3>1, <4>1, <4>2 DEF DueFits
    <3>4. QED
      BY <3>2, <3>3
  <2>3. QED
    BY <1>s, <2>1, <2>2
<1>5. QED
  BY <1>1, <1>2, <1>3, <1>4 DEF KeepInv

LEMMA StoreStays ==
  ASSUME UNCHANGED <<redis, fallback>>
  PROVE  \A i \in Ids : Gentle(i)
BY DEF Gentle, Has

\* A call in the way of a deletion, while it is not over.
LEMMA UnderWay ==
  ASSUME NEW c \in Callers, call[c].op = "delete", pc[c] # "out"
  PROVE  Deleting(call[c].id)
BY DEF Deleting, On

\* What is not being deleted is not after a step that neither begins a deletion of it
\* nor leaves one behind.
LEMMA NoNewDeletion ==
  ASSUME NEW i \in Ids,
         \A d \in Callers : pc'[d] # "out" /\ call'[d].op = "delete" /\ call'[d].id = i
                           => call'[d] = call[d] /\ pc[d] # "out",
         [op |-> "delete", id |-> i] \in wire' => [op |-> "delete", id |-> i] \in wire \/ Deleting(i)
  PROVE  Deleting(i)' => Deleting(i)
<1> SUFFICES ASSUME Deleting(i)' PROVE Deleting(i)
  OBVIOUS
<1>1. CASE \E d \in On(i)' : pc'[d] # "out" /\ call'[d].op = "delete"
  <2>1. PICK d \in Callers : call'[d].op # "ping" /\ call'[d].id = i /\ pc'[d] # "out" /\ call'[d].op = "delete"
    BY <1>1 DEF On
  <2>2. d \in On(i) /\ pc[d] # "out" /\ call[d].op = "delete"
    BY <2>1 DEF On
  <2>3. QED
    BY <2>2 DEF Deleting
<1>2. CASE [op |-> "delete", id |-> i] \in wire'
  BY <1>2 DEF Deleting
<1>3. QED
  BY <1>1, <1>2 DEF Deleting

\* A command that Redis executes harms nobody but what is being deleted.
LEMMA Executed ==
  ASSUME KeepInv, Disciplined, NEW k \in Commands, Execute(k), UNCHANGED fallback, k.op = "delete" => Deleting(k.id)
  PROVE  /\ \A i \in Ids : redis'[i] \in Puttable[i] \cup {Absent, Unreadable, Unparsed}
         /\ \A i \in Ids : Gentle(i) \/ Deleting(i)
         /\ k.op = "put" => redis'[k.id] = k.text
<1>1. redis \in [Ids -> Values] /\ \A i \in Ids : redis[i] \in Puttable[i] \cup {Absent, Unreadable, Unparsed}
  BY Types DEF KeepInv, ErrorInv, StoreTypes, OwnTexts
<1>2. CASE k.op = "put"
  <2>1. k.id \in Ids /\ k.text \in Puttable[k.id] /\ redis' = [redis EXCEPT ![k.id] = k.text]
    BY <1>2, CommandKinds DEF Execute
  <2>2. redis'[k.id] = k.text /\ \A i \in Ids : i # k.id => redis'[i] = redis[i]
    BY <1>1, <2>1
  <2>3. \A i \in Ids : redis'[i] \in Puttable[i] \cup {Absent, Unreadable, Unparsed}
    BY <1>1, <2>1, <2>2
  <2>4. ASSUME NEW i \in Ids PROVE Gentle(i)
    <3>1. CASE i = k.id
      <4>1. \A t \in Puttable[i] : redis'[i] = t
        BY <2>1, <2>2, <3>1 DEF Disciplined
      <4>2. QED
        BY <4>1 DEF Gentle, Has
    <3>2. CASE i # k.id
      BY <2>2, <3>2 DEF Gentle, Has
    <3>3. QED
      BY <3>1, <3>2
  <2>5. QED
    BY <2>2, <2>3, <2>4
<1>3. CASE k.op = "delete"
  <2>1. k.id \in Ids /\ redis' = [redis EXCEPT ![k.id] = Absent]
    BY <1>3, CommandKinds DEF Execute
  <2>2. redis'[k.id] = Absent /\ \A i \in Ids : i # k.id => redis'[i] = redis[i]
    BY <1>1, <2>1
  <2>3. \A i \in Ids : i # k.id => Gentle(i)
    BY <2>2 DEF Gentle, Has
  <2>4. QED
    BY <1>1, <1>3, <2>2, <2>3
<1>4. CASE k.op \notin {"put", "delete"}
  <2>1. redis' = redis
    BY <1>4 DEF Execute
  <2>2. QED
    BY <1>1, <1>4, <2>1, StoreStays
<1>5. QED
  BY <1>2, <1>3, <1>4

\* Who has no part in a gentle step is due what it was due.
LEMMA Bystander ==
  ASSUME KeepInv, NEW d \in Callers,
         pc'[d] = pc[d], call'[d] = call[d], got'[d] = got[d], due'[d] = due[d],
         \A i \in Ids : Gentle(i) \/ Deleting(i)
  PROVE  DueFits(d)
<1>1. CASE due[d] = Absent
  BY <1>1 DEF DueFits
<1>2. CASE due[d] # Absent
  <2>1. call[d].op \in {"put", "get"}
    BY <1>2 DEF KeepInv, OwnTexts
  <2>2. call[d].id \in Ids /\ d \in On(call[d].id)
    BY <2>1, CallsNameIds DEF KeepInv, On
  <2>3. ~Deleting(call[d].id)
    BY <1>2, <2>2 DEF KeepInv, DeletedNotOwed
  <2>4. QED
    BY <2>2, <2>3 DEF DueFits
<1>3. QED
  BY <1>1, <1>2

LEMMA OwedStays ==
  ASSUME KeepInv, NEW r \in Replicas, NEW i \in Ids, owed'[r][i] = owed[r][i], Gentle(i) \/ Deleting(i)
  PROVE  OwedFits(r, i)
<1>1. Deleting(i) => owed[r][i] = Absent
  BY DEF KeepInv, DeletedNotOwed
<1>2. QED
  BY <1>1 DEF OwedFits

\* What a call is due is one of the texts of an id that nobody deletes.
LEMMA DueIsOwn ==
  ASSUME KeepInv, NEW c \in Callers, due[c] # Absent
  PROVE  /\ call[c].op \in {"put", "get"} /\ call[c].id \in Ids /\ ReplicaOf[c] \in Replicas
         /\ due[c] \in Puttable[call[c].id] /\ ~Deleting(call[c].id) /\ CallHolds(c)
<1>1. call[c].op \in {"put", "get"} /\ due[c] \in Puttable[call[c].id] /\ CallHolds(c)
  BY DEF KeepInv, OwnTexts, DueIsHeld
<1>2. call[c].id \in Ids /\ ReplicaOf[c] \in Replicas /\ c \in On(call[c].id)
  BY <1>1, CallsNameIds DEF KeepInv, On
<1>3. ~Deleting(call[c].id)
  BY <1>2 DEF KeepInv, DeletedNotOwed
<1>4. QED
  BY <1>1, <1>2, <1>3

\* A step of one thread within its call, which leaves the debts to all alone.
LEMMA OwnStep ==
  ASSUME KeepInv, NEW c \in Callers, UNCHANGED <<call, owed>>, pc[c] # "out",
         \A d \in Callers : d # c => pc'[d] = pc[d] /\ got'[d] = got[d] /\ due'[d] = due[d],
         \A i \in Ids : Gentle(i) \/ Deleting(i),
         \A i \in Ids : redis'[i] \in Puttable[i] \cup {Absent, Unreadable, Unparsed},
         \A i \in Ids : [op |-> "delete", id |-> i] \in wire' => [op |-> "delete", id |-> i] \in wire \/ Deleting(i),
         due'[c] # Absent => due'[c] = due[c] /\ CallHolds(c)'
  PROVE  StepFits
<1>1. ASSUME NEW d \in Callers PROVE DueFits(d)
  <2>1. CASE d # c
    BY <2>1, Bystander
  <2>2. CASE d = c
    <3>1. CASE due'[c] = Absent
      BY <2>2, <3>1 DEF DueFits
    <3>2. CASE due'[c] # Absent
      BY <2>2, <3>2, DueIsOwn DEF DueFits
    <3>3. QED
      BY <3>1, <3>2
  <2>3. QED
    BY <2>1, <2>2
<1>2. ASSUME NEW r \in Replicas, NEW i \in Ids PROVE OwedFits(r, i)
  BY OwedStays
<1>3. ASSUME NEW i \in Ids PROVE Deleting(i)' => Deleting(i)
  BY NoNewDeletion
<1>4. QED
  BY <1>1, <1>2, <1>3 DEF StepFits

LEMMA BeginFits ==
  ASSUME KeepInv, NEW c \in Callers, Begin(c)
  PROVE  StepFits
<1>t. pc \in [Callers -> Stages] /\ call \in [Callers -> Commands] /\ got \in [Callers -> Results]
  BY Types DEF KeepInv, ErrorInv, CallTypes
<1>h. owed \in [Replicas -> [Ids -> Record]] /\ due \in [Callers -> Record]
  BY Types DEF KeepInv, ErrorInv, HistoryTypes
<1>1. pc[c] = "out" /\ got' = [got EXCEPT ![c] = Nothing] /\ UNCHANGED <<redis, wire, fallback, paused>>
  BY DEF Begin, Get, store
<1>2. \A i \in Ids : Gentle(i)
  BY <1>1, StoreStays
<1>3. \A i \in Ids : redis'[i] \in Puttable[i] \cup {Absent, Unreadable, Unparsed}
  BY <1>1 DEF KeepInv, OwnTexts
<1>b. ASSUME NEW k \in Commands, call' = [call EXCEPT ![c] = k], NEW stage \in Stages, pc' = [pc EXCEPT ![c] = stage]
      PROVE  /\ call'[c] = k /\ pc'[c] = stage
             /\ \A d \in Callers : d # c => pc'[d] = pc[d] /\ call'[d] = call[d] /\ got'[d] = got[d]
  BY <1>b, <1>t, <1>1
<1>n. ASSUME NEW k \in Commands, call' = [call EXCEPT ![c] = k], NEW stage \in Stages, pc' = [pc EXCEPT ![c] = stage],
             UNCHANGED owed, k.op # "delete", \A d \in Callers : d # c => due'[d] = due[d], DueFits(c)
      PROVE  StepFits
  <2>1. ASSUME NEW d \in Callers PROVE DueFits(d)
    BY <1>n, <1>b, <1>2, Bystander
  <2>2. ASSUME NEW r \in Replicas, NEW i \in Ids PROVE OwedFits(r, i)
    BY <1>n, <1>2, OwedStays
  <2>3. ASSUME NEW i \in Ids PROVE Deleting(i)' => Deleting(i)
    <3>1. call'[c] = k /\ \A d \in Callers : d # c => pc'[d] = pc[d] /\ call'[d] = call[d]
      BY <1>n, <1>b
    <3>2. \A d \in Callers : pc'[d] # "out" /\ call'[d].op = "delete" /\ call'[d].id = i
                           => call'[d] = call[d] /\ pc[d] # "out"
      BY <3>1, <1>n
    <3>3. QED
      BY <3>2, <1>1, NoNewDeletion
  <2>4. QED
    BY <1>3, <2>1, <2>2, <2>3 DEF StepFits
<1>4. CASE BeginPut(c)
  <2>1. PICK k \in Commands : /\ k.op = "put" /\ call' = [call EXCEPT ![c] = k] /\ pc' = [pc EXCEPT ![c] = "check"]
                              /\ due' = [due EXCEPT ![c] = IF Deleting(k.id) THEN Absent ELSE k.text]
                              /\ UNCHANGED owed
    BY <1>4 DEF BeginPut, Due, Goto
  <2>2. k.id \in Ids /\ k.text \in Puttable[k.id]
    BY <2>1, CommandKinds
  <2>3. "check" \in Stages /\ call'[c] = k /\ pc'[c] = "check"
    BY <2>1, <1>b DEF Stages
  <2>4. DueFits(c)
    <3>1. CASE Deleting(k.id)
      BY <3>1, <2>1, <1>h DEF DueFits
    <3>2. CASE ~Deleting(k.id)
      <4>1. due'[c] = k.text
        BY <3>2, <2>1, <1>h
      <4>2. CallHolds(c)'
        BY <2>1, <2>3 DEF CallHolds
      <4>3. QED
        BY <3>2, <4>1, <4>2, <2>1, <2>2, <2>3 DEF DueFits
    <3>3. QED
      BY <3>1, <3>2
  <2>5. \A d \in Callers : d # c => due'[d] = due[d]
    BY <2>1, <1>h
  <2>6. QED
    BY <1>n, <2>1, <2>3, <2>4, <2>5
<1>5. CASE BeginGet(c)
  <2>1. PICK k \in Commands : /\ k.op = "get" /\ call' = [call EXCEPT ![c] = k] /\ pc' = [pc EXCEPT ![c] = "check"]
                              /\ due' = [due EXCEPT ![c] = owed[ReplicaOf[c]][k.id]]
                              /\ UNCHANGED owed
    BY <1>5 DEF BeginGet, Due, Goto
  <2>2. k.id \in Ids /\ ReplicaOf[c] \in Replicas
    BY <2>1, CommandKinds, RedisAssumption
  <2>3. "check" \in Stages /\ call'[c] = k /\ pc'[c] = "check" /\ due'[c] = owed[ReplicaOf[c]][k.id]
    BY <2>1, <1>b, <1>h DEF Stages
  <2>4. DueFits(c)
    <3>1. CASE owed[ReplicaOf[c]][k.id] = Absent
      BY <3>1, <2>3 DEF DueFits
    <3>2. CASE owed[ReplicaOf[c]][k.id] # Absent
      <4>1. /\ owed[ReplicaOf[c]][k.id] \in Puttable[k.id] /\ ~Deleting(k.id)
            /\ Has(ReplicaOf[c], k.id, owed[ReplicaOf[c]][k.id])
        BY <3>2, <2>2 DEF KeepInv, OwnTexts, DeletedNotOwed, OwedIsHeld
      <4>2. CallHolds(c)'
        BY <4>1, <2>1, <2>3, <1>1 DEF CallHolds, Has
      <4>3. QED
        BY <4>1, <4>2, <2>1, <2>3 DEF DueFits
    <3>3. QED
      BY <3>1, <3>2
  <2>5. \A d \in Callers : d # c => due'[d] = due[d]
    BY <2>1, <1>h
  <2>6. QED
    BY <1>n, <2>1, <2>3, <2>4, <2>5
<1>6. CASE BeginPing(c)
  <2>1. /\ call' = [call EXCEPT ![c] = [op |-> "ping"]] /\ pc' = [pc EXCEPT ![c] = "send"]
        /\ due' = [due EXCEPT ![c] = Absent] /\ UNCHANGED owed
    BY <1>6 DEF BeginPing, Due, Goto
  <2>2. "send" \in Stages /\ DueFits(c) /\ \A d \in Callers : d # c => due'[d] = due[d]
    BY <2>1, <1>h DEF Stages, DueFits
  <2>3. QED
    BY <1>n, <2>1, <2>2, Ping
<1>7. CASE BeginDelete(c)
  <2>1. PICK k \in Commands : /\ k.op = "delete" /\ call' = [call EXCEPT ![c] = k] /\ pc' = [pc EXCEPT ![c] = "forget"]
                              /\ owed' = [r \in Replicas |-> [owed[r] EXCEPT ![k.id] = Absent]]
                              /\ due' = [d \in Callers |-> IF d = c \/ d \in On(k.id) THEN Absent ELSE due[d]]
    BY <1>7 DEF BeginDelete, Goto
  <2>2. k.id \in Ids
    BY <2>1, CommandKinds
  <2>3. /\ "forget" \in Stages /\ call'[c] = k /\ pc'[c] = "forget"
        /\ \A d \in Callers : d # c => pc'[d] = pc[d] /\ call'[d] = call[d] /\ got'[d] = got[d]
    BY <2>1, <1>b DEF Stages
  <2>4. \A d \in Callers : due'[d] = IF d = c \/ d \in On(k.id) THEN Absent ELSE due[d]
    BY <2>1
  <2>5. ASSUME NEW d \in Callers PROVE DueFits(d)
    <3>1. CASE d = c \/ d \in On(k.id)
      BY <3>1, <2>4 DEF DueFits
    <3>2. CASE d # c /\ d \notin On(k.id)
      BY <3>2, <2>3, <2>4, <1>2, Bystander
    <3>3. QED
      BY <3>1, <3>2
  <2>6. \A r \in Replicas, i \in Ids : owed'[r][i] = IF i = k.id THEN Absent ELSE owed[r][i]
    BY <2>1, <2>2, <1>h
  <2>7. ASSUME NEW r \in Replicas, NEW i \in Ids PROVE OwedFits(r, i)
    <3>1. CASE i = k.id
      BY <3>1, <2>6 DEF OwedFits
    <3>2. CASE i # k.id
      BY <3>2, <2>6, <1>2, OwedStays
    <3>3. QED
      BY <3>1, <3>2
  <2>8. ASSUME NEW i \in Ids PROVE Deleting(i)' => Deleting(i) \/ Cleared(i)'
    <3>1. CASE i = k.id
      <4>1. ASSUME NEW d \in On(i)' PROVE due'[d] = Absent
        <5>1. d \in Callers /\ call'[d].op # "ping" /\ call'[d].id = i
          BY <4>1 DEF On
        <5>2. d # c => d \in On(k.id)
          BY <5>1, <3>1, <2>3 DEF On
        <5>3. QED
          BY <5>1, <5>2, <2>4
      <4>2. QED
        BY <3>1, <4>1, <2>6 DEF Cleared
    <3>2. CASE i # k.id
      BY <3>2, <2>3, <1>1, NoNewDeletion
    <3>3. QED
      BY <3>1, <3>2
  <2>9. QED
    BY <1>3, <2>5, <2>7, <2>8 DEF StepFits
<1>8. QED
  BY <1>4, <1>5, <1>6, <1>7 DEF Begin

LEMMA ForgetFits ==
  ASSUME KeepInv, NEW c \in Callers, Forget(c)
  PROVE  StepFits
<1>1. /\ pc[c] = "forget" /\ call[c].op = "delete"
      /\ fallback' = [fallback EXCEPT ![ReplicaOf[c]][call[c].id] = Absent]
      /\ pc' = [pc EXCEPT ![c] = "check"] /\ UNCHANGED <<redis, wire, paused, call, got, owed, due>>
  BY DEF Forget, Goto, KeepInv, ErrorInv, StagesFit
<1>2. /\ pc \in [Callers -> Stages] /\ fallback \in [Replicas -> [Ids -> Record]]
      /\ call[c].id \in Ids /\ ReplicaOf[c] \in Replicas
  BY <1>1, Types, CallsNameIds DEF KeepInv, ErrorInv, CallTypes, StoreTypes
<1>3. Deleting(call[c].id)
  BY <1>1, UnderWay
<1>4. ASSUME NEW i \in Ids, i # call[c].id PROVE Gentle(i)
  <2>1. \A r \in Replicas : fallback'[r][i] = fallback[r][i]
    BY <1>1, <1>2, <1>4
  <2>2. QED
    BY <1>1, <2>1 DEF Gentle, Has
<1>5. \A i \in Ids : redis'[i] \in Puttable[i] \cup {Absent, Unreadable, Unparsed}
  BY <1>1 DEF KeepInv, OwnTexts
<1>6. due'[c] = Absent
  BY <1>1, DueIsOwn
<1>7. QED
  BY <1>1, <1>2, <1>3, <1>4, <1>5, <1>6, OwnStep

LEMMA CheckFits ==
  ASSUME KeepInv, NEW c \in Callers, Check(c)
  PROVE  StepFits
<1>1. /\ pc[c] = "check" /\ UNCHANGED <<redis, wire, fallback, call, owed>>
      /\ pc \in [Callers -> Stages] /\ due \in [Callers -> Record] /\ got \in [Callers -> Results]
  BY Types DEF Check, KeepInv, ErrorInv, CallTypes, HistoryTypes
<1>2. /\ \A i \in Ids : Gentle(i)
      /\ \A i \in Ids : redis'[i] \in Puttable[i] \cup {Absent, Unreadable, Unparsed}
  BY <1>1, StoreStays DEF KeepInv, OwnTexts
<1>3. \A d \in Callers : d # c => pc'[d] = pc[d] /\ got'[d] = got[d] /\ due'[d] = due[d]
  BY <1>1 DEF Check, Goto, Get, Due
<1>4. ASSUME due'[c] # Absent PROVE due'[c] = due[c] /\ CallHolds(c)'
  <2>1. due'[c] = due[c]
    BY <1>1, <1>4 DEF Check, Due
  <2>2. /\ due[c] \in Puttable[call[c].id] /\ CallHolds(c) /\ call[c].op \in {"put", "get"}
    BY <2>1, <1>4, DueIsOwn
  <2>3. CASE call[c].op = "put"
    <3>1. call'[c].op = "put" /\ pc'[c] # "receive"
      BY <2>3, <1>1 DEF Check, Goto
    <3>2. QED
      BY <2>1, <3>1 DEF CallHolds
  <2>4. CASE call[c].op = "get"
    <3>1. CASE paused[ReplicaOf[c]]
      BY <3>1, <2>4, <1>1, <1>4 DEF Check, Due
    <3>2. CASE ~paused[ReplicaOf[c]]
      <4>1. pc'[c] = "send"
        BY <3>2, <1>1 DEF Check, Goto
      <4>2. QED
        BY <4>1, <2>1, <2>2, <2>4, <1>1 DEF CallHolds, Has
    <3>3. QED
      BY <3>1, <3>2
  <2>5. QED
    BY <2>1, <2>2, <2>3, <2>4
<1>5. QED
  BY <1>1, <1>2, <1>3, <1>4, OwnStep

LEMMA SendFits ==
  ASSUME KeepInv, Disciplined, NEW c \in Callers, Send(c)
  PROVE  StepFits
<1>1. /\ pc[c] = "send" /\ pc' = [pc EXCEPT ![c] = "receive"] /\ UNCHANGED <<fallback, paused, call, owed, due>>
      /\ pc \in [Callers -> Stages] /\ got \in [Callers -> Results] /\ call[c] \in Commands
  BY Types DEF Send, Goto, KeepInv, ErrorInv, CallTypes
<1>2. pc'[c] = "receive" /\ \A d \in Callers : d # c => pc'[d] = pc[d] /\ got'[d] = got[d] /\ due'[d] = due[d]
  BY <1>1 DEF Send, Get
<1>3. call[c].op = "delete" => Deleting(call[c].id)
  BY <1>1, UnderWay
<1>4. CASE Execute(call[c]) /\ got' = [got EXCEPT ![c] = IF call[c].op = "get" THEN redis[call[c].id] ELSE Done]
           /\ UNCHANGED wire
  <2>1. /\ \A i \in Ids : redis'[i] \in Puttable[i] \cup {Absent, Unreadable, Unparsed}
        /\ \A i \in Ids : Gentle(i) \/ Deleting(i)
        /\ call[c].op = "put" => redis'[call[c].id] = call[c].text
    BY <1>1, <1>3, <1>4, Executed
  <2>2. ASSUME due'[c] # Absent PROVE CallHolds(c)'
    <3>1. /\ call[c].op \in {"put", "get"} /\ due[c] \in Puttable[call[c].id] /\ CallHolds(c) /\ call[c].id \in Ids
      BY <2>2, <1>1, DueIsOwn
    <3>2. CASE call[c].op = "put"
      <4>1. call[c].text \in Puttable[call[c].id]
        BY <3>2, <1>1, CommandKinds
      <4>2. redis'[call[c].id] = due'[c]
        BY <4>1, <3>1, <3>2, <2>1, <1>1 DEF Disciplined
      <4>3. QED
        BY <4>2, <3>2, <1>1 DEF CallHolds
    <3>3. CASE call[c].op = "get"
      <4>1. got'[c] = redis[call[c].id] /\ Has(ReplicaOf[c], call[c].id, due[c])
        BY <3>1, <3>3, <1>1, <1>4 DEF CallHolds
      <4>2. QED
        BY <4>1, <3>3, <1>1, <1>2 DEF CallHolds, Has
    <3>4. QED
      BY <3>1, <3>2, <3>3
  <2>3. QED
    BY <1>1, <1>2, <1>4, <2>1, <2>2, OwnStep
<1>5. CASE \E f \in Failures :
             /\ got' = [got EXCEPT ![c] = f]
             /\ wire' = IF f = "late" /\ call[c].op \in {"put", "delete"} THEN wire \cup {call[c]} ELSE wire
             /\ UNCHANGED redis
  <2>1. PICK f \in Failures :
             /\ got' = [got EXCEPT ![c] = f]
             /\ wire' = IF f = "late" /\ call[c].op \in {"put", "delete"} THEN wire \cup {call[c]} ELSE wire
             /\ UNCHANGED redis
    BY <1>5
  <2>2. /\ \A i \in Ids : Gentle(i)
        /\ \A i \in Ids : redis'[i] \in Puttable[i] \cup {Absent, Unreadable, Unparsed}
    BY <1>1, <2>1, StoreStays DEF KeepInv, OwnTexts
  <2>3. ASSUME NEW i \in Ids, [op |-> "delete", id |-> i] \in wire'
        PROVE  [op |-> "delete", id |-> i] \in wire \/ Deleting(i)
    <3>1. CASE [op |-> "delete", id |-> i] = call[c]
      <4>1. call[c].op = "delete" /\ call[c].id = i
        BY <3>1
      <4>2. QED
        BY <4>1, <1>3
    <3>2. CASE [op |-> "delete", id |-> i] # call[c]
      BY <2>1, <2>3, <3>2
    <3>3. QED
      BY <3>1, <3>2
  <2>4. ASSUME due'[c] # Absent PROVE CallHolds(c)'
    <3>1. got'[c] \in Failures /\ Fault(got[c])'
      BY <1>1, <2>1 DEF Fault
    <3>2. QED
      BY <3>1, <1>2 DEF CallHolds
  <2>5. QED
    BY <1>1, <1>2, <2>2, <2>3, <2>4, OwnStep
<1>6. QED
  BY <1>4, <1>5 DEF Send, Get

LEMMA FailureFits ==
  ASSUME KeepInv, NEW c \in Callers, ReceiveFailure(c)
  PROVE  StepFits
<1>1. /\ pc[c] = "receive" /\ Fault(got[c]) /\ UNCHANGED <<redis, wire, fallback, call, owed>>
      /\ pc \in [Callers -> Stages] /\ due \in [Callers -> Record] /\ got \in [Callers -> Results]
  BY Types DEF ReceiveFailure, KeepInv, ErrorInv, CallTypes, HistoryTypes
<1>2. /\ \A i \in Ids : Gentle(i)
      /\ \A i \in Ids : redis'[i] \in Puttable[i] \cup {Absent, Unreadable, Unparsed}
  BY <1>1, StoreStays DEF KeepInv, OwnTexts
<1>3. \A d \in Callers : d # c => pc'[d] = pc[d] /\ got'[d] = got[d] /\ due'[d] = due[d]
  BY <1>1 DEF ReceiveFailure, Goto, Get, Due
<1>4. ASSUME due'[c] # Absent PROVE due'[c] = due[c] /\ CallHolds(c)'
  <2>1. due'[c] = due[c]
    BY <1>1, <1>4 DEF ReceiveFailure, Due
  <2>2. /\ due[c] \in Puttable[call[c].id] /\ CallHolds(c) /\ call[c].op \in {"put", "get"} /\ call[c].id \in Ids
    BY <2>1, <1>4, DueIsOwn
  <2>3. pc'[c] = "local" /\ UNCHANGED got
    BY <2>2, <1>1 DEF ReceiveFailure, Goto
  <2>4. CASE call[c].op = "put"
    <3>1. call'[c].op = "put" /\ pc'[c] = "local"
      BY <2>3, <2>4, <1>1
    <3>2. QED
      BY <2>1, <3>1 DEF CallHolds
  <2>5. CASE call[c].op = "get"
    <3>1. got[c] \notin Failures /\ got[c] = Unparsed
      BY <2>5, <1>1, <1>4 DEF ReceiveFailure, Due, Fault
    <3>2. Unparsed # due[c] /\ Unparsed # Unreadable
      BY <2>2, MarksAre, MarksDiffer, Kinds, RedisAssumption
    <3>3. fallback[ReplicaOf[c]][call[c].id] = due[c]
      BY <3>1, <3>2, <2>2, <2>5, <1>1 DEF CallHolds
    <3>4. QED
      BY <3>3, <2>1, <2>3, <2>5, <1>1 DEF CallHolds
  <2>6. QED
    BY <2>1, <2>2, <2>4, <2>5
<1>5. QED
  BY <1>1, <1>2, <1>3, <1>4, OwnStep

LEMMA AnswerFits ==
  ASSUME KeepInv, NEW c \in Callers, ReceiveAnswer(c)
  PROVE  StepFits
<1>1. /\ pc[c] = "receive" /\ ~Fault(got[c]) /\ UNCHANGED <<redis, wire, fallback, call, got, due>>
      /\ pc' = [pc EXCEPT ![c] = IF call[c].op = "get" /\ got[c] = Absent THEN "local" ELSE "out"]
      /\ owed' = IF call[c].op = "put" /\ due[c] # Absent
                 THEN [q \in Replicas |-> [owed[q] EXCEPT ![call[c].id] = due[c]]] ELSE owed
      /\ pc \in [Callers -> Stages] /\ owed \in [Replicas -> [Ids -> Record]]
  BY Types DEF ReceiveAnswer, Goto, KeepInv, ErrorInv, CallTypes, HistoryTypes
<1>2. /\ \A i \in Ids : Gentle(i)
      /\ \A i \in Ids : redis'[i] \in Puttable[i] \cup {Absent, Unreadable, Unparsed}
  BY <1>1, StoreStays DEF KeepInv, OwnTexts
<1>3. /\ pc'[c] = IF call[c].op = "get" /\ got[c] = Absent THEN "local" ELSE "out"
      /\ \A d \in Callers : d # c => pc'[d] = pc[d] /\ call'[d] = call[d] /\ got'[d] = got[d] /\ due'[d] = due[d]
  BY <1>1
<1>4. ASSUME due[c] # Absent PROVE CallHolds(c)'
  <2>1. /\ due[c] \in Puttable[call[c].id] /\ CallHolds(c) /\ call[c].op \in {"put", "get"} /\ call[c].id \in Ids
    BY <1>4, DueIsOwn
  <2>2. CASE call[c].op = "put"
    <3>1. call'[c].op = "put" /\ pc'[c] # "receive"
      BY <2>2, <1>1, <1>3
    <3>2. QED
      BY <3>1 DEF CallHolds
  <2>3. CASE call[c].op = "get"
    <3>1. /\ got[c] \notin Failures /\ got[c] # Unparsed
          /\ \/ got[c] \in {due[c], Unreadable}
             \/ got[c] \in {Absent, Unparsed} /\ fallback[ReplicaOf[c]][call[c].id] = due[c]
      BY <2>1, <2>3, <1>1 DEF CallHolds, Fault
    <3>2. due[c] # Absent /\ Unreadable # Absent
      BY <1>4, MarksDiffer
    <3>3. call'[c] = call[c] /\ got'[c] = got[c] /\ due'[c] = due[c] /\ fallback' = fallback
      BY <1>1
    <3>4. CASE got[c] = Absent
      BY <3>1, <3>2, <3>3, <3>4, <2>3, <1>3 DEF CallHolds
    <3>5. CASE got[c] # Absent
      BY <3>1, <3>3, <3>5, <2>3, <1>3 DEF CallHolds
    <3>6. QED
      BY <3>4, <3>5
  <2>4. QED
    BY <2>1, <2>2, <2>3
<1>5. ASSUME NEW d \in Callers PROVE DueFits(d)
  <2>1. CASE d # c
    BY <2>1, <1>2, <1>3, <1>1, Bystander
  <2>2. CASE d = c /\ due[c] = Absent
    BY <2>2, <1>1 DEF DueFits
  <2>3. CASE d = c /\ due[c] # Absent
    BY <2>3, <1>1, <1>4, DueIsOwn DEF DueFits
  <2>4. QED
    BY <2>1, <2>2, <2>3
<1>6. ASSUME NEW r \in Replicas, NEW i \in Ids PROVE OwedFits(r, i)
  <2>1. CASE owed'[r][i] = owed[r][i]
    BY <2>1, <1>2, OwedStays
  <2>2. CASE owed'[r][i] # owed[r][i]
    <3>1. call[c].op = "put" /\ due[c] # Absent
      BY <2>2, <1>1
    <3>2. due[c] \in Puttable[call[c].id] /\ CallHolds(c) /\ call[c].id \in Ids /\ ~Deleting(call[c].id)
      BY <3>1, DueIsOwn
    <3>3. i = call[c].id /\ owed'[r][i] = due[c]
      BY <2>2, <3>1, <3>2, <1>1
    <3>4. redis'[i] = due[c]
      BY <3>1, <3>2, <3>3, <1>1 DEF CallHolds
    <3>5. Has(r, i, due[c])'
      BY <3>4, <1>1 DEF Has
    <3>6. QED
      BY <3>2, <3>3, <3>5, <1>1 DEF OwedFits
  <2>3. QED
    BY <2>1, <2>2
<1>7. ASSUME NEW i \in Ids PROVE Deleting(i)' => Deleting(i)
  <2>1. \A d \in Callers : pc'[d] # "out" => pc[d] # "out"
    BY <1>1, <1>3
  <2>2. QED
    BY <1>1, <2>1, NoNewDeletion
<1>8. QED
  BY <1>2, <1>5, <1>6, <1>7 DEF StepFits

LEMMA LocalFits ==
  ASSUME KeepInv, Disciplined, NEW c \in Callers, Local(c)
  PROVE  StepFits
<1>1. /\ pc[c] = "local" /\ pc' = [pc EXCEPT ![c] = "out"] /\ UNCHANGED <<redis, wire, paused, call, due>>
      /\ pc \in [Callers -> Stages] /\ owed \in [Replicas -> [Ids -> Record]] /\ got \in [Callers -> Results]
      /\ fallback \in [Replicas -> [Ids -> Record]] /\ call[c] \in Commands
      /\ call[c].op \in {"put", "get"}
  BY Types DEF Local, Goto, KeepInv, ErrorInv, CallTypes, HistoryTypes, StoreTypes, StagesFit
<1>2. \A i \in Ids : redis'[i] \in Puttable[i] \cup {Absent, Unreadable, Unparsed}
  BY <1>1 DEF KeepInv, OwnTexts
<1>3. /\ pc'[c] = "out"
      /\ \A d \in Callers : d # c => pc'[d] = pc[d] /\ call'[d] = call[d] /\ got'[d] = got[d] /\ due'[d] = due[d]
  BY <1>1 DEF Local, Get
<1>4. ReplicaOf[c] \in Replicas /\ call[c].id \in Ids
  BY <1>1, CallsNameIds DEF KeepInv
<1>5. CASE call[c].op = "put"
  <2>1. /\ fallback' = [fallback EXCEPT ![ReplicaOf[c]][call[c].id] = call[c].text]
        /\ owed' = IF due[c] # Absent THEN [owed EXCEPT ![ReplicaOf[c]][call[c].id] = due[c]] ELSE owed
        /\ call[c].text \in Puttable[call[c].id]
    BY <1>1, <1>5, CommandKinds DEF Local
  <2>2. \A r \in Replicas, i \in Ids :
          fallback'[r][i] = IF r = ReplicaOf[c] /\ i = call[c].id THEN call[c].text ELSE fallback[r][i]
    BY <2>1, <1>1, <1>4
  <2>3. ASSUME NEW i \in Ids PROVE Gentle(i)
    <3>1. CASE i = call[c].id
      <4>1. \A t \in Puttable[i] : t = call[c].text
        BY <3>1, <2>1 DEF Disciplined
      <4>2. QED
        BY <4>1, <2>2, <1>1 DEF Gentle, Has
    <3>2. CASE i # call[c].id
      BY <3>2, <2>2, <1>1 DEF Gentle, Has
    <3>3. QED
      BY <3>1, <3>2
  <2>4. ASSUME due[c] # Absent
        PROVE  due[c] = call[c].text /\ due[c] \in Puttable[call[c].id] /\ ~Deleting(call[c].id)
    BY <2>4, <2>1, <1>4, DueIsOwn DEF Disciplined
  <2>5. ASSUME NEW d \in Callers PROVE DueFits(d)
    <3>1. CASE d # c
      BY <3>1, <2>3, <1>3, Bystander
    <3>2. CASE d = c
      <4>1. call'[c].op = "put" /\ pc'[c] = "out"
        BY <1>1, <1>3, <1>5
      <4>2. CallHolds(c)'
        BY <4>1 DEF CallHolds
      <4>3. QED
        BY <3>2, <4>1, <4>2, <2>4, <1>1 DEF DueFits
    <3>3. QED
      BY <3>1, <3>2
  <2>6. ASSUME NEW r \in Replicas, NEW i \in Ids PROVE OwedFits(r, i)
    <3>1. CASE owed'[r][i] = owed[r][i]
      BY <3>1, <2>3, OwedStays
    <3>2. CASE owed'[r][i] # owed[r][i]
      <4>1. due[c] # Absent
        BY <3>2, <2>1
      <4>2. r = ReplicaOf[c] /\ i = call[c].id /\ owed'[r][i] = due[c]
        BY <3>2, <4>1, <2>1, <1>1, <1>4
      <4>3. fallback'[r][i] = due[c]
        BY <4>1, <4>2, <2>2, <2>4
      <4>4. redis'[i] \in {due[c], Absent, Unreadable, Unparsed}
        BY <4>1, <4>2, <2>4, <1>2 DEF Disciplined
      <4>5. Has(r, i, due[c])'
        BY <4>3, <4>4, <1>1 DEF Has
      <4>6. QED
        BY <4>1, <4>2, <4>5, <2>4, <1>1 DEF OwedFits
    <3>3. QED
      BY <3>1, <3>2
  <2>7. ASSUME NEW i \in Ids PROVE Deleting(i)' => Deleting(i)
    <3>1. \A d \in Callers : pc'[d] # "out" => pc[d] # "out"
      BY <1>1, <1>3
    <3>2. QED
      BY <1>1, <3>1, NoNewDeletion
  <2>8. QED
    BY <1>2, <2>5, <2>6, <2>7 DEF StepFits
<1>6. CASE call[c].op = "get"
  <2>1. got'[c] = fallback[ReplicaOf[c]][call[c].id] /\ UNCHANGED <<fallback, owed>>
    BY <1>1, <1>6 DEF Local, Get
  <2>2. \A i \in Ids : Gentle(i)
    BY <1>1, <2>1, StoreStays
  <2>3. ASSUME due'[c] # Absent PROVE due'[c] = due[c] /\ CallHolds(c)'
    <3>1. fallback[ReplicaOf[c]][call[c].id] = due[c]
      BY <2>3, <1>1, <1>6, DueIsOwn DEF CallHolds
    <3>2. QED
      BY <3>1, <2>1, <1>1, <1>3, <1>6 DEF CallHolds
  <2>4. QED
    BY <1>1, <1>2, <1>3, <2>1, <2>2, <2>3, OwnStep
<1>7. QED
  BY <1>1, <1>5, <1>6

\* A step of the world in which no record lapses.
LEMMA WorldFits ==
  ASSUME KeepInv, UNCHANGED <<pc, call, got, owed, due>>, wire' \subseteq wire,
         \A i \in Ids : Gentle(i) \/ Deleting(i),
         \A i \in Ids : redis'[i] \in Puttable[i] \cup {Absent, Unreadable, Unparsed}
  PROVE  StepFits
<1>1. ASSUME NEW d \in Callers PROVE DueFits(d)
  BY Bystander
<1>2. ASSUME NEW r \in Replicas, NEW i \in Ids PROVE OwedFits(r, i)
  BY OwedStays
<1>3. ASSUME NEW i \in Ids PROVE Deleting(i)' => Deleting(i)
  BY NoNewDeletion
<1>4. QED
  BY <1>1, <1>2, <1>3 DEF StepFits

\* A record lapses, and nobody relies on it any more.
LEMMA LapseFits ==
  ASSUME KeepInv, NEW i \in Ids, Release(i), UNCHANGED <<pc, call, got, wire>>,
         \A j \in Ids : j # i => Gentle(j),
         \A j \in Ids : redis'[j] \in Puttable[j] \cup {Absent, Unreadable, Unparsed}
  PROVE  StepFits
<1>1. /\ \A r \in Replicas, j \in Ids : owed'[r][j] = IF j = i THEN Absent ELSE owed[r][j]
      /\ \A d \in Callers : due'[d] = IF d \in On(i) THEN Absent ELSE due[d]
  <2>1. owed \in [Replicas -> [Ids -> Record]]
    BY Types DEF KeepInv, ErrorInv, HistoryTypes
  <2>2. QED
    BY <2>1 DEF Release
<1>2. ASSUME NEW d \in Callers PROVE DueFits(d)
  <2>1. CASE due'[d] = Absent
    BY <2>1 DEF DueFits
  <2>2. CASE due'[d] # Absent
    <3>1. d \notin On(i) /\ due'[d] = due[d]
      BY <2>2, <1>1
    <3>2. call[d].op \in {"put", "get"} /\ call[d].id \in Ids
      BY <2>2, <3>1, DueIsOwn
    <3>3. Gentle(call[d].id)
      BY <3>1, <3>2 DEF On
    <3>4. QED
      BY <3>1, <3>3 DEF DueFits
  <2>3. QED
    BY <2>1, <2>2
<1>3. ASSUME NEW r \in Replicas, NEW j \in Ids PROVE OwedFits(r, j)
  BY <1>1 DEF OwedFits
<1>4. ASSUME NEW j \in Ids PROVE Deleting(j)' => Deleting(j)
  BY NoNewDeletion
<1>5. QED
  BY <1>2, <1>3, <1>4 DEF StepFits

LEMMA NextKeep == Disciplined /\ KeepInv /\ [Next]_vars => KeepInv'
<1> SUFFICES ASSUME Disciplined, KeepInv, [Next]_vars PROVE KeepInv'
  OBVIOUS
<1>e. ErrorInv'
  BY NextErrors DEF KeepInv
<1>t. redis \in [Ids -> Values] /\ wire \subseteq Commands /\ fallback \in [Replicas -> [Ids -> Record]]
  BY Types DEF KeepInv, ErrorInv, StoreTypes
<1>r. \A i \in Ids : redis[i] \in Puttable[i] \cup {Absent, Unreadable, Unparsed}
  BY DEF KeepInv, OwnTexts
<1>1. ASSUME NEW c \in Callers, Begin(c) \/ Forget(c) \/ Check(c) \/ Send(c) \/ ReceiveFailure(c) \/ ReceiveAnswer(c) \/ Local(c)
      PROVE  StepFits
  BY <1>1, BeginFits, ForgetFits, CheckFits, SendFits, FailureFits, AnswerFits, LocalFits
<1>2. ASSUME Late PROVE StepFits
  <2>1. PICK k \in wire : Execute(k) /\ wire' = wire \ {k} /\ UNCHANGED <<fallback, paused, pc, call, got, owed, due>>
    BY <1>2 DEF Late
  <2>2. k \in Commands
    BY <1>t, <2>1
  <2>3. k.op = "delete" => Deleting(k.id)
    <3>1. k.op = "delete" => k = [op |-> "delete", id |-> k.id]
      BY <2>2, CommandKinds
    <3>2. QED
      BY <3>1, <2>1 DEF Deleting
  <2>4. /\ \A i \in Ids : redis'[i] \in Puttable[i] \cup {Absent, Unreadable, Unparsed}
        /\ \A i \in Ids : Gentle(i) \/ Deleting(i)
    BY <2>1, <2>2, <2>3, Executed
  <2>5. QED
    BY <2>1, <2>4, WorldFits
<1>3. ASSUME Lose \/ Resume \/ UNCHANGED vars PROVE StepFits
  <2>1. UNCHANGED <<redis, fallback, pc, call, got, owed, due>> /\ wire' \subseteq wire
    BY <1>3 DEF Lose, Resume, vars
  <2>2. \A i \in Ids : Gentle(i)
    BY <2>1, StoreStays
  <2>3. QED
    BY <1>r, <2>1, <2>2, WorldFits
<1>4. ASSUME LapseShared PROVE StepFits
  <2>1. PICK i \in Ids :
          /\ redis' \in {[redis EXCEPT ![i] = v] :
                         v \in {Absent} \cup (IF redis[i] \in Texts THEN {Unreadable, Unparsed} ELSE {})}
          /\ Release(i)
    BY <1>4 DEF LapseShared
  <2>2. PICK v \in {Absent, Unreadable, Unparsed} : redis' = [redis EXCEPT ![i] = v]
    BY <2>1
  <2>3. UNCHANGED <<wire, fallback, paused, pc, call, got>>
    BY <1>4 DEF LapseShared
  <2>4. \A j \in Ids : redis'[j] = IF j = i THEN v ELSE redis[j]
    BY <1>t, <2>2
  <2>5. \A j \in Ids : j # i => Gentle(j)
    BY <2>3, <2>4 DEF Gentle, Has
  <2>6. \A j \in Ids : redis'[j] \in Puttable[j] \cup {Absent, Unreadable, Unparsed}
    BY <1>r, <2>4
  <2>7. QED
    BY <2>1, <2>3, <2>5, <2>6, LapseFits
<1>5. ASSUME LapseLocal PROVE StepFits
  <2>1. PICK r \in Replicas, i \in Ids : fallback' = [fallback EXCEPT ![r][i] = Absent] /\ Release(i)
    BY <1>5 DEF LapseLocal
  <2>2. UNCHANGED <<redis, wire, paused, pc, call, got>>
    BY <1>5 DEF LapseLocal
  <2>3. \A q \in Replicas, j \in Ids : j # i => fallback'[q][j] = fallback[q][j]
    BY <1>t, <2>1
  <2>4. \A j \in Ids : j # i => Gentle(j)
    BY <2>2, <2>3 DEF Gentle, Has
  <2>5. QED
    BY <1>r, <2>1, <2>2, <2>4, LapseFits
<1>6. StepFits
  BY <1>1, <1>2, <1>3, <1>4, <1>5 DEF Next
<1>7. QED
  BY <1>e, <1>6, Holds

\* If an id is used for one text, whatever Redis, the connections and the pauses do,
\* a record once put is found by the replica that put it, and by all of them if Redis
\* took it, unless it lapsed, was deleted, or Redis did not answer the Get.
THEOREM RecordsAreReadBack == Disciplined => (Spec => []RecordsReadBack)
<1> SUFFICES ASSUME Disciplined PROVE Spec => []RecordsReadBack
  OBVIOUS
<1>1. KeepInv /\ [Next]_vars => KeepInv'
  BY NextKeep
<1>2. KeepInv => RecordsReadBack
  BY DEF KeepInv, ErrorInv, DueIsHeld, CallHolds, RecordsReadBack
<1>3. QED
  BY <1>1, <1>2, InitKeep, PTL DEF Spec

-----------------------------------------------------------------------------
(* While nothing fails, the store is the one the replicas expect.           *)

\* Nobody has turned to a memory, and an answer fits its call.
Calm ==
  /\ wire = {}
  /\ \A r \in Replicas : ~paused[r]
  /\ \A r \in Replicas, i \in Ids : fallback[r][i] = Absent
  /\ \A c \in Callers :
       /\ pc[c] = "receive" /\ call[c].op # "get" => got[c] = Done
       /\ pc[c] = "local" => call[c].op = "get" /\ got[c] \in {Absent, Unparsed}

CalmInv == ErrorInv /\ Calm

LEMMA SeenIs ==
  /\ \A v \in Texts \cup {Absent, Unreadable, Nothing, Done} : Seen(v) = v
  /\ Seen(Unparsed) = Absent
BY MarksAre, MarksDiffer, Kinds, RedisAssumption DEF Seen

\* One call goes on, and the others stand where they stood.
LEMMA StageMoves ==
  ASSUME ErrorInv, NEW c \in Callers, NEW stage \in Stages, pc' = [pc EXCEPT ![c] = stage]
  PROVE  /\ Stage(c)' = CASE stage = "out" -> "out" [] stage \in {"receive", "local"} -> "served" [] OTHER -> "asked"
         /\ \A d \in Callers : d # c => Stage(d)' = Stage(d)
<1>1. pc'[c] = stage /\ \A d \in Callers : d # c => pc'[d] = pc[d]
  BY Types DEF ErrorInv, CallTypes
<1>2. QED
  BY <1>1 DEF Stage

StageFun == [c \in Callers |-> Stage(c)]
SeenMap == [i \in Ids |-> Seen(redis[i])]
SeenAnswers == [c \in Callers |-> Seen(got[c])]

LEMMA SharedVars ==
  UNCHANGED <<StageFun, SeenMap, SeenAnswers, call>> => UNCHANGED Shared!vars
BY DEF Shared!vars, StageFun, SeenMap, SeenAnswers

LEMMA AskFits ==
  ASSUME CalmInv, Failures = {}, NEW c \in Callers, Begin(c)
  PROVE  Shared!Ask(c)
<1>t. CallTypes
  BY Types DEF CalmInv, ErrorInv
<1>1. pc[c] = "out" /\ got' = [got EXCEPT ![c] = Nothing] /\ redis' = redis
  BY DEF Begin, Get, store
<1>2. PICK k \in Commands, stage \in {"check", "forget", "send"} :
        call' = [call EXCEPT ![c] = k] /\ pc' = [pc EXCEPT ![c] = stage]
  BY Ping DEF Begin, BeginPut, BeginGet, BeginDelete, BeginPing, Goto
<1>3. k \in Shared!Commands
  <2>1. CASE k \in Puts
    <3>1. PICK i \in Ids : k \in [op : {"put"}, id : {i}, text : Puttable[i]]
      BY <2>1 DEF Puts
    <3>2. k \in [op : {"put"}, id : Ids, text : Texts]
      BY <3>1, RedisAssumption
    <3>3. QED
      BY <3>2 DEF Shared!Commands
  <2>2. CASE k \in Others
    BY <2>2 DEF Others, Shared!Commands
  <2>3. CASE k \in Pings
    BY <2>3 DEF Pings, Shared!Commands
  <2>4. QED
    BY <2>1, <2>2, <2>3, CommandSets
<1>4. Stage(c) = "out" /\ Stage(c)' = "asked" /\ \A d \in Callers : d # c => Stage(d)' = Stage(d)
  BY <1>1, <1>2, StageMoves DEF Stage, Stages, CalmInv
<1>5. StageFun' = [StageFun EXCEPT ![c] = "asked"]
  BY <1>4 DEF StageFun
<1>6. SeenAnswers' = [SeenAnswers EXCEPT ![c] = Nothing]
  <2>1. Seen(got'[c]) = Nothing /\ \A d \in Callers : d # c => Seen(got'[d]) = Seen(got[d])
    BY <1>1, <1>t, SeenIs DEF CallTypes
  <2>2. QED
    BY <2>1 DEF SeenAnswers
<1>7. SeenMap' = SeenMap
  BY <1>1 DEF SeenMap
<1>8. StageFun[c] = "out"
  BY <1>4 DEF StageFun
<1>9. QED
  BY <1>2, <1>3, <1>5, <1>6, <1>7, <1>8 DEF Shared!Ask, StageFun, SeenMap, SeenAnswers

LEMMA ServeFits ==
  ASSUME CalmInv, Failures = {}, NEW c \in Callers, Send(c)
  PROVE  Shared!Serve(c)
<1>t. CallTypes /\ StoreTypes
  BY Types DEF CalmInv, ErrorInv
<1>1. /\ pc[c] = "send" /\ pc' = [pc EXCEPT ![c] = "receive"] /\ UNCHANGED call
      /\ Execute(call[c]) /\ got' = [got EXCEPT ![c] = IF call[c].op = "get" THEN redis[call[c].id] ELSE Done]
  BY DEF Send, Goto, Get
<1>2. call[c] \in Commands /\ redis \in [Ids -> Values] /\ got \in [Callers -> Results]
  BY <1>t DEF CallTypes, StoreTypes
<1>3. Stage(c) = "asked" /\ Stage(c)' = "served" /\ \A d \in Callers : d # c => Stage(d)' = Stage(d)
  BY <1>1, StageMoves DEF Stage, Stages, CalmInv
<1>4. StageFun[c] = "asked" /\ StageFun' = [StageFun EXCEPT ![c] = "served"]
  BY <1>3 DEF StageFun
<1>5. SeenAnswers' = [SeenAnswers EXCEPT ![c] = IF call[c].op = "get" THEN SeenMap[call[c].id] ELSE Done]
  <2>1. \A d \in Callers : d # c => Seen(got'[d]) = Seen(got[d])
    BY <1>1, <1>2
  <2>2. Seen(got'[c]) = IF call[c].op = "get" THEN SeenMap[call[c].id] ELSE Done
    <3>1. CASE call[c].op = "get"
      <4>1. call[c].id \in Ids
        BY <1>2, <3>1, CommandKinds
      <4>2. QED
        BY <1>1, <1>2, <3>1, <4>1 DEF SeenMap
    <3>2. CASE call[c].op # "get"
      BY <1>1, <1>2, <3>2, SeenIs
    <3>3. QED
      BY <3>1, <3>2
  <2>3. QED
    BY <2>1, <2>2 DEF SeenAnswers
<1>6. SeenMap' = CASE call[c].op = "put" -> [SeenMap EXCEPT ![call[c].id] = call[c].text]
                   [] call[c].op = "delete" -> [SeenMap EXCEPT ![call[c].id] = Absent]
                   [] OTHER -> SeenMap
  <2>1. CASE call[c].op = "put"
    <3>1. redis' = [redis EXCEPT ![call[c].id] = call[c].text] /\ call[c].id \in Ids /\ Seen(call[c].text) = call[c].text
      BY <1>1, <1>2, <2>1, CommandKinds, SeenIs DEF Execute
    <3>2. SeenMap' = [SeenMap EXCEPT ![call[c].id] = call[c].text]
      BY <1>2, <3>1 DEF SeenMap
    <3>3. QED
      BY <2>1, <3>2
  <2>2. CASE call[c].op = "delete"
    <3>1. redis' = [redis EXCEPT ![call[c].id] = Absent] /\ call[c].id \in Ids /\ Seen(Absent) = Absent
      BY <1>1, <1>2, <2>2, CommandKinds, SeenIs DEF Execute
    <3>2. SeenMap' = [SeenMap EXCEPT ![call[c].id] = Absent]
      BY <1>2, <3>1 DEF SeenMap
    <3>3. QED
      BY <2>2, <3>2
  <2>3. CASE call[c].op \notin {"put", "delete"}
    <3>1. SeenMap' = SeenMap
      BY <1>1, <2>3 DEF Execute, SeenMap
    <3>2. QED
      BY <2>3, <3>1
  <2>4. QED
    BY <2>1, <2>2, <2>3
<1>7. QED
  BY <1>1, <1>4, <1>5, <1>6 DEF Shared!Serve, StageFun, SeenMap, SeenAnswers

\* What comes back is what was answered: a record, or the lack of one.
LEMMA ReturnFits ==
  ASSUME CalmInv, Failures = {}, NEW c \in Callers, ReceiveFailure(c) \/ ReceiveAnswer(c) \/ Local(c)
  PROVE  Shared!Return(c) \/ UNCHANGED Shared!vars
<1>t. CallTypes
  BY Types DEF CalmInv, ErrorInv
<1>1. pc[c] \in {"receive", "local"} /\ redis' = redis /\ call' = call
  BY DEF ReceiveFailure, ReceiveAnswer, Local
<1>2. PICK stage \in {"local", "out"} : pc' = [pc EXCEPT ![c] = stage]
  BY DEF ReceiveFailure, ReceiveAnswer, Local, Goto
<1>3. Stage(c) = "served" /\ Stage(c)' = (IF stage = "out" THEN "out" ELSE "served")
      /\ \A d \in Callers : d # c => Stage(d)' = Stage(d)
  BY <1>1, <1>2, StageMoves DEF Stage, Stages, CalmInv
<1>4. SeenMap' = SeenMap
  BY <1>1 DEF SeenMap
<1>5. SeenAnswers' = SeenAnswers
  <2>1. CASE ReceiveFailure(c)
    <3>1. got[c] = Unparsed /\ pc[c] = "receive"
      BY <2>1 DEF ReceiveFailure, Fault
    <3>2. call[c].op = "get"
      BY <3>1, MarksDiffer DEF CalmInv, Calm
    <3>3. QED
      BY <2>1, <3>2 DEF ReceiveFailure, SeenAnswers
  <2>2. CASE ReceiveAnswer(c)
    BY <2>2 DEF ReceiveAnswer, SeenAnswers
  <2>3. CASE Local(c)
    <3>1. call[c].op = "get" /\ got[c] \in {Absent, Unparsed}
      BY <2>3 DEF Local, CalmInv, Calm
    <3>2. call[c].id \in Ids /\ ReplicaOf[c] \in Replicas
      BY <3>1, CallsNameIds DEF CalmInv
    <3>3. got' = [got EXCEPT ![c] = Absent]
      BY <2>3, <3>1, <3>2 DEF Local, Get, CalmInv, Calm
    <3>4. \A d \in Callers : Seen(got'[d]) = Seen(got[d])
      BY <3>1, <3>3, <1>t, SeenIs DEF CallTypes
    <3>5. QED
      BY <3>4 DEF SeenAnswers
  <2>4. QED
    BY <2>1, <2>2, <2>3
<1>6. CASE stage = "out"
  <2>1. StageFun[c] = "served" /\ StageFun' = [StageFun EXCEPT ![c] = "out"]
    BY <1>3, <1>6 DEF StageFun
  <2>2. QED
    BY <2>1, <1>1, <1>4, <1>5 DEF Shared!Return, StageFun, SeenMap, SeenAnswers
<1>7. CASE stage # "out"
  <2>1. StageFun' = StageFun
    BY <1>3, <1>7 DEF StageFun
  <2>2. QED
    BY <2>1, <1>1, <1>4, <1>5, SharedVars
<1>8. QED
  BY <1>6, <1>7

\* Within a call nothing shows.
LEMMA InnerFits ==
  ASSUME CalmInv, Failures = {}, NEW c \in Callers, Forget(c) \/ Check(c)
  PROVE  UNCHANGED Shared!vars
<1>1. UNCHANGED <<redis, call>> /\ pc[c] \in {"forget", "check"}
  BY DEF Forget, Check
<1>2. \E stage \in {"check", "send"} : pc' = [pc EXCEPT ![c] = stage]
  <2>1. ~paused[ReplicaOf[c]]
    BY RedisAssumption DEF CalmInv, Calm
  <2>2. QED
    BY <2>1 DEF Forget, Check, Goto
<1>3. got' = got
  <2>1. ~paused[ReplicaOf[c]]
    BY RedisAssumption DEF CalmInv, Calm
  <2>2. QED
    BY <2>1 DEF Forget, Check
<1>4. \A d \in Callers : Stage(d)' = Stage(d)
  BY <1>1, <1>2, StageMoves DEF Stage, Stages, CalmInv
<1>5. StageFun' = StageFun /\ SeenMap' = SeenMap /\ SeenAnswers' = SeenAnswers
  BY <1>1, <1>3, <1>4 DEF StageFun, SeenMap, SeenAnswers
<1>6. QED
  BY <1>1, <1>5, SharedVars

\* A record that lapses where it is shared; one that cannot be read is not there.
LEMMA LapseShows ==
  ASSUME CalmInv, LapseShared
  PROVE  (\E i \in Ids : Shared!Lapse(i)) \/ UNCHANGED Shared!vars
<1>1. PICK i \in Ids :
        /\ redis[i] # Absent
        /\ redis' \in {[redis EXCEPT ![i] = v] :
                       v \in {Absent} \cup (IF redis[i] \in Texts THEN {Unreadable, Unparsed} ELSE {})}
  BY DEF LapseShared
<1>2. PICK v \in {Absent, Unreadable, Unparsed} :
        redis' = [redis EXCEPT ![i] = v] /\ (v # Absent => redis[i] \in Texts)
  BY <1>1
<1>3. redis \in [Ids -> Values]
  BY Types DEF CalmInv, ErrorInv, StoreTypes
<1>4. UNCHANGED <<pc, call, got>>
  BY DEF LapseShared
<1>5. StageFun' = StageFun /\ SeenAnswers' = SeenAnswers
  BY <1>4 DEF StageFun, SeenAnswers, Stage
<1>6. SeenMap' = [SeenMap EXCEPT ![i] = Seen(v)] /\ Seen(v) \in {Absent, Unreadable}
  BY <1>2, <1>3, SeenIs DEF SeenMap
<1>7. CASE redis[i] = Unparsed
  <2>1. v = Absent /\ Seen(v) = Absent /\ SeenMap[i] = Absent
    BY <1>2, <1>7, SeenIs, MarksAre, Kinds DEF SeenMap
  <2>2. SeenMap' = SeenMap
    BY <1>6, <2>1 DEF SeenMap
  <2>3. QED
    BY <1>4, <1>5, <2>2, SharedVars
<1>8. CASE redis[i] # Unparsed
  <2>1. SeenMap[i] = redis[i]
    BY <1>8 DEF SeenMap, Seen
  <2>2. Shared!Lapse(i)
    BY <1>1, <1>4, <1>5, <1>6, <2>1 DEF Shared!Lapse, StageFun, SeenMap, SeenAnswers
  <2>3. QED
    BY <2>2
<1>9. QED
  BY <1>7, <1>8

LEMMA CalmInit == Init => CalmInv /\ Shared!Init
<1> SUFFICES ASSUME Init PROVE CalmInv /\ Shared!Init
  OBVIOUS
<1>1. CalmInv
  BY InitErrors DEF Init, NoRecords, CalmInv, Calm
<1>2. SeenMap = [i \in Ids |-> Absent] /\ SeenAnswers = [c \in Callers |-> Nothing] /\ StageFun = [c \in Callers |-> "out"]
  BY SeenIs DEF Init, NoRecords, SeenMap, SeenAnswers, StageFun, Stage
<1>3. call \in [Callers -> [op : {"ping"}]]
  BY DEF Init
<1>4. QED
  BY <1>1, <1>2, <1>3 DEF Shared!Init, SeenMap, SeenAnswers, StageFun

LEMMA CalmNext == CalmInv /\ Failures = {} /\ [Next]_vars => CalmInv'
<1> SUFFICES ASSUME CalmInv, Failures = {}, [Next]_vars PROVE CalmInv'
  OBVIOUS
<1>e. ErrorInv'
  BY NextErrors DEF CalmInv
<1>t. /\ pc \in [Callers -> Stages] /\ call \in [Callers -> Commands] /\ got \in [Callers -> Results]
      /\ fallback \in [Replicas -> [Ids -> Record]] /\ paused \in [Replicas -> BOOLEAN]
  BY Types DEF CalmInv, ErrorInv, CallTypes, StoreTypes
\* What a step of one thread must see to.
<1>m. ASSUME NEW c \in Callers, wire' = {}, \A r \in Replicas : ~paused'[r],
             \A r \in Replicas, i \in Ids : fallback'[r][i] = Absent,
             \A d \in Callers : d # c => pc'[d] = pc[d] /\ call'[d] = call[d] /\ got'[d] = got[d],
             pc'[c] = "receive" /\ call'[c].op # "get" => got'[c] = Done,
             pc'[c] = "local" => call'[c].op = "get" /\ got'[c] \in {Absent, Unparsed}
      PROVE  Calm'
  BY <1>m DEF CalmInv, Calm
<1>1. ASSUME NEW c \in Callers, Begin(c) PROVE Calm'
  <2>1. UNCHANGED <<redis, wire, fallback, paused>> /\ got' = [got EXCEPT ![c] = Nothing]
    BY <1>1 DEF Begin, Get, store
  <2>2. PICK k \in Commands, stage \in {"check", "forget", "send"} :
          call' = [call EXCEPT ![c] = k] /\ pc' = [pc EXCEPT ![c] = stage]
    BY <1>1, Ping DEF Begin, BeginPut, BeginGet, BeginDelete, BeginPing, Goto
  <2>3. \A d \in Callers : d # c => pc'[d] = pc[d] /\ call'[d] = call[d] /\ got'[d] = got[d]
    BY <2>1, <2>2, <1>t
  <2>4. pc'[c] \notin {"receive", "local"}
    BY <2>2, <1>t
  <2>5. wire' = {} /\ (\A r \in Replicas : ~paused'[r]) /\ (\A r \in Replicas, i \in Ids : fallback'[r][i] = Absent)
    BY <2>1 DEF CalmInv, Calm
  <2>6. QED
    BY <1>m, <2>3, <2>4, <2>5
<1>2. ASSUME NEW c \in Callers, Forget(c) PROVE Calm'
  <2>1. fallback' = [fallback EXCEPT ![ReplicaOf[c]][call[c].id] = Absent] /\ pc' = [pc EXCEPT ![c] = "check"]
        /\ UNCHANGED <<redis, wire, paused, call, got>>
    BY <1>2 DEF Forget, Goto
  <2>2. call[c].id \in Ids /\ ReplicaOf[c] \in Replicas
    BY <1>2, CallsNameIds DEF Forget, CalmInv, ErrorInv, StagesFit
  <2>3. \A r \in Replicas, i \in Ids : fallback'[r][i] = Absent
    BY <2>1, <2>2, <1>t DEF CalmInv, Calm
  <2>4. pc'[c] = "check" /\ \A d \in Callers : d # c => pc'[d] = pc[d] /\ call'[d] = call[d] /\ got'[d] = got[d]
    BY <2>1, <1>t
  <2>5. wire' = {} /\ \A r \in Replicas : ~paused'[r]
    BY <2>1 DEF CalmInv, Calm
  <2>6. QED
    BY <1>m, <2>3, <2>4, <2>5
<1>3. ASSUME NEW c \in Callers, Check(c) PROVE Calm'
  <2>1. UNCHANGED <<redis, wire, fallback, paused, call, got>> /\ pc' = [pc EXCEPT ![c] = "send"]
    <3>1. ~paused[ReplicaOf[c]]
      BY RedisAssumption DEF CalmInv, Calm
    <3>2. QED
      BY <1>3, <3>1 DEF Check, Goto
  <2>2. pc'[c] = "send" /\ \A d \in Callers : d # c => pc'[d] = pc[d] /\ call'[d] = call[d] /\ got'[d] = got[d]
    BY <2>1, <1>t
  <2>3. wire' = {} /\ (\A r \in Replicas : ~paused'[r]) /\ (\A r \in Replicas, i \in Ids : fallback'[r][i] = Absent)
    BY <2>1 DEF CalmInv, Calm
  <2>4. QED
    BY <1>m, <2>2, <2>3
<1>4. ASSUME NEW c \in Callers, Send(c) PROVE Calm'
  <2>1. /\ pc' = [pc EXCEPT ![c] = "receive"] /\ UNCHANGED <<wire, fallback, paused, call>>
        /\ got' = [got EXCEPT ![c] = IF call[c].op = "get" THEN redis[call[c].id] ELSE Done]
    BY <1>4 DEF Send, Goto, Get
  <2>2. \A d \in Callers : d # c => pc'[d] = pc[d] /\ call'[d] = call[d] /\ got'[d] = got[d]
    BY <2>1, <1>t
  <2>3. pc'[c] = "receive" /\ (call'[c].op # "get" => got'[c] = Done)
    BY <2>1, <1>t
  <2>4. wire' = {} /\ (\A r \in Replicas : ~paused'[r]) /\ (\A r \in Replicas, i \in Ids : fallback'[r][i] = Absent)
    BY <2>1 DEF CalmInv, Calm
  <2>5. QED
    BY <1>m, <2>2, <2>3, <2>4
<1>5. ASSUME NEW c \in Callers, ReceiveFailure(c) PROVE Calm'
  <2>1. got[c] = Unparsed /\ pc[c] = "receive"
    BY <1>5 DEF ReceiveFailure, Fault
  <2>2. call[c].op = "get"
    BY <2>1, MarksDiffer DEF CalmInv, Calm
  <2>3. pc' = [pc EXCEPT ![c] = "local"] /\ UNCHANGED <<redis, wire, fallback, call, got>>
    BY <1>5, <2>2 DEF ReceiveFailure, Goto
  <2>4. paused' = [paused EXCEPT ![ReplicaOf[c]] = @ \/ Breaks(Unparsed)] /\ ~Breaks(Unparsed)
    BY <1>5, <2>1 DEF ReceiveFailure, Breaks
  <2>5. \A r \in Replicas : ~paused'[r]
    BY <2>4, <1>t, Zenon DEF CalmInv, Calm
  <2>6. /\ \A d \in Callers : d # c => pc'[d] = pc[d] /\ call'[d] = call[d] /\ got'[d] = got[d]
        /\ pc'[c] = "local" /\ call'[c].op = "get" /\ got'[c] = Unparsed
    BY <2>1, <2>2, <2>3, <1>t
  <2>7. wire' = {} /\ \A r \in Replicas, i \in Ids : fallback'[r][i] = Absent
    BY <2>3 DEF CalmInv, Calm
  <2>8. QED
    BY <1>m, <2>5, <2>6, <2>7
<1>6. ASSUME NEW c \in Callers, ReceiveAnswer(c) PROVE Calm'
  <2>1. /\ UNCHANGED <<redis, wire, fallback, call, got>>
        /\ pc' = [pc EXCEPT ![c] = IF call[c].op = "get" /\ got[c] = Absent THEN "local" ELSE "out"]
    BY <1>6 DEF ReceiveAnswer, Goto
  <2>2. paused' = paused \/ paused' = [paused EXCEPT ![ReplicaOf[c]] = FALSE]
    BY <1>6 DEF ReceiveAnswer
  <2>3. \A r \in Replicas : ~paused'[r]
    <3>1. CASE paused' = paused
      BY <3>1 DEF CalmInv, Calm
    <3>2. CASE paused' = [paused EXCEPT ![ReplicaOf[c]] = FALSE]
      BY <3>2, <1>t, Zenon DEF CalmInv, Calm
    <3>3. QED
      BY <2>2, <3>1, <3>2
  <2>4. /\ \A d \in Callers : d # c => pc'[d] = pc[d] /\ call'[d] = call[d] /\ got'[d] = got[d]
        /\ pc'[c] # "receive" /\ (pc'[c] = "local" => call'[c].op = "get" /\ got'[c] = Absent)
    BY <2>1, <1>t
  <2>5. wire' = {} /\ \A r \in Replicas, i \in Ids : fallback'[r][i] = Absent
    BY <2>1 DEF CalmInv, Calm
  <2>6. QED
    BY <1>m, <2>3, <2>4, <2>5
<1>7. ASSUME NEW c \in Callers, Local(c) PROVE Calm'
  <2>1. call[c].op = "get"
    BY <1>7 DEF Local, CalmInv, Calm
  <2>2. pc' = [pc EXCEPT ![c] = "out"] /\ UNCHANGED <<wire, fallback, paused, call>> /\ \E v : got' = [got EXCEPT ![c] = v]
    BY <1>7, <2>1 DEF Local, Goto, Get
  <2>3. pc'[c] = "out" /\ \A d \in Callers : d # c => pc'[d] = pc[d] /\ call'[d] = call[d] /\ got'[d] = got[d]
    BY <2>2, <1>t
  <2>4. wire' = {} /\ (\A r \in Replicas : ~paused'[r]) /\ (\A r \in Replicas, i \in Ids : fallback'[r][i] = Absent)
    BY <2>2 DEF CalmInv, Calm
  <2>5. QED
    BY <1>m, <2>3, <2>4
<1>8. CASE Late \/ Lose \/ LapseLocal \/ Resume
  BY <1>8 DEF Late, Lose, LapseLocal, Resume, CalmInv, Calm
<1>9. CASE LapseShared \/ UNCHANGED vars
  <2>1. UNCHANGED <<wire, fallback, paused, pc, call, got>>
    BY <1>9 DEF LapseShared, vars
  <2>2. QED
    BY <2>1, <1>e DEF CalmInv, Calm
<1>10. Calm' \/ CalmInv'
  BY <1>1, <1>2, <1>3, <1>4, <1>5, <1>6, <1>7, <1>8, <1>9 DEF Next
<1>11. QED
  BY <1>e, <1>10 DEF CalmInv

LEMMA NextShared == CalmInv /\ Failures = {} /\ [Next]_vars => [Shared!Next]_(Shared!vars)
<1> SUFFICES ASSUME CalmInv, Failures = {}, [Next]_vars PROVE Shared!Next \/ UNCHANGED Shared!vars
  OBVIOUS
<1>1. ASSUME NEW c \in Callers, Begin(c) PROVE Shared!Next
  BY <1>1, AskFits DEF Shared!Next
<1>2. ASSUME NEW c \in Callers, Send(c) PROVE Shared!Next
  BY <1>2, ServeFits DEF Shared!Next
<1>3. ASSUME NEW c \in Callers, ReceiveFailure(c) \/ ReceiveAnswer(c) \/ Local(c)
      PROVE  Shared!Next \/ UNCHANGED Shared!vars
  BY <1>3, ReturnFits DEF Shared!Next
<1>4. ASSUME NEW c \in Callers, Forget(c) \/ Check(c) PROVE UNCHANGED Shared!vars
  BY <1>4, InnerFits
<1>5. CASE LapseShared
  BY <1>5, LapseShows DEF Shared!Next
<1>6. CASE Late \/ Lose \/ LapseLocal \/ Resume
  BY <1>6 DEF Late, Lose, LapseLocal, Resume, CalmInv, Calm
<1>7. CASE UNCHANGED vars
  <2>1. UNCHANGED <<StageFun, SeenMap, SeenAnswers, call>>
    BY <1>7 DEF vars, StageFun, SeenMap, SeenAnswers, Stage
  <2>2. QED
    BY <2>1, SharedVars
<1>8. QED
  BY <1>1, <1>2, <1>3, <1>4, <1>5, <1>6, <1>7 DEF Next

\* While no command fails, any number of replicas over one Redis are one map that
\* each call reads or writes at one moment: the memory of a process never shows.
THEOREM StoreIsShared == Failures = {} => (Spec => KeepsShared)
<1> SUFFICES ASSUME Failures = {} PROVE Spec => KeepsShared
  OBVIOUS
<1>1. CalmInv /\ [Next]_vars => CalmInv'
  BY CalmNext
<1>2. CalmInv /\ [Next]_vars => [Shared!Next]_(Shared!vars)
  BY NextShared
<1>3. QED
  BY <1>1, <1>2, CalmInit, PTL DEF Spec, KeepsShared, Shared!Spec
=============================================================================
