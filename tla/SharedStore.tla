----------------------------- MODULE SharedStore -----------------------------
(***************************************************************************)
(* What the replicas of the service expect of a store they share: every    *)
(* call takes effect at one moment between its beginning and its end, on   *)
(* one map that all of them see.  A record may lapse, or turn unreadable,  *)
(* at any time.  Process takes the store to be of this kind.               *)
(***************************************************************************)
CONSTANTS
  Callers,      \* goroutines of all replicas
  Ids,          \* payload ids
  Texts,        \* the texts that records keep
  Absent, Unreadable, Done, Nothing

VARIABLES
  map,      \* the record under each id
  stage,    \* stage[c]: a call of c is not made, asked for, or served
  call,     \* call[c]: the call
  answer    \* answer[c]: what it returns, Nothing till it is served

vars == <<map, stage, call, answer>>

Init ==
  /\ map = [i \in Ids |-> Absent]
  /\ stage = [c \in Callers |-> "out"]
  /\ call \in [Callers -> [op : {"ping"}]]
  /\ answer = [c \in Callers |-> Nothing]

Commands ==
  [op : {"put"}, id : Ids, text : Texts] \cup [op : {"get", "delete"}, id : Ids]
    \cup [op : {"ping"}]

Ask(c) ==
  /\ stage[c] = "out"
  /\ call' \in {[call EXCEPT ![c] = k] : k \in Commands}
  /\ stage' = [stage EXCEPT ![c] = "asked"]
  /\ answer' = [answer EXCEPT ![c] = Nothing]
  /\ UNCHANGED map

Serve(c) ==
  LET k == call[c] IN
  /\ stage[c] = "asked"
  /\ stage' = [stage EXCEPT ![c] = "served"]
  /\ answer' = [answer EXCEPT ![c] = IF k.op = "get" THEN map[k.id] ELSE Done]
  /\ map' = CASE k.op = "put" -> [map EXCEPT ![k.id] = k.text]
              [] k.op = "delete" -> [map EXCEPT ![k.id] = Absent]
              [] OTHER -> map
  /\ UNCHANGED call

Return(c) ==
  /\ stage[c] = "served"
  /\ stage' = [stage EXCEPT ![c] = "out"]
  /\ UNCHANGED <<map, call, answer>>

Lapse(i) ==
  /\ map[i] # Absent
  /\ map' \in {[map EXCEPT ![i] = v] : v \in {Absent, Unreadable}}
  /\ UNCHANGED <<stage, call, answer>>

Next ==
  \/ \E c \in Callers : Ask(c) \/ Serve(c) \/ Return(c)
  \/ \E i \in Ids : Lapse(i)

Spec == Init /\ [][Next]_vars
=============================================================================
