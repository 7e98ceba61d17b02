---------------------------- MODULE ProcessProofs ----------------------------
(***************************************************************************)
(* Theorems about Process, for any requests, texts, engine, settings and   *)
(* number of replicas: types and the grounds of every response, the        *)
(* implementation of Ledger, and the custody of the masks given out.       *)
(***************************************************************************)
EXTENDS Process, TLAPS

\* What is known of a request that has arrived: its call has all its parts.
LEMMA CallParts ==
  ASSUME TypeOK, NEW r \in Requests, call[r] # NoCall
  PROVE  /\ IdOf(r) \in Ids
         /\ PayloadOf(r) \in Texts
         /\ SystemOf(r) \in Systems
         /\ ReplicaOf(r) \in Replicas
         /\ PolicyOf(r) \in SystemPolicy
         /\ RuleOf(r) \in Rules
<1>1. call[r] \in Call \X Replicas \X SystemPolicy
  BY DEF TypeOK, Admitted
<1>2. call[r][1] \in Call /\ call[r][2] \in Replicas /\ call[r][3] \in SystemPolicy
  BY <1>1
<1>3. QED
  BY <1>2 DEF Call, SystemPolicy, IdOf, PayloadOf, SystemOf, ReplicaOf, PolicyOf, RuleOf

\* Whatever the engine returns is a text with a degradation mark.
LEMMA MaskingsAreTexts ==
  ASSUME NEW rule \in Rules, NEW text \in Texts, NEW m \in Maskings(rule, text)
  PROVE  /\ m.text \in Texts
         /\ m.degraded \in BOOLEAN
         /\ m.text \in MasksOf(text)
         /\ m.degraded => m.text \in PartialMasks(text)
         /\ ~m.degraded => m.text \in WholeMasks(text)
<1>1. Engine[rule][text] \in Texts /\ Partial[rule][text] \subseteq Texts
  BY DataAssumption
<1>2. \/ m.text = Engine[rule][text] /\ m.degraded = FALSE
      \/ m.text \in Partial[rule][text] /\ m.degraded = TRUE
  BY DEF Maskings
<1>3. Engine[rule][text] \in WholeMasks(text) /\ Partial[rule][text] \subseteq PartialMasks(text)
  BY DEF WholeMasks, PartialMasks
<1>4. QED
  BY <1>1, <1>2, <1>3 DEF MasksOf

LEMMA RefusalIsAnswer ==
  ASSUME NEW code \in Codes, NEW dir \in Directions
  PROVE  /\ Refusal(code, dir) \in Answer
         /\ Refusal(code, dir) # NoAnswer
         /\ Refusal(code, dir).code = code
         /\ Refusal(code, dir).text = NoText
<1>1. Refusal(code, dir) \in Answer
  BY DEF Refusal, Answer
<1>2. QED
  BY <1>1, AnswerAssumption DEF Refusal

LEMMA SuccessIsAnswer ==
  ASSUME NEW dir \in Directions, NEW text \in Texts, NEW degraded \in BOOLEAN
  PROVE  /\ Success(dir, text, degraded) \in Answer
         /\ Success(dir, text, degraded) # NoAnswer
         /\ Success(dir, text, degraded).code = 200
         /\ Success(dir, text, degraded).dir = dir
         /\ Success(dir, text, degraded).text = text
         /\ Success(dir, text, degraded).degraded = degraded
<1>1. Success(dir, text, degraded) \in Answer
  BY DEF Success, Answer, Codes
<1>2. QED
  BY <1>1, AnswerAssumption DEF Success

\* An unknown mask goes back as it came, with its own mark.
LEMMA EchoIsAnswer ==
  ASSUME NEW text \in Texts
  PROVE  /\ Echo(text) \in Answer
         /\ Echo(text) # NoAnswer
         /\ Echo(text).code = 200
         /\ Echo(text).dir = "unknown_mask"
         /\ Echo(text).unknown
         /\ Echo(text).text = text
<1>1. Echo(text) \in Answer
  BY DEF Echo, Success, Answer, Codes, Directions
<1>2. QED
  BY <1>1, AnswerAssumption DEF Echo, Success

\* The response keeps what the flight came to, or withholds the text.
LEMMA ResponseIsAnswer ==
  ASSUME NEW res \in Answer, NEW own \in SystemPolicy
  PROVE  /\ ResponseTo(res, own) \in Answer
         /\ ResponseTo(res, own) # NoAnswer
         /\ \/ /\ ResponseTo(res, own).code = 503
               /\ ResponseTo(res, own).text = NoText
            \/ /\ ResponseTo(res, own).code = res.code
               /\ ResponseTo(res, own).dir = res.dir
               /\ ResponseTo(res, own).text = res.text
               /\ ResponseTo(res, own).unknown = res.unknown
               /\ ResponseTo(res, own).degraded = res.degraded
               /\ res.code = 200 /\ res.degraded => ~own.closed
<1>1. CASE res.code = 200 /\ res.degraded /\ own.closed
  <2>1. ResponseTo(res, own) = Refusal(503, res.dir)
    BY <1>1 DEF ResponseTo
  <2>2. res.dir \in Directions /\ 503 \in Codes
    BY DEF Answer, Codes
  <2>3. QED
    BY <2>1, <2>2, RefusalIsAnswer
<1>2. CASE res.code = 200 /\ res.degraded /\ ~own.closed
  <2>1. ResponseTo(res, own) = [res EXCEPT !.ambiguous = FALSE]
    BY <1>2 DEF ResponseTo
  <2>2. [res EXCEPT !.ambiguous = FALSE] \in Answer
    BY DEF Answer
  <2>3. QED
    BY <1>2, <2>1, <2>2, AnswerAssumption DEF Answer
<1>3. CASE ~(res.code = 200 /\ res.degraded)
  <2>1. ResponseTo(res, own) = res
    BY <1>3 DEF ResponseTo
  <2>2. QED
    BY <1>3, <2>1, AnswerAssumption
<1>4. QED
  BY <1>1, <1>2, <1>3

-----------------------------------------------------------------------------
LEMMA InitTypeOK == Init => TypeOK
<1>1. SUFFICES ASSUME Init PROVE TypeOK
  OBVIOUS
<1>2. /\ policy \in Policies
      /\ store \in [Ids -> Record \cup {NoRecord, Corrupt}]
      /\ issued \subseteq Issue
      /\ lapsed \subseteq Ids
  BY <1>1 DEF Init
<1>3. /\ pc \in [Requests -> Stages]
      /\ leader \in [Requests -> Requests]
      /\ \A r \in Requests : pc[r] = "new"
  BY <1>1 DEF Init, Stages
<1>4. /\ call \in [Requests -> Admitted \cup {NoCall}]
      /\ result \in [Requests -> Answer \cup {NoAnswer}]
      /\ answer \in [Requests -> Answer \cup {NoAnswer}]
  BY <1>1 DEF Init
<1>5. QED
  BY <1>2, <1>3, <1>4 DEF TypeOK

\* A step of one handler keeps the types.
LEMMA ArriveTypeOK ==
  ASSUME TypeOK, NEW r \in Requests, Arrive(r)
  PROVE  TypeOK'
<1>1. PICK c \in Calls, p \in Replicas :
        /\ call' = [call EXCEPT ![r] = <<c, p, policy[c.system]>>]
        /\ \/ /\ pc' = [pc EXCEPT ![r] = "arrived"]
              /\ UNCHANGED answer
           \/ /\ pc' = [pc EXCEPT ![r] = "done"]
              /\ answer' = [answer EXCEPT ![r] = Refusal(403, "none")]
  BY DEF Arrive
<1>2. c \in Call /\ c.system \in Systems
  BY DataAssumption DEF Call
<1>3. policy[c.system] \in SystemPolicy
  BY <1>2, DataAssumption DEF TypeOK
<1>4. <<c, p, policy[c.system]>> \in Admitted
  BY <1>2, <1>3 DEF Admitted
<1>5. <<c, p, policy[c.system]>> # NoCall
  BY <1>4, CallAssumption
<1>6. Refusal(403, "none") \in Answer
  BY RefusalIsAnswer DEF Codes, Directions
<1>7. /\ call' \in [Requests -> Admitted \cup {NoCall}]
      /\ pc' \in [Requests -> Stages]
      /\ answer' \in [Requests -> Answer \cup {NoAnswer}]
  BY <1>1, <1>4, <1>6 DEF TypeOK, Stages
<1>8. \A q \in Requests : pc'[q] \notin {"new", "done"} => call'[q] # NoCall
  BY <1>1, <1>5 DEF TypeOK
<1>9. /\ \A q \in Requests : pc'[q] \in {"put", "landing", "reply"} => pc[q] = pc'[q]
      /\ UNCHANGED <<policy, store, leader, result, issued, lapsed>>
  BY <1>1 DEF Arrive, TypeOK
<1>10. QED
  BY <1>7, <1>8, <1>9 DEF TypeOK

\* Decide, the common end of a flight, keeps the types when its result is one.
LEMMA DecideTypeOK ==
  ASSUME TypeOK, NEW r \in Requests, NEW res \in Answer, Decide(r, res),
         pc[r] \in {"get", "put"},
         UNCHANGED <<policy, store, call, leader, answer, issued, lapsed>>
  PROVE  TypeOK'
<1>1. res # NoAnswer
  BY AnswerAssumption
<1>2. /\ pc' \in [Requests -> Stages]
      /\ result' \in [Requests -> Answer \cup {NoAnswer}]
      /\ \A q \in Requests : pc'[q] \in {"put", "landing", "reply"} => result'[q] # NoAnswer
      /\ \A q \in Requests : pc'[q] = "put" => result'[q].text \in Texts
  BY <1>1 DEF Decide, TypeOK, Stages
<1>3. \A q \in Requests : pc'[q] \notin {"new", "done"} => call'[q] # NoCall
  BY DEF Decide, TypeOK
<1>4. QED
  BY <1>2, <1>3 DEF TypeOK

\* The result a flight comes to at its lookup is an answer; what it is made of
\* is the concern of LookupGrounded.
LEMMA LookupTypeOK ==
  ASSUME TypeOK, NEW r \in Requests, Lookup(r)
  PROVE  TypeOK'
<1> DEFINE e == store[IdOf(r)]
<1>1. /\ pc[r] = "get"
      /\ UNCHANGED <<policy, store, call, leader, answer, issued, lapsed>>
  BY DEF Lookup
<1>2. /\ IdOf(r) \in Ids
      /\ PayloadOf(r) \in Texts
      /\ RuleOf(r) \in Rules
  BY <1>1, CallParts DEF TypeOK
<1>3. e \in Record => e.orig \in Texts /\ e.mask \in Texts
  BY DEF Record
<1>4. ASSUME NEW res \in Answer, Decide(r, res)
      PROVE  TypeOK'
  BY <1>1, <1>4, DecideTypeOK
<1>5. CASE RetryMask(r)
  <2>1. Success("mask_retry", e.mask, FALSE) \in Answer
    BY <1>3, <1>5, SuccessIsAnswer DEF RetryMask, Directions
  <2>2. QED
    BY <1>4, <1>5, <2>1 DEF RetryMask
<1>6. CASE Demask(r)
  <2>1. /\ Success("demask", e.orig, FALSE) \in Answer
        /\ Refusal(403, "demask") \in Answer
    <3>1. Success("demask", e.orig, FALSE) \in Answer
      BY <1>3, <1>6, SuccessIsAnswer DEF Demask, Directions
    <3>2. Refusal(403, "demask") \in Answer
      BY RefusalIsAnswer DEF Directions, Codes
    <3>3. QED
      BY <3>1, <3>2
  <2>2. CASE PolicyOf(r).demask /\ e.system = SystemOf(r)
    <3>1. Decide(r, Success("demask", e.orig, FALSE))
      BY <1>6, <2>2 DEF Demask
    <3>2. QED
      BY <1>4, <2>1, <3>1
  <2>3. CASE ~(PolicyOf(r).demask /\ e.system = SystemOf(r))
    <3>1. Decide(r, Refusal(403, "demask"))
      BY <1>6, <2>3 DEF Demask
    <3>2. QED
      BY <1>4, <2>1, <3>1
  <2>4. QED
    BY <2>2, <2>3
<1>7. CASE Ambiguous(r)
  <2>1. PICK m \in Maskings(RuleOf(r), PayloadOf(r)) :
          Decide(r, Success("ambiguous", m.text, m.degraded))
    BY <1>7 DEF Ambiguous
  <2>2. Success("ambiguous", m.text, m.degraded) \in Answer
    BY <1>2, MaskingsAreTexts, SuccessIsAnswer DEF Directions
  <2>3. QED
    BY <1>4, <2>1, <2>2
<1>8. CASE Corrupted(r)
  <2>1. Refusal(409, "demask") \in Answer
    BY RefusalIsAnswer DEF Directions, Codes
  <2>2. QED
    BY <1>4, <1>8, <2>1 DEF Corrupted
<1>9. CASE UnknownMask(r)
  <2>1. Echo(PayloadOf(r)) \in Answer /\ Refusal(404, "demask") \in Answer
    BY <1>2, EchoIsAnswer, RefusalIsAnswer DEF Directions, Codes
  <2>2. QED
    BY <1>4, <1>9, <2>1 DEF UnknownMask
<1>10. CASE FirstMask(r)
  <2>1. PICK m \in Maskings(RuleOf(r), PayloadOf(r)) :
          result' = [result EXCEPT ![r] = Success("mask", m.text, m.degraded)]
    BY <1>10 DEF FirstMask
  <2> DEFINE res == Success("mask", m.text, m.degraded)
  <2>2. res \in Answer /\ res # NoAnswer /\ res.text \in Texts
    BY <1>2, MaskingsAreTexts, SuccessIsAnswer DEF Directions
  <2> HIDE DEF res
  <2>3. pc' = [pc EXCEPT ![r] = "put"] /\ result' = [result EXCEPT ![r] = res]
    BY <1>10, <2>1 DEF FirstMask, res
  <2>4. /\ pc' \in [Requests -> Stages]
        /\ result' \in [Requests -> Answer \cup {NoAnswer}]
        /\ \A q \in Requests : pc'[q] \in {"put", "landing", "reply"} => result'[q] # NoAnswer
        /\ \A q \in Requests : pc'[q] = "put" => result'[q].text \in Texts
    BY <2>2, <2>3 DEF TypeOK, Stages
  <2>5. \A q \in Requests : pc'[q] \notin {"new", "done"} => call'[q] # NoCall
    BY <1>1, <2>3 DEF TypeOK
  <2>6. QED
    BY <1>1, <2>4, <2>5 DEF TypeOK
<1>11. QED
  BY <1>5, <1>6, <1>7, <1>8, <1>9, <1>10 DEF Lookup

LEMMA PutTypeOK ==
  ASSUME TypeOK, NEW r \in Requests, Put(r)
  PROVE  TypeOK'
<1>1. /\ pc[r] = "put"
      /\ pc' = [pc EXCEPT ![r] = "landing"]
      /\ UNCHANGED <<policy, call, leader, result, answer, lapsed>>
  BY DEF Put
<1>2. IdOf(r) \in Ids /\ PayloadOf(r) \in Texts /\ SystemOf(r) \in Systems
  BY <1>1, CallParts DEF TypeOK
<1>3. result[r].text \in Texts /\ result[r].degraded \in BOOLEAN
  BY <1>1 DEF TypeOK, Answer
<1>4. [orig |-> PayloadOf(r), mask |-> result[r].text, system |-> SystemOf(r)] \in Record
  BY <1>2, <1>3 DEF Record
<1>5. [id |-> IdOf(r), orig |-> PayloadOf(r), mask |-> result[r].text,
       system |-> SystemOf(r), degraded |-> result[r].degraded] \in Issue
  BY <1>2, <1>3 DEF Issue
<1>6. store' \in [Ids -> Record \cup {NoRecord, Corrupt}] /\ issued' \subseteq Issue
  BY <1>4, <1>5 DEF Put, TypeOK
<1>7. /\ pc' \in [Requests -> Stages]
      /\ \A q \in Requests : pc'[q] \in {"put", "landing", "reply"} => result'[q] # NoAnswer
      /\ \A q \in Requests : pc'[q] = "put" => result'[q].text \in Texts
      /\ \A q \in Requests : pc'[q] \notin {"new", "done"} => call'[q] # NoCall
  BY <1>1 DEF TypeOK, Stages
<1>8. QED
  BY <1>1, <1>6, <1>7 DEF TypeOK

LEMMA LandTypeOK ==
  ASSUME TypeOK, NEW r \in Requests, Land(r)
  PROVE  TypeOK'
<1> DEFINE crew == {q \in Requests : q = r \/ (pc[q] = "waiting" /\ leader[q] = r)}
<1>1. /\ pc[r] = "landing"
      /\ pc' = [q \in Requests |-> IF q \in crew THEN "reply" ELSE pc[q]]
      /\ result' = [q \in Requests |-> IF q \in crew THEN result[r] ELSE result[q]]
      /\ UNCHANGED <<policy, store, call, leader, answer, issued, lapsed>>
  BY DEF Land
<1>2. result[r] \in Answer /\ result[r] # NoAnswer
  BY <1>1 DEF TypeOK
<1>3. \A q \in crew : pc[q] \in {"landing", "waiting"}
  BY <1>1
<1> HIDE DEF crew
<1>4. /\ pc' \in [Requests -> Stages]
      /\ result' \in [Requests -> Answer \cup {NoAnswer}]
      /\ \A q \in Requests : pc'[q] \in {"put", "landing", "reply"} => result'[q] # NoAnswer
      /\ \A q \in Requests : pc'[q] = "put" => result'[q].text \in Texts
      /\ \A q \in Requests : pc'[q] \notin {"new", "done"} => call'[q] # NoCall
  BY <1>1, <1>2, <1>3 DEF TypeOK, Stages
<1>5. QED
  BY <1>1, <1>4 DEF TypeOK

LEMMA RespondTypeOK ==
  ASSUME TypeOK, NEW r \in Requests, Respond(r)
  PROVE  TypeOK'
<1> DEFINE res == ResponseTo(result[r], PolicyOf(r))
<1>1. /\ pc[r] = "reply"
      /\ pc' = [pc EXCEPT ![r] = "done"]
      /\ answer' = [answer EXCEPT ![r] = res]
      /\ UNCHANGED <<policy, store, call, leader, result, issued, lapsed>>
  BY DEF Respond
<1>2. result[r] \in Answer /\ PolicyOf(r) \in SystemPolicy
  BY <1>1, CallParts DEF TypeOK
<1>3. res \in Answer
  BY <1>2, ResponseIsAnswer
<1> HIDE DEF res
<1>4. /\ pc' \in [Requests -> Stages]
      /\ answer' \in [Requests -> Answer \cup {NoAnswer}]
      /\ \A q \in Requests : pc'[q] \in {"put", "landing", "reply"} => result'[q] # NoAnswer
      /\ \A q \in Requests : pc'[q] = "put" => result'[q].text \in Texts
      /\ \A q \in Requests : pc'[q] \notin {"new", "done"} => call'[q] # NoCall
  BY <1>1, <1>3 DEF TypeOK, Stages
<1>5. QED
  BY <1>1, <1>4 DEF TypeOK

\* The steps that only move the handler on.
LEMMA MoveTypeOK ==
  ASSUME TypeOK, NEW r \in Requests, Overloaded(r) \/ Lead(r) \/ Join(r) \/ StoreFails(r)
  PROVE  TypeOK'
<1>1. CASE Overloaded(r)
  <2>1. Refusal(429, "none") \in Answer
    BY RefusalIsAnswer DEF Codes, Directions
  <2>2. /\ pc' \in [Requests -> Stages]
        /\ answer' \in [Requests -> Answer \cup {NoAnswer}]
        /\ \A q \in Requests : pc'[q] # "done" => pc'[q] = pc[q]
    BY <1>1, <2>1 DEF Overloaded, TypeOK, Stages
  <2>3. QED
    BY <1>1, <2>2 DEF Overloaded, TypeOK
<1>2. CASE Lead(r)
  BY <1>2 DEF Lead, TypeOK, Stages
<1>3. CASE Join(r)
  BY <1>3 DEF Join, TypeOK, Stages
<1>4. CASE StoreFails(r)
  <2>1. Refusal(503, "none") \in Answer
    BY RefusalIsAnswer DEF Codes, Directions
  <2>2. QED
    BY <1>4, <2>1, DecideTypeOK DEF StoreFails
<1>5. QED
  BY <1>1, <1>2, <1>3, <1>4

\* The configuration and the store change under the handlers.
LEMMA SurroundingsTypeOK ==
  ASSUME TypeOK, Reload \/ \E id \in Ids : Lapse(id) \/ Spoil(id)
  PROVE  TypeOK'
<1>1. CASE Reload
  BY <1>1 DEF Reload, TypeOK
<1>2. ASSUME NEW id \in Ids, Lapse(id) \/ Spoil(id)
      PROVE  TypeOK'
  BY <1>2 DEF Lapse, Spoil, TypeOK
<1>3. QED
  BY <1>1, <1>2

LEMMA NextTypeOK == TypeOK /\ [Next]_vars => TypeOK'
<1>1. SUFFICES ASSUME TypeOK, [Next]_vars PROVE TypeOK'
  OBVIOUS
<1>2. ASSUME NEW r \in Requests, Arrive(r) \/ Serve(r)
      PROVE  TypeOK'
  BY <1>1, <1>2, ArriveTypeOK, LookupTypeOK, PutTypeOK, LandTypeOK, RespondTypeOK,
     MoveTypeOK DEF Serve
<1>3. CASE Reload \/ \E id \in Ids : Lapse(id) \/ Spoil(id)
  BY <1>1, <1>3, SurroundingsTypeOK
<1>4. CASE UNCHANGED vars
  BY <1>1, <1>4 DEF vars, TypeOK
<1>5. QED
  BY <1>1, <1>2, <1>3, <1>4 DEF Next

\* Every request, record, response and correspondence keeps its shape; in
\* particular no response code but those of README.md is ever given.
THEOREM TypesHold == Spec => []TypeOK
BY InitTypeOK, NextTypeOK, PTL DEF Spec

-----------------------------------------------------------------------------
(* The grounds of every response.                                           *)

\* A masking of text, a partial one exactly if it is marked.
Masking(text, made, degraded) ==
  /\ degraded \in BOOLEAN
  /\ IF degraded THEN made \in PartialMasks(text) ELSE made \in WholeMasks(text)

LEMMA MaskingIsOfLedger ==
  ASSUME NEW text, NEW made, NEW degraded, Masking(text, made, degraded)
  PROVE  made \in Promise!Masks(text)
BY DEF Masking, WholeMasks, PartialMasks, Promise!Masks

\* What the flight of call c may come to, given the correspondences in I.
Grounded(I, c, res) ==
  /\ res.code # 200 => res.text = NoText
  /\ res.code = 200 => res.dir # "none"
  /\ res.code = 200 /\ res.dir \in {"mask", "mask_retry"} =>
       \E i \in I : /\ i.id = c[1].id /\ i.orig = c[1].payload /\ i.mask = res.text
                    /\ res.dir = "mask" => i.degraded = res.degraded
  /\ res.code = 200 /\ res.dir = "demask" =>
       \E i \in I : /\ i.id = c[1].id /\ i.mask = c[1].payload /\ i.orig = res.text
                    /\ i.system = c[1].system /\ c[3].demask
  /\ res.code = 200 /\ res.dir = "ambiguous" => Masking(c[1].payload, res.text, res.degraded)
  /\ res.code = 200 /\ res.dir = "unknown_mask" =>
       /\ res.unknown
       /\ res.text = c[1].payload
       /\ \E rule \in Rules : res.text \in MaskLike[rule]

\* Every record in the store has been issued, and every mask issued is one of
\* its original.
StoreGrounded ==
  /\ \A id \in Ids : store[id] \in Record =>
       \E i \in issued : /\ i.id = id
                         /\ i.orig = store[id].orig
                         /\ i.mask = store[id].mask
                         /\ i.system = store[id].system
  /\ \A i \in issued : Masking(i.orig, i.mask, i.degraded)

\* A request and the leader of its flight came with the same id and payload.
Crewed(r) ==
  \/ leader[r] = r
  \/ /\ SameKey(leader[r], r)
     /\ pc[r] \notin {"new", "arrived", "get", "put", "landing"}
     /\ pc[leader[r]] # "new"

FlightGrounded(r) ==
  /\ Crewed(r)
  /\ pc[r] = "put" =>
       /\ result[r].code = 200
       /\ result[r].dir = "mask"
       /\ Masking(PayloadOf(r), result[r].text, result[r].degraded)
  /\ pc[r] \in {"landing", "reply"} => Grounded(issued, call[leader[r]], result[r])

AnswerGrounded(r) ==
  answer[r] # NoAnswer =>
    /\ pc[r] = "done" /\ Grounded(issued, call[leader[r]], answer[r])
    /\ answer[r].code = 200 /\ answer[r].degraded => ~PolicyOf(r).closed

GroundedInv ==
  /\ TypeOK
  /\ StoreGrounded
  /\ \A r \in Requests : FlightGrounded(r) /\ AnswerGrounded(r)

\* Grounds are never lost: correspondences are only added.
LEMMA GroundedMonotone ==
  ASSUME NEW I, NEW J, I \subseteq J, NEW c, NEW res, Grounded(I, c, res)
  PROVE  Grounded(J, c, res)
BY DEF Grounded

\* A step that leaves the handler of q, its leader's call and the ledger as
\* they were, or adds to the ledger, keeps the grounds of q.
LEMMA BystanderGrounded ==
  ASSUME TypeOK, NEW q \in Requests, FlightGrounded(q), AnswerGrounded(q),
         pc'[q] = pc[q], result'[q] = result[q], answer'[q] = answer[q],
         leader'[q] = leader[q], call'[q] = call[q],
         call'[leader[q]] = call[leader[q]],
         pc[leader[q]] # "new" => pc'[leader[q]] # "new",
         issued \subseteq issued'
  PROVE  FlightGrounded(q)' /\ AnswerGrounded(q)'
<1>1. Crewed(q)'
  BY DEF FlightGrounded, Crewed, SameKey, ReplicaOf, IdOf, PayloadOf
<1>2. pc'[q] = "put" =>
        /\ result'[q].code = 200
        /\ result'[q].dir = "mask"
        /\ Masking(call'[q][1].payload, result'[q].text, result'[q].degraded)
  BY DEF FlightGrounded, PayloadOf
<1>3. pc'[q] \in {"landing", "reply"} => Grounded(issued', call'[leader'[q]], result'[q])
  BY GroundedMonotone DEF FlightGrounded
<1>4. answer'[q] # NoAnswer =>
        /\ pc'[q] = "done" /\ Grounded(issued', call'[leader'[q]], answer'[q])
        /\ answer'[q].code = 200 /\ answer'[q].degraded => ~call'[q][3].closed
  BY GroundedMonotone DEF AnswerGrounded, PolicyOf
<1>5. QED
  BY <1>1, <1>2, <1>3, <1>4 DEF FlightGrounded, AnswerGrounded, PayloadOf, PolicyOf

\* A leader and a request that has not been crewed lead themselves.
LEMMA OwnLeader ==
  ASSUME NEW r \in Requests, FlightGrounded(r),
         pc[r] \in {"new", "arrived", "get", "put", "landing"}
  PROVE  leader[r] = r
BY DEF FlightGrounded, Crewed

LEMMA InitGrounded == Init => GroundedInv
<1>1. SUFFICES ASSUME Init PROVE GroundedInv
  OBVIOUS
<1>2. TypeOK
  BY <1>1, InitTypeOK
<1>3. StoreGrounded
  BY <1>1, MarkerAssumption DEF Init, StoreGrounded
<1>4. \A r \in Requests : FlightGrounded(r) /\ AnswerGrounded(r)
  BY <1>1 DEF Init, FlightGrounded, AnswerGrounded, Crewed
<1>5. QED
  BY <1>2, <1>3, <1>4 DEF GroundedInv

LEMMA ArriveGrounded ==
  ASSUME GroundedInv, NEW r \in Requests, Arrive(r)
  PROVE  GroundedInv'
<1>1. TypeOK /\ TypeOK'
  BY ArriveTypeOK DEF GroundedInv
<1>2. /\ pc[r] = "new"
      /\ \A q \in Requests \ {r} : pc'[q] = pc[q] /\ call'[q] = call[q] /\ answer'[q] = answer[q]
      /\ UNCHANGED <<store, leader, result, issued>>
  BY <1>1 DEF Arrive, TypeOK
<1>3. StoreGrounded'
  BY <1>2 DEF GroundedInv, StoreGrounded
<1>4. ASSUME NEW q \in Requests, q # r
      PROVE  FlightGrounded(q)' /\ AnswerGrounded(q)'
  <2>1. FlightGrounded(q) /\ AnswerGrounded(q) /\ leader[q] \in Requests
    BY <1>1 DEF GroundedInv, TypeOK
  <2>2. leader[q] # r
    BY <1>2, <1>4, <2>1 DEF FlightGrounded, Crewed
  <2>3. QED
    BY <1>1, <1>2, <1>4, <2>1, <2>2, BystanderGrounded
<1>5. FlightGrounded(r)' /\ AnswerGrounded(r)'
  <2>1. leader[r] = r /\ answer[r] = NoAnswer
    BY <1>2, OwnLeader DEF GroundedInv, AnswerGrounded
  <2>2. CASE pc'[r] = "arrived" /\ answer'[r] = answer[r]
    BY <1>2, <2>1, <2>2 DEF FlightGrounded, AnswerGrounded, Crewed
  <2>3. CASE pc'[r] = "done" /\ answer'[r] = Refusal(403, "none")
    <3>1. Grounded(issued', call'[r], Refusal(403, "none")) /\ Refusal(403, "none").code # 200
      BY DEF Grounded, Refusal
    <3>2. QED
      BY <1>2, <2>1, <2>3, <3>1 DEF FlightGrounded, AnswerGrounded, Crewed
  <2>4. QED
    BY <1>1, <2>2, <2>3 DEF Arrive, TypeOK
<1>6. QED
  BY <1>1, <1>3, <1>4, <1>5 DEF GroundedInv

\* A step of handler r that changes only its own part of the state, keeps its
\* leader and the ledger, and comes out grounded, keeps everyone grounded.
LEMMA OwnStepGrounded ==
  ASSUME GroundedInv, TypeOK', NEW r \in Requests,
         pc[r] # "new" => pc'[r] # "new",
         \A q \in Requests \ {r} :
           /\ pc'[q] = pc[q]
           /\ result'[q] = result[q]
           /\ answer'[q] = answer[q]
           /\ leader'[q] = leader[q],
         UNCHANGED <<call, store, issued>>,
         FlightGrounded(r)' /\ AnswerGrounded(r)'
  PROVE  GroundedInv'
<1>1. StoreGrounded'
  BY DEF GroundedInv, StoreGrounded
<1>2. ASSUME NEW q \in Requests, q # r
      PROVE  FlightGrounded(q)' /\ AnswerGrounded(q)'
  <2>1. /\ TypeOK
        /\ FlightGrounded(q) /\ AnswerGrounded(q)
        /\ leader[q] \in Requests
    BY DEF GroundedInv, TypeOK
  <2>2. pc[leader[q]] # "new" => pc'[leader[q]] # "new"
    BY <2>1
  <2>3. QED
    BY <1>2, <2>1, <2>2, BystanderGrounded
<1>3. QED
  BY <1>1, <1>2 DEF GroundedInv

LEMMA MoveGrounded ==
  ASSUME GroundedInv, NEW r \in Requests, Overloaded(r) \/ Lead(r) \/ Join(r)
  PROVE  GroundedInv'
<1>1. TypeOK /\ TypeOK'
  BY MoveTypeOK DEF GroundedInv
<1>2. pc[r] = "arrived" /\ leader[r] = r /\ answer[r] = NoAnswer
  <2>1. pc[r] = "arrived"
    BY DEF Overloaded, Lead, Join
  <2>2. QED
    BY <2>1, OwnLeader DEF GroundedInv, AnswerGrounded
<1>3. CASE Overloaded(r)
  <2>1. Grounded(issued, call[r], Refusal(429, "none")) /\ Refusal(429, "none").code # 200
    BY DEF Grounded, Refusal
  <2>2. FlightGrounded(r)' /\ AnswerGrounded(r)'
    BY <1>1, <1>2, <1>3, <2>1 DEF Overloaded, FlightGrounded, AnswerGrounded, Crewed, TypeOK
  <2>3. QED
    BY <1>1, <1>3, <2>2, OwnStepGrounded DEF Overloaded, TypeOK
<1>4. CASE Lead(r)
  <2>1. FlightGrounded(r)' /\ AnswerGrounded(r)'
    BY <1>1, <1>2, <1>4 DEF Lead, FlightGrounded, AnswerGrounded, Crewed, TypeOK
  <2>2. QED
    BY <1>1, <1>4, <2>1, OwnStepGrounded DEF Lead, TypeOK
<1>5. CASE Join(r)
  <2>1. PICK q \in Requests : /\ Leading(q)
                              /\ SameKey(q, r)
                              /\ leader' = [leader EXCEPT ![r] = q]
    BY <1>5 DEF Join
  <2>2. pc' = [pc EXCEPT ![r] = "waiting"] /\ UNCHANGED <<policy, store, call, result, answer, issued, lapsed>>
    BY <1>5 DEF Join
  <2>3. q # r /\ pc[q] # "new" /\ pc'[q] = pc[q]
    BY <1>1, <1>2, <2>1, <2>2 DEF Leading, TypeOK
  <2>4. SameKey(q, r)'
    BY <2>1, <2>2 DEF SameKey, ReplicaOf, IdOf, PayloadOf
  <2>5. pc'[r] = "waiting" /\ leader'[r] = q
    BY <1>1, <2>1, <2>2 DEF TypeOK
  <2>6. Crewed(r)'
    BY <2>3, <2>4, <2>5 DEF Crewed
  <2>7. FlightGrounded(r)' /\ AnswerGrounded(r)'
    BY <1>2, <2>2, <2>5, <2>6 DEF FlightGrounded, AnswerGrounded
  <2>8. QED
    BY <1>1, <2>1, <2>2, <2>5, <2>7, OwnStepGrounded DEF TypeOK
<1>6. QED
  BY <1>3, <1>4, <1>5

\* A flight that comes to a grounded result without writing keeps everyone so.
LEMMA DecideGrounded ==
  ASSUME GroundedInv, NEW r \in Requests, NEW res \in Answer,
         pc[r] \in {"get", "put"}, Grounded(issued, call[r], res), Decide(r, res),
         UNCHANGED <<policy, store, call, leader, answer, issued, lapsed>>
  PROVE  GroundedInv'
<1>1. TypeOK /\ TypeOK'
  BY DecideTypeOK DEF GroundedInv
<1>2. leader[r] = r /\ answer[r] = NoAnswer
  BY OwnLeader DEF GroundedInv, AnswerGrounded
<1>3. pc'[r] = "landing" /\ result'[r] = res
  BY <1>1 DEF Decide, TypeOK
<1>4. FlightGrounded(r)' /\ AnswerGrounded(r)'
  BY <1>2, <1>3 DEF FlightGrounded, AnswerGrounded, Crewed
<1>5. QED
  BY <1>1, <1>3, <1>4, OwnStepGrounded DEF Decide, TypeOK

\* Each branch of resolveFlight has its grounds in the record it read.
LEMMA LookupGrounded ==
  ASSUME GroundedInv, NEW r \in Requests, Lookup(r)
  PROVE  GroundedInv'
<1> DEFINE e == store[IdOf(r)]
<1>1. /\ pc[r] = "get"
      /\ UNCHANGED <<policy, store, call, leader, answer, issued, lapsed>>
      /\ TypeOK /\ TypeOK'
  BY LookupTypeOK DEF Lookup, GroundedInv
<1>2. IdOf(r) \in Ids /\ PayloadOf(r) \in Texts /\ RuleOf(r) \in Rules
  BY <1>1, CallParts DEF TypeOK
<1>3. e \in Record =>
        /\ e.orig \in Texts /\ e.mask \in Texts
        /\ \E i \in issued : /\ i.id = IdOf(r)
                             /\ i.orig = e.orig
                             /\ i.mask = e.mask
                             /\ i.system = e.system
  BY <1>2 DEF GroundedInv, StoreGrounded, Record
<1>4. ASSUME NEW res \in Answer, Decide(r, res), Grounded(issued, call[r], res)
      PROVE  GroundedInv'
  BY <1>1, <1>4, DecideGrounded
<1>5. CASE RetryMask(r)
  <2> DEFINE res == Success("mask_retry", e.mask, FALSE)
  <2>1. /\ res \in Answer
        /\ res.code = 200
        /\ res.dir = "mask_retry"
        /\ res.text = e.mask
    <3>1. e.mask \in Texts
      BY <1>3, <1>5 DEF RetryMask
    <3>2. res \in Answer
      BY <3>1, SuccessIsAnswer DEF Directions
    <3>3. QED
      BY <3>2 DEF Success
  <2>2. Decide(r, res) /\ e \in Record /\ e.orig = PayloadOf(r)
    BY <1>5 DEF RetryMask
  <2> HIDE DEF res, e
  <2>3. Grounded(issued, call[r], res)
    BY <1>3, <2>1, <2>2 DEF Grounded, IdOf, PayloadOf
  <2>4. QED
    BY <1>4, <2>1, <2>2, <2>3
<1>6. CASE Demask(r)
  <2>1. CASE PolicyOf(r).demask /\ e.system = SystemOf(r)
    <3> DEFINE res == Success("demask", e.orig, FALSE)
    <3>1. /\ res \in Answer
          /\ res.code = 200
          /\ res.dir = "demask"
          /\ res.text = e.orig
      <4>1. e.orig \in Texts
        BY <1>3, <1>6 DEF Demask
      <4>2. res \in Answer
        BY <4>1, SuccessIsAnswer DEF Directions
      <4>3. QED
        BY <4>2 DEF Success
    <3>2. Decide(r, res) /\ e \in Record /\ e.mask = PayloadOf(r)
      BY <1>6, <2>1 DEF Demask
    <3> HIDE DEF res, e
    <3>3. Grounded(issued, call[r], res)
      BY <1>3, <2>1, <3>1, <3>2 DEF Grounded, IdOf, PayloadOf, PolicyOf, SystemOf
    <3>4. QED
      BY <1>4, <3>1, <3>2, <3>3
  <2>2. CASE ~(PolicyOf(r).demask /\ e.system = SystemOf(r))
    <3>1. Decide(r, Refusal(403, "demask"))
      BY <1>6, <2>2 DEF Demask
    <3>2. Refusal(403, "demask") \in Answer
      BY RefusalIsAnswer DEF Directions, Codes
    <3>3. Grounded(issued, call[r], Refusal(403, "demask"))
      BY DEF Grounded, Refusal
    <3>4. QED
      BY <1>4, <3>1, <3>2, <3>3
  <2>3. QED
    BY <2>1, <2>2
<1>7. CASE Ambiguous(r)
  <2>1. PICK m \in Maskings(RuleOf(r), PayloadOf(r)) :
          Decide(r, Success("ambiguous", m.text, m.degraded))
    BY <1>7 DEF Ambiguous
  <2> DEFINE res == Success("ambiguous", m.text, m.degraded)
  <2>2. /\ res \in Answer
        /\ res.code = 200
        /\ res.dir = "ambiguous"
        /\ Masking(PayloadOf(r), res.text, res.degraded)
    BY <1>2, MaskingsAreTexts, SuccessIsAnswer DEF Directions, Masking
  <2>3. Decide(r, res)
    BY <2>1
  <2> HIDE DEF res
  <2>4. Grounded(issued, call[r], res)
    BY <2>2 DEF Grounded, PayloadOf
  <2>5. QED
    BY <1>4, <2>2, <2>3, <2>4
<1>8. CASE Corrupted(r)
  <2>1. Refusal(409, "demask") \in Answer
    BY RefusalIsAnswer DEF Directions, Codes
  <2>2. Grounded(issued, call[r], Refusal(409, "demask"))
    BY DEF Grounded, Refusal
  <2>3. QED
    BY <1>4, <1>8, <2>1, <2>2 DEF Corrupted
<1>9. CASE UnknownMask(r)
  <2>1. CASE PolicyOf(r).passthrough
    <3> DEFINE res == Echo(PayloadOf(r))
    <3>1. /\ res \in Answer
          /\ res.code = 200
          /\ res.dir = "unknown_mask"
          /\ res.unknown
          /\ res.text = PayloadOf(r)
      BY <1>2, EchoIsAnswer
    <3>2. Decide(r, res)
      BY <1>9, <2>1 DEF UnknownMask
    <3>3. \E rule \in Rules : PayloadOf(r) \in MaskLike[rule]
      BY <1>2, <1>9 DEF UnknownMask
    <3> HIDE DEF res
    <3>4. Grounded(issued, call[r], res)
      BY <3>1, <3>3 DEF Grounded, PayloadOf
    <3>5. QED
      BY <1>4, <3>1, <3>2, <3>4
  <2>2. CASE ~PolicyOf(r).passthrough
    <3>1. Decide(r, Refusal(404, "demask"))
      BY <1>9, <2>2 DEF UnknownMask
    <3>2. Refusal(404, "demask") \in Answer
      BY RefusalIsAnswer DEF Directions, Codes
    <3>3. Grounded(issued, call[r], Refusal(404, "demask"))
      BY DEF Grounded, Refusal
    <3>4. QED
      BY <1>4, <3>1, <3>2, <3>3
  <2>3. QED
    BY <2>1, <2>2
<1>10. CASE FirstMask(r)
  <2>1. PICK m \in Maskings(RuleOf(r), PayloadOf(r)) :
          result' = [result EXCEPT ![r] = Success("mask", m.text, m.degraded)]
    BY <1>10 DEF FirstMask
  <2> DEFINE res == Success("mask", m.text, m.degraded)
  <2>2. /\ res.code = 200
        /\ res.dir = "mask"
        /\ Masking(PayloadOf(r), res.text, res.degraded)
    BY <1>2, MaskingsAreTexts, SuccessIsAnswer DEF Directions, Masking
  <2> HIDE DEF res
  <2>3. pc' = [pc EXCEPT ![r] = "put"] /\ result' = [result EXCEPT ![r] = res]
    BY <1>10, <2>1 DEF FirstMask, res
  <2>4. leader[r] = r /\ answer[r] = NoAnswer
    BY <1>1, OwnLeader DEF GroundedInv, AnswerGrounded
  <2>5. FlightGrounded(r)' /\ AnswerGrounded(r)'
    BY <1>1, <2>2, <2>3, <2>4 DEF FlightGrounded, AnswerGrounded, Crewed, PayloadOf, TypeOK
  <2>6. QED
    BY <1>1, <2>3, <2>5, OwnStepGrounded DEF TypeOK
<1>11. QED
  BY <1>5, <1>6, <1>7, <1>8, <1>9, <1>10 DEF Lookup

LEMMA StoreFailsGrounded ==
  ASSUME GroundedInv, NEW r \in Requests, StoreFails(r)
  PROVE  GroundedInv'
<1>1. Refusal(503, "none") \in Answer
  BY RefusalIsAnswer DEF Directions, Codes
<1>2. Grounded(issued, call[r], Refusal(503, "none"))
  BY DEF Grounded, Refusal
<1>3. QED
  BY <1>1, <1>2, DecideGrounded DEF StoreFails

\* A Put writes what it issues; the mask the flight carries is now on record.
LEMMA PutGrounded ==
  ASSUME GroundedInv, NEW r \in Requests, Put(r)
  PROVE  GroundedInv'
<1> DEFINE rec == [orig |-> PayloadOf(r), mask |-> result[r].text, system |-> SystemOf(r)]
           new == [id |-> IdOf(r), orig |-> PayloadOf(r), mask |-> result[r].text,
                   system |-> SystemOf(r), degraded |-> result[r].degraded]
<1>1. /\ pc[r] = "put"
      /\ pc' = [pc EXCEPT ![r] = "landing"]
      /\ store' = [store EXCEPT ![IdOf(r)] = rec]
      /\ issued' = issued \cup {new}
      /\ UNCHANGED <<policy, call, leader, result, answer, lapsed>>
  BY DEF Put
<1>2. TypeOK /\ TypeOK' /\ IdOf(r) \in Ids
  <2>1. TypeOK /\ TypeOK'
    BY PutTypeOK DEF GroundedInv
  <2>2. QED
    BY <1>1, <2>1, CallParts DEF TypeOK
<1>3. /\ new.id = IdOf(r) /\ new.orig = rec.orig /\ new.mask = rec.mask
      /\ new.system = rec.system
      /\ new.orig = PayloadOf(r) /\ new.mask = result[r].text
      /\ new.degraded = result[r].degraded
  OBVIOUS
<1> HIDE DEF rec, new
<1>4. /\ FlightGrounded(r) /\ AnswerGrounded(r)
      /\ Masking(PayloadOf(r), result[r].text, result[r].degraded)
      /\ result[r].code = 200 /\ result[r].dir = "mask"
  BY <1>1 DEF GroundedInv, FlightGrounded
<1>5. leader[r] = r /\ answer[r] = NoAnswer
  BY <1>1, <1>4, OwnLeader DEF AnswerGrounded
<1>6. StoreGrounded'
  <2>1. \A id \in Ids : store'[id] \in Record =>
          \E i \in issued' : /\ i.id = id
                             /\ i.orig = store'[id].orig
                             /\ i.mask = store'[id].mask
                             /\ i.system = store'[id].system
    <3> SUFFICES ASSUME NEW id \in Ids, store'[id] \in Record
                 PROVE  \E i \in issued' : /\ i.id = id
                                           /\ i.orig = store'[id].orig
                                           /\ i.mask = store'[id].mask
                                           /\ i.system = store'[id].system
      OBVIOUS
    <3>1. CASE id = IdOf(r)
      BY <1>1, <1>2, <1>3, <3>1 DEF TypeOK
    <3>2. CASE id # IdOf(r)
      BY <1>1, <1>2, <3>2 DEF TypeOK, GroundedInv, StoreGrounded
    <3>3. QED
      BY <3>1, <3>2
  <2>2. \A i \in issued' : Masking(i.orig, i.mask, i.degraded)
    BY <1>1, <1>3, <1>4 DEF GroundedInv, StoreGrounded
  <2>3. QED
    BY <2>1, <2>2 DEF StoreGrounded
<1>7. FlightGrounded(r)' /\ AnswerGrounded(r)'
  <2>1. Grounded(issued', call[r], result[r])
    BY <1>1, <1>3, <1>4 DEF Grounded, IdOf, PayloadOf
  <2>2. QED
    BY <1>1, <1>2, <1>5, <2>1 DEF FlightGrounded, AnswerGrounded, Crewed, TypeOK
<1>8. ASSUME NEW q \in Requests, q # r
      PROVE  FlightGrounded(q)' /\ AnswerGrounded(q)'
  <2>1. /\ FlightGrounded(q) /\ AnswerGrounded(q) /\ leader[q] \in Requests
        /\ pc'[q] = pc[q]
        /\ pc[leader[q]] # "new" => pc'[leader[q]] # "new"
    BY <1>1, <1>2, <1>8 DEF GroundedInv, TypeOK
  <2>2. QED
    BY <1>1, <1>2, <2>1, BystanderGrounded
<1>9. QED
  BY <1>2, <1>6, <1>7, <1>8 DEF GroundedInv

\* The crew of a flight takes over the grounds of its leader.
LEMMA LandGrounded ==
  ASSUME GroundedInv, NEW r \in Requests, Land(r)
  PROVE  GroundedInv'
<1> DEFINE crew == {q \in Requests : q = r \/ (pc[q] = "waiting" /\ leader[q] = r)}
<1>1. /\ pc[r] = "landing"
      /\ pc' = [q \in Requests |-> IF q \in crew THEN "reply" ELSE pc[q]]
      /\ result' = [q \in Requests |-> IF q \in crew THEN result[r] ELSE result[q]]
      /\ UNCHANGED <<policy, store, call, leader, answer, issued, lapsed>>
  BY DEF Land
<1>2. TypeOK /\ TypeOK'
  BY LandTypeOK DEF GroundedInv
<1>3. /\ leader[r] = r
      /\ Grounded(issued, call[r], result[r])
  BY <1>1, OwnLeader DEF GroundedInv, FlightGrounded
<1>4. \A q \in crew : leader[q] = r /\ answer[q] = NoAnswer
  BY <1>1, <1>3 DEF GroundedInv, AnswerGrounded
<1>5. crew \subseteq Requests
  OBVIOUS
<1> HIDE DEF crew
<1>6. StoreGrounded'
  BY <1>1 DEF GroundedInv, StoreGrounded
<1>7. ASSUME NEW q \in crew
      PROVE  FlightGrounded(q)' /\ AnswerGrounded(q)'
  <2>1. /\ pc'[q] = "reply"
        /\ result'[q] = result[r]
        /\ leader'[q] = r
        /\ answer'[q] = NoAnswer
    BY <1>1, <1>4, <1>5
  <2>2. Crewed(q)'
    <3>1. Crewed(q)
      BY <1>5 DEF GroundedInv, FlightGrounded
    <3>2. q = r \/ (SameKey(r, q) /\ pc'[r] # "new")
      BY <1>1, <1>2, <1>4, <3>1 DEF Crewed, TypeOK
    <3>3. QED
      BY <1>1, <2>1, <3>2 DEF Crewed, SameKey, ReplicaOf, IdOf, PayloadOf
  <2>3. QED
    BY <1>1, <1>3, <2>1, <2>2 DEF FlightGrounded, AnswerGrounded
<1>8. ASSUME NEW q \in Requests, q \notin crew
      PROVE  FlightGrounded(q)' /\ AnswerGrounded(q)'
  <2>1. /\ FlightGrounded(q) /\ AnswerGrounded(q) /\ leader[q] \in Requests
        /\ pc'[q] = pc[q] /\ result'[q] = result[q]
        /\ pc[leader[q]] # "new" => pc'[leader[q]] # "new"
    BY <1>1, <1>2, <1>8 DEF GroundedInv, TypeOK
  <2>2. QED
    BY <1>1, <1>2, <2>1, BystanderGrounded
<1>9. QED
  BY <1>2, <1>6, <1>7, <1>8 DEF GroundedInv

LEMMA RespondGrounded ==
  ASSUME GroundedInv, NEW r \in Requests, Respond(r)
  PROVE  GroundedInv'
<1> DEFINE res == ResponseTo(result[r], PolicyOf(r))
<1>1. /\ pc[r] = "reply"
      /\ pc' = [pc EXCEPT ![r] = "done"]
      /\ answer' = [answer EXCEPT ![r] = res]
      /\ UNCHANGED <<policy, store, call, leader, result, issued, lapsed>>
  BY DEF Respond
<1>2. TypeOK /\ TypeOK'
  BY RespondTypeOK DEF GroundedInv
<1>3. result[r] \in Answer /\ PolicyOf(r) \in SystemPolicy
  BY <1>1, <1>2, CallParts DEF TypeOK
<1>4. /\ Crewed(r)
      /\ Grounded(issued, call[leader[r]], result[r])
  BY <1>1 DEF GroundedInv, FlightGrounded
<1>5. /\ Grounded(issued, call[leader[r]], res)
      /\ res.code = 200 /\ res.degraded => ~PolicyOf(r).closed
  BY <1>3, <1>4, ResponseIsAnswer DEF Grounded
<1> HIDE DEF res
<1>6. FlightGrounded(r)' /\ AnswerGrounded(r)'
  <2>1. pc'[r] = "done" /\ answer'[r] = res
    BY <1>1, <1>2 DEF TypeOK
  <2>2. Crewed(r)'
    BY <1>1, <1>2, <1>4, <2>1 DEF Crewed, SameKey, ReplicaOf, IdOf, PayloadOf, TypeOK
  <2>3. QED
    BY <1>1, <1>5, <2>1, <2>2 DEF FlightGrounded, AnswerGrounded, PolicyOf
<1>7. QED
  BY <1>1, <1>2, <1>6, OwnStepGrounded DEF TypeOK

LEMMA SurroundingsGrounded ==
  ASSUME GroundedInv, Reload \/ \E id \in Ids : Lapse(id) \/ Spoil(id)
  PROVE  GroundedInv'
<1>1. TypeOK /\ TypeOK'
  BY SurroundingsTypeOK DEF GroundedInv
<1>2. UNCHANGED <<pc, call, leader, result, answer, issued>>
  BY DEF Reload, Lapse, Spoil
<1>3. StoreGrounded'
  <2>1. \A id \in Ids : store'[id] \in {store[id], NoRecord, Corrupt}
    BY <1>1 DEF Reload, Lapse, Spoil, TypeOK
  <2>2. \A id \in Ids : store'[id] \in Record => store'[id] = store[id]
    BY <2>1, MarkerAssumption
  <2>3. QED
    BY <1>2, <2>2 DEF GroundedInv, StoreGrounded
<1>4. ASSUME NEW q \in Requests
      PROVE  FlightGrounded(q)' /\ AnswerGrounded(q)'
  <2>1. FlightGrounded(q) /\ AnswerGrounded(q)
    BY DEF GroundedInv
  <2>2. QED
    BY <1>1, <1>2, <2>1, BystanderGrounded
<1>5. QED
  BY <1>1, <1>3, <1>4 DEF GroundedInv

LEMMA NextGrounded == GroundedInv /\ [Next]_vars => GroundedInv'
<1>1. SUFFICES ASSUME GroundedInv, [Next]_vars PROVE GroundedInv'
  OBVIOUS
<1>2. ASSUME NEW r \in Requests, Arrive(r) \/ Serve(r)
      PROVE  GroundedInv'
  BY <1>1, <1>2, ArriveGrounded, MoveGrounded, LookupGrounded, StoreFailsGrounded,
     PutGrounded, LandGrounded, RespondGrounded DEF Serve
<1>3. CASE Reload \/ \E id \in Ids : Lapse(id) \/ Spoil(id)
  BY <1>1, <1>3, SurroundingsGrounded
<1>4. CASE UNCHANGED vars
  <2>1. TypeOK /\ TypeOK'
    BY <1>1, <1>4, NextTypeOK DEF GroundedInv
  <2>2. StoreGrounded'
    BY <1>1, <1>4 DEF vars, GroundedInv, StoreGrounded
  <2>3. \A q \in Requests : FlightGrounded(q)' /\ AnswerGrounded(q)'
    BY <1>1, <1>4, <2>1, BystanderGrounded DEF vars, GroundedInv
  <2>4. QED
    BY <2>1, <2>2, <2>3 DEF GroundedInv
<1>5. QED
  BY <1>1, <1>2, <1>3, <1>4 DEF Next

THEOREM AlwaysGrounded == Spec => []GroundedInv
BY InitGrounded, NextGrounded, PTL DEF Spec

\* What comes out of demasking is the original stored under that id against the
\* mask sent, and the flight was led by its owner.
THEOREM DemaskingIsExact == Spec => []DemaskIsExact
<1>1. GroundedInv => DemaskIsExact
  <2> SUFFICES ASSUME GroundedInv, NEW r \in Requests,
                      Answered(r), answer[r].dir = "demask"
               PROVE  \E i \in issued :
                        /\ i.id = IdOf(r)
                        /\ i.mask = PayloadOf(r)
                        /\ i.orig = answer[r].text
                        /\ i.system = SystemOf(leader[r])
                        /\ PolicyOf(leader[r]).demask
    BY DEF DemaskIsExact
  <2>1. Grounded(issued, call[leader[r]], answer[r]) /\ Crewed(r)
    BY DEF GroundedInv, AnswerGrounded, FlightGrounded, Answered
  <2>2. IdOf(leader[r]) = IdOf(r) /\ PayloadOf(leader[r]) = PayloadOf(r)
    BY <2>1 DEF Crewed, SameKey
  <2>3. QED
    BY <2>1, <2>2 DEF Grounded, Answered, IdOf, PayloadOf, SystemOf, PolicyOf
<1>2. QED
  BY <1>1, AlwaysGrounded, PTL

\* No response but that of demasking carries a text the engine, with every detector
\* at work, did not make of the one sent: short of a mask that comes back as it came,
\* of a degraded answer in the open mode, and of a repeated text whose stored mask is
\* a partial one.
THEOREM NoOpenTextUnaccountedFor == Spec => []OpenTextIsAccountedFor
<1>1. GroundedInv => OpenTextIsAccountedFor
  <2> SUFFICES ASSUME GroundedInv, NEW r \in Requests, answer[r] # NoAnswer
               PROVE  /\ Answered(r) /\ answer[r].dir # "demask" =>
                           \/ answer[r].text \in WholeMasks(PayloadOf(r))
                           \/ OpenByFailure(r)
                           \/ /\ answer[r].unknown
                              /\ answer[r].text = PayloadOf(r)
                              /\ \E rule \in Rules : PayloadOf(r) \in MaskLike[rule]
                      /\ answer[r].code # 200 => answer[r].text = NoText
    BY DEF OpenTextIsAccountedFor, Answered
  <2>1. Grounded(issued, call[leader[r]], answer[r]) /\ Crewed(r)
    BY DEF GroundedInv, AnswerGrounded, FlightGrounded
  <2>2. IdOf(leader[r]) = IdOf(r) /\ PayloadOf(leader[r]) = PayloadOf(r)
    BY <2>1 DEF Crewed, SameKey
  <2>3. answer[r].dir \in Directions
    BY DEF GroundedInv, TypeOK, Answer
  <2>4. answer[r].code = 200 /\ answer[r].degraded => ~PolicyOf(r).closed
    BY DEF GroundedInv, AnswerGrounded
  <2>5. ASSUME Answered(r), answer[r].dir \in {"mask", "mask_retry"}
        PROVE  answer[r].text \in WholeMasks(PayloadOf(r)) \/ OpenByFailure(r)
    <3>1. PICK i \in issued : /\ i.id = IdOf(r) /\ i.orig = PayloadOf(r) /\ i.mask = answer[r].text
                              /\ answer[r].dir = "mask" => i.degraded = answer[r].degraded
      BY <2>1, <2>2, <2>5 DEF Grounded, Answered, PayloadOf, IdOf
    <3>2. Masking(i.orig, i.mask, i.degraded)
      BY DEF GroundedInv, StoreGrounded
    <3>3. QED
      BY <2>4, <2>5, <3>1, <3>2 DEF Masking, OpenByFailure, Answered
  <2>6. ASSUME Answered(r), answer[r].dir = "ambiguous"
        PROVE  answer[r].text \in WholeMasks(PayloadOf(r)) \/ OpenByFailure(r)
    BY <2>1, <2>2, <2>4, <2>6 DEF Grounded, Masking, OpenByFailure, Answered, PayloadOf
  <2>7. QED
    BY <2>1, <2>2, <2>3, <2>5, <2>6 DEF Grounded, Answered, Directions, PayloadOf
<1>2. QED
  BY <1>1, AlwaysGrounded, PTL

-----------------------------------------------------------------------------
(* The service implements Ledger: every step of Process is a step of the    *)
(* ledger or leaves it alone.                                               *)

\* A request has a call from its arrival on.
Called == \A r \in Requests : pc[r] = "new" <=> call[r] = NoCall

LedgerInv == GroundedInv /\ Called

LEMMA InitLedger == Init => LedgerInv
BY InitGrounded DEF Init, LedgerInv, Called

LEMMA NextLedger == LedgerInv /\ [Next]_vars => LedgerInv'
<1>1. SUFFICES ASSUME LedgerInv, [Next]_vars PROVE Called'
  BY NextGrounded DEF LedgerInv
<1>2. TypeOK /\ TypeOK' /\ Called
  BY <1>1, NextGrounded DEF LedgerInv, GroundedInv
<1>3. ASSUME NEW r \in Requests, Arrive(r)
      PROVE  Called'
  <2>1. PICK c \in Calls, p \in Replicas :
          /\ call' = [call EXCEPT ![r] = <<c, p, policy[c.system]>>]
          /\ pc' = [pc EXCEPT ![r] = "arrived"] \/ pc' = [pc EXCEPT ![r] = "done"]
    BY <1>3 DEF Arrive
  <2>2. call'[r] # NoCall
    <3>1. c \in Call /\ policy[c.system] \in SystemPolicy
      BY <1>2, DataAssumption DEF TypeOK, Call
    <3>2. QED
      BY <1>2, <2>1, <3>1, CallAssumption DEF TypeOK, Admitted
  <2>3. QED
    BY <1>2, <2>1, <2>2 DEF Called, TypeOK
<1>4. ASSUME NEW r \in Requests,
             Overloaded(r) \/ Lead(r) \/ Join(r) \/ Lookup(r) \/ StoreFails(r)
               \/ Put(r) \/ Respond(r)
      PROVE  Called'
  <2>1. call' = call /\ pc[r] # "new"
    BY <1>4 DEF Overloaded, Lead, Join, Lookup, StoreFails, Put, Respond
  <2>2. pc'[r] # "new" /\ \A q \in Requests \ {r} : pc'[q] = pc[q]
    BY <1>2, <1>4 DEF Overloaded, Lead, Join, Lookup, RetryMask, Demask, Ambiguous,
         Corrupted, UnknownMask, FirstMask, Decide, StoreFails, Put, Respond, TypeOK
  <2>3. QED
    BY <1>2, <2>1, <2>2 DEF Called
<1>5. ASSUME NEW r \in Requests, Land(r)
      PROVE  Called'
  BY <1>2, <1>5 DEF Land, Called, TypeOK
<1>6. CASE Reload \/ \E id \in Ids : Lapse(id) \/ Spoil(id)
  BY <1>2, <1>6 DEF Reload, Lapse, Spoil, Called
<1>7. CASE UNCHANGED vars
  BY <1>2, <1>7 DEF vars, Called
<1>8. QED
  BY <1>1, <1>3, <1>4, <1>5, <1>6, <1>7 DEF Next, Serve

-----------------------------------------------------------------------------
LEMMA InitImplements == Init => Promise!Init
BY DEF Init, Promise!Init

\* The arrival of a request, refused at once or not, is the client's Ask.
LEMMA ArriveImplements ==
  ASSUME LedgerInv, NEW r \in Requests, Arrive(r)
  PROVE  Promise!Ask(r)
<1>1. TypeOK /\ TypeOK' /\ pc[r] = "new" /\ call[r] = NoCall
  BY ArriveTypeOK DEF LedgerInv, GroundedInv, Called, Arrive
<1>2. PICK c \in Calls, p \in Replicas :
        /\ call' = [call EXCEPT ![r] = <<c, p, policy[c.system]>>]
        /\ UNCHANGED answer \/ answer' = [answer EXCEPT ![r] = Refusal(403, "none")]
        /\ UNCHANGED issued
  BY DEF Arrive
<1>3. call'[r] = <<c, p, policy[c.system]>> /\ call'[r] \in Admitted
  <2>1. c \in Call /\ policy[c.system] \in SystemPolicy
    BY <1>1, DataAssumption DEF TypeOK, Call
  <2>2. QED
    BY <1>1, <1>2, <2>1 DEF TypeOK, Admitted
<1>4. call' = [call EXCEPT ![r] = call'[r]]
  BY <1>2, <1>3
<1>5. ASSUME answer' = [answer EXCEPT ![r] = Refusal(403, "none")]
      PROVE  /\ answer'[r] \in Answer
             /\ answer'[r].code # 200
             /\ answer'[r].text = NoText
             /\ answer' = [answer EXCEPT ![r] = answer'[r]]
  <2>1. answer'[r] = Refusal(403, "none")
    BY <1>1, <1>5 DEF TypeOK
  <2>2. Refusal(403, "none") \in Answer
    BY RefusalIsAnswer DEF Codes, Directions
  <2>3. Refusal(403, "none").code # 200 /\ Refusal(403, "none").text = NoText
    BY DEF Refusal
  <2>4. QED
    BY <1>5, <2>1, <2>2, <2>3
<1>6. QED
  BY <1>1, <1>2, <1>3, <1>4, <1>5 DEF Promise!Ask

\* The answer r gets, on the grounds its flight had, is one the ledger allows.
LEMMA GroundedReplies ==
  ASSUME LedgerInv, NEW r \in Requests, NEW res \in Answer,
         pc[r] \notin {"new", "done"}, Grounded(issued, call[leader[r]], res),
         answer' = [answer EXCEPT ![r] = res], UNCHANGED <<call, issued>>
  PROVE  Promise!Reply(r)
<1>1. TypeOK /\ FlightGrounded(r) /\ AnswerGrounded(r)
  BY DEF LedgerInv, GroundedInv
<1>2. Promise!Open(r)
  BY <1>1 DEF Promise!Open, LedgerInv, Called, AnswerGrounded
<1>3. answer'[r] = res
  BY <1>1 DEF TypeOK
<1> DEFINE q == leader[r]
<1>4. /\ q \in Requests
      /\ call[q] # NoCall
      /\ Promise!Same(q, r)
  <2>1. q \in Requests /\ call[r] # NoCall
    BY <1>1 DEF TypeOK
  <2>2. CASE q = r
    BY <2>1, <2>2 DEF Promise!Same
  <2>3. CASE q # r
    BY <1>1, <2>1, <2>3 DEF FlightGrounded, Crewed, SameKey, IdOf, PayloadOf,
                            Promise!Same, LedgerInv, Called
  <2>4. QED
    BY <2>2, <2>3, <2>1
<1> HIDE DEF q
<1>5. Grounded(issued, call[q], res)
  BY DEF q
<1>6. Promise!Justified(r, res)
  <2>1. CASE res.code # 200
    BY <1>5, <2>1 DEF Grounded, Promise!Justified
  <2>2. CASE res.code = 200 /\ res.dir \in {"mask", "mask_retry"}
    BY <1>4, <1>5, <2>2 DEF Grounded, Promise!Justified, Promise!MaskJustified, Promise!Same
  <2>3. CASE res.code = 200 /\ res.dir = "demask"
    BY <1>4, <1>5, <2>3 DEF Grounded, Promise!Justified, Promise!DemaskJustified, Promise!Same
  <2>4. CASE res.code = 200 /\ res.dir = "ambiguous"
    BY <1>4, <1>5, <2>4, MaskingIsOfLedger DEF Grounded, Promise!Justified, Promise!Same
  <2>5. CASE res.code = 200 /\ res.dir = "unknown_mask"
    BY <1>4, <1>5, <2>5 DEF Grounded, Promise!Justified, Promise!EchoJustified, Promise!Same
  <2>6. QED
    BY <1>5, <2>1, <2>2, <2>3, <2>4, <2>5 DEF Answer, Directions, Grounded
<1>7. QED
  BY <1>2, <1>3, <1>6 DEF Promise!Reply

LEMMA OverloadedImplements ==
  ASSUME LedgerInv, NEW r \in Requests, Overloaded(r)
  PROVE  Promise!Reply(r)
<1>1. Refusal(429, "none") \in Answer
  BY RefusalIsAnswer DEF Codes, Directions
<1>2. Grounded(issued, call[leader[r]], Refusal(429, "none"))
  BY DEF Grounded, Refusal
<1>3. QED
  BY <1>1, <1>2, GroundedReplies DEF Overloaded

LEMMA RespondImplements ==
  ASSUME LedgerInv, NEW r \in Requests, Respond(r)
  PROVE  Promise!Reply(r)
<1> DEFINE res == ResponseTo(result[r], PolicyOf(r))
<1>1. /\ pc[r] = "reply"
      /\ answer' = [answer EXCEPT ![r] = res]
      /\ UNCHANGED <<call, issued>>
  BY DEF Respond
<1>2. result[r] \in Answer /\ PolicyOf(r) \in SystemPolicy
  BY <1>1, CallParts DEF LedgerInv, GroundedInv, TypeOK
<1>3. Grounded(issued, call[leader[r]], result[r])
  BY <1>1 DEF LedgerInv, GroundedInv, FlightGrounded
<1>4. res \in Answer /\ Grounded(issued, call[leader[r]], res)
  BY <1>2, <1>3, ResponseIsAnswer DEF Grounded
<1> HIDE DEF res
<1>5. QED
  BY <1>1, <1>4, GroundedReplies

\* Storing a correspondence enters it in the ledger.
LEMMA PutImplements ==
  ASSUME LedgerInv, NEW r \in Requests, Put(r)
  PROVE  Promise!Enter(r)
<1> DEFINE i == [id |-> IdOf(r), orig |-> PayloadOf(r), mask |-> result[r].text,
                 system |-> SystemOf(r), degraded |-> result[r].degraded]
<1>1. pc[r] = "put" /\ issued' = issued \cup {i} /\ UNCHANGED <<call, answer>>
  BY DEF Put
<1>2. TypeOK /\ FlightGrounded(r) /\ AnswerGrounded(r)
  BY DEF LedgerInv, GroundedInv
<1>3. Promise!Open(r)
  BY <1>1, <1>2 DEF Promise!Open, AnswerGrounded, TypeOK
<1>4. i \in Issue
  <2>1. IdOf(r) \in Ids /\ PayloadOf(r) \in Texts /\ SystemOf(r) \in Systems
    BY <1>1, <1>2, CallParts DEF TypeOK
  <2>2. result[r] \in Answer /\ result[r].text \in Texts
    BY <1>1, <1>2 DEF TypeOK
  <2>3. QED
    BY <2>1, <2>2 DEF Issue, Answer
<1>5. /\ i.id = call[r][1].id
      /\ i.orig = call[r][1].payload
      /\ i.system = call[r][1].system
  BY DEF IdOf, PayloadOf, SystemOf
<1>6. i.mask \in Promise!Masks(i.orig)
  BY <1>1, <1>2, MaskingIsOfLedger DEF FlightGrounded
<1> HIDE DEF i
<1>7. QED
  BY <1>1, <1>3, <1>4, <1>5, <1>6 DEF Promise!Enter


LEMMA NextImplements ==
  LedgerInv /\ [Next]_vars => [Promise!Next]_(Promise!vars)
<1>1. SUFFICES ASSUME LedgerInv, [Next]_vars PROVE [Promise!Next]_(Promise!vars)
  OBVIOUS
<1>2. ASSUME NEW r \in Requests, Arrive(r) \/ Overloaded(r) \/ Put(r) \/ Respond(r)
      PROVE  Promise!Next
  BY <1>1, <1>2, ArriveImplements, OverloadedImplements, PutImplements,
     RespondImplements DEF Promise!Next
<1>3. ASSUME NEW r \in Requests,
             Lead(r) \/ Join(r) \/ Lookup(r) \/ StoreFails(r) \/ Land(r)
      PROVE  UNCHANGED Promise!vars
  BY <1>3 DEF Lead, Join, Lookup, StoreFails, Land, Promise!vars
<1>4. CASE Reload \/ \E id \in Ids : Lapse(id) \/ Spoil(id)
  BY <1>4 DEF Reload, Lapse, Spoil, Promise!vars
<1>5. CASE UNCHANGED vars
  BY <1>5 DEF vars, Promise!vars
<1>6. QED
  BY <1>1, <1>2, <1>3, <1>4, <1>5 DEF Next, Serve

\* The service keeps the promise of Ledger: a ledger of correspondences that
\* only grows, one response to each request, and grounds in the ledger for each.
THEOREM LedgerIsKept == Spec => KeepsLedger
<1>1. Spec => []LedgerInv
  BY InitLedger, NextLedger, PTL DEF Spec
<1>2. QED
  BY <1>1, InitImplements, NextImplements, PTL DEF Spec, KeepsLedger, Promise!Spec

-----------------------------------------------------------------------------
(* Why a mask given to a client goes on demasking.  The store is written    *)
(* after the masking, over whatever the id has by then, so this rests on a  *)
(* discipline of the deployment and of the clients, stated below, and on    *)
(* the coalescing of identical requests.                                    *)

\* Some system would have this payload masked and stored.
Maskable(c) == \E rule \in Rules : c.payload \notin MaskLike[rule]

\* One replica serves the store, and an id is used for one open text: what else
\* comes under it are masks on their way back.
Discipline ==
  /\ \A p, q \in Replicas : p = q
  /\ \A c, d \in Calls : c.id = d.id /\ Maskable(c) /\ Maskable(d) => c.payload = d.payload

\* What call c was given is on record in s, unless its id is among the lapsed.
Kept(s, l, c, res) ==
  res.code = 200 /\ res.dir \in {"mask", "mask_retry"} /\ c[1].id \notin l =>
    /\ s[c[1].id] \in Record
    /\ s[c[1].id].orig = c[1].payload
    /\ s[c[1].id].mask = res.text

\* A flight about to write finds its id as free as it read it.
Free(r) == store[IdOf(r)] = NoRecord /\ Maskable(call[r][1])

Held(r) ==
  /\ call[r] # NoCall => call[r][1] \in Calls
  /\ pc[r] = "put" => Free(r)
  /\ pc[r] \in {"landing", "reply"} => Kept(store, lapsed, call[r], result[r])
  /\ answer[r] # NoAnswer => call[r] # NoCall /\ Kept(store, lapsed, call[r], answer[r])

\* Requests with one key are led by one of them.
Solo ==
  \A q, r \in Requests : Leading(q) /\ Leading(r) /\ SameKey(q, r) => q = r

CustodyInv ==
  /\ GroundedInv
  /\ Solo
  /\ \A r \in Requests : Held(r)

-----------------------------------------------------------------------------
\* Refusals, and answers other than a mask, hold nothing.
LEMMA NothingToKeep ==
  ASSUME NEW s, NEW l, NEW c, NEW res,
         res.code # 200 \/ res.dir \notin {"mask", "mask_retry"}
  PROVE  Kept(s, l, c, res)
BY DEF Kept

\* The response keeps what the result of the flight kept.
LEMMA ResponseKeeps ==
  ASSUME NEW s, NEW l, NEW c, NEW res \in Answer, NEW own \in SystemPolicy,
         Kept(s, l, c, res)
  PROVE  Kept(s, l, c, ResponseTo(res, own))
BY ResponseIsAnswer DEF Kept

\* A step that leaves the store, the lapsed ids and the handler of q alone
\* leaves what q holds alone.
LEMMA BystanderHeld ==
  ASSUME NEW q \in Requests, Held(q),
         pc'[q] = pc[q], call'[q] = call[q], result'[q] = result[q], answer'[q] = answer[q],
         UNCHANGED <<store, lapsed>>
  PROVE  Held(q)'
BY DEF Held, Free, IdOf

\* A step of r that starts no flight, and no handler but that of r moving,
\* leaves every key with one leader.
LEMMA NoNewLeader ==
  ASSUME Solo, NEW r \in Requests, Leading(r)' => Leading(r),
         \A q \in Requests \ {r} : Leading(q)' => Leading(q),
         \A q \in Requests : Leading(q) => call'[q] = call[q]
  PROVE  Solo'
<1>1. SUFFICES ASSUME NEW p \in Requests, NEW q \in Requests,
                      Leading(p)', Leading(q)', SameKey(p, q)'
               PROVE  p = q
  BY DEF Solo
<1>2. Leading(p) /\ Leading(q)
  BY <1>1
<1>3. SameKey(p, q)
  BY <1>1, <1>2 DEF SameKey, ReplicaOf, IdOf, PayloadOf
<1>4. QED
  BY <1>1, <1>2, <1>3 DEF Solo

LEMMA InitCustody == Init => CustodyInv
<1>1. SUFFICES ASSUME Init PROVE CustodyInv
  OBVIOUS
<1>2. GroundedInv
  BY <1>1, InitGrounded
<1>3. Solo
  BY <1>1 DEF Init, Solo, Leading
<1>4. \A r \in Requests : Held(r)
  BY <1>1 DEF Init, Held
<1>5. QED
  BY <1>2, <1>3, <1>4 DEF CustodyInv

LEMMA ArriveCustody ==
  ASSUME CustodyInv, NEW r \in Requests, Arrive(r)
  PROVE  Solo' /\ \A q \in Requests : Held(q)'
<1>1. TypeOK /\ FlightGrounded(r) /\ AnswerGrounded(r)
  BY DEF CustodyInv, GroundedInv
<1>2. PICK c \in Calls, p \in Replicas : call' = [call EXCEPT ![r] = <<c, p, policy[c.system]>>]
  BY DEF Arrive
<1>3. /\ pc[r] = "new"
      /\ \A q \in Requests \ {r} : /\ pc'[q] = pc[q]
                                   /\ call'[q] = call[q]
                                   /\ answer'[q] = answer[q]
      /\ UNCHANGED <<store, result, lapsed>>
      /\ call'[r] = <<c, p, policy[c.system]>>
      /\ pc'[r] \in {"arrived", "done"}
  BY <1>1, <1>2 DEF Arrive, TypeOK
<1>4. /\ answer[r] = NoAnswer
      /\ call'[r][1] \in Calls
      /\ call'[r] # NoCall
  <2>1. c \in Call /\ policy[c.system] \in SystemPolicy
    BY <1>1, DataAssumption DEF TypeOK, Call
  <2>2. QED
    BY <1>1, <1>3, <2>1, CallAssumption DEF AnswerGrounded, Admitted
<1>5. Solo'
  BY <1>3, NoNewLeader DEF CustodyInv, Leading
<1>6. Held(r)'
  <2>1. CASE answer' = answer
    BY <1>3, <1>4, <2>1 DEF Held
  <2>2. CASE answer' = [answer EXCEPT ![r] = Refusal(403, "none")]
    <3>1. answer'[r] = Refusal(403, "none") /\ Refusal(403, "none").code # 200
      BY <1>1, <2>2 DEF TypeOK, Refusal
    <3>2. Kept(store', lapsed', call'[r], answer'[r])
      BY <3>1, NothingToKeep
    <3>3. QED
      BY <1>3, <1>4, <3>2 DEF Held
  <2>3. QED
    BY <2>1, <2>2 DEF Arrive
<1>7. \A q \in Requests \ {r} : Held(q)'
  BY <1>3, BystanderHeld DEF CustodyInv
<1>8. QED
  BY <1>5, <1>6, <1>7

LEMMA MoveCustody ==
  ASSUME CustodyInv, NEW r \in Requests, Overloaded(r) \/ Lead(r) \/ Join(r)
  PROVE  Solo' /\ \A q \in Requests : Held(q)'
<1>1. TypeOK /\ AnswerGrounded(r) /\ Held(r) /\ Solo
  BY DEF CustodyInv, GroundedInv
<1>2. /\ pc[r] = "arrived"
      /\ \A q \in Requests \ {r} : pc'[q] = pc[q] /\ answer'[q] = answer[q]
      /\ UNCHANGED <<call, store, result, lapsed>>
  BY <1>1 DEF Overloaded, Lead, Join, TypeOK
<1>3. answer[r] = NoAnswer
  BY <1>1, <1>2 DEF AnswerGrounded
<1>4. \A q \in Requests \ {r} : Held(q)'
  BY <1>2, BystanderHeld DEF CustodyInv
<1>5. CASE Overloaded(r)
  <2>1. /\ pc'[r] = "done"
        /\ answer'[r] = Refusal(429, "none")
        /\ Refusal(429, "none").code # 200
    BY <1>1, <1>5 DEF Overloaded, TypeOK, Refusal
  <2>2. Kept(store', lapsed', call'[r], answer'[r])
    BY <2>1, NothingToKeep
  <2>3. Held(r)'
    BY <1>1, <1>2, <2>1, <2>2 DEF Held, TypeOK
  <2>4. Solo'
    BY <1>1, <1>2, <2>1, NoNewLeader DEF Leading
  <2>5. QED
    BY <1>4, <2>3, <2>4
<1>6. CASE Join(r)
  <2>1. pc'[r] = "waiting" /\ answer' = answer
    BY <1>1, <1>6 DEF Join, TypeOK
  <2>2. Held(r)'
    BY <1>1, <1>2, <1>3, <2>1 DEF Held
  <2>3. Solo'
    BY <1>1, <1>2, <2>1, NoNewLeader DEF Leading
  <2>4. QED
    BY <1>4, <2>2, <2>3
<1>7. CASE Lead(r)
  <2>1. pc'[r] = "get" /\ answer' = answer
    BY <1>1, <1>7 DEF Lead, TypeOK
  <2>2. Held(r)'
    BY <1>1, <1>2, <1>3, <2>1 DEF Held
  <2>3. \A q \in Requests : ~(Leading(q) /\ SameKey(q, r))
    BY <1>7 DEF Lead
  <2>4. Solo'
    <3>1. SUFFICES ASSUME NEW p \in Requests, NEW q \in Requests,
                          Leading(p)', Leading(q)', SameKey(p, q)
                   PROVE  p = q
      BY <1>2 DEF Solo, SameKey, ReplicaOf, IdOf, PayloadOf
    <3>2. (p # r => Leading(p)) /\ (q # r => Leading(q))
      BY <1>2, <3>1 DEF Leading
    <3>3. QED
      BY <1>1, <2>3, <3>1, <3>2 DEF Solo, SameKey
  <2>5. QED
    BY <1>4, <2>2, <2>4
<1>8. QED
  BY <1>5, <1>6, <1>7

\* A flight that comes to what is on record, or to nothing to keep.
LEMMA DecideCustody ==
  ASSUME CustodyInv, NEW r \in Requests, NEW res, pc[r] \in {"get", "put"},
         Decide(r, res), Kept(store, lapsed, call[r], res),
         UNCHANGED <<policy, store, call, leader, answer, issued, lapsed>>
  PROVE  Solo' /\ \A q \in Requests : Held(q)'
<1>1. TypeOK /\ AnswerGrounded(r) /\ Held(r) /\ Solo
  BY DEF CustodyInv, GroundedInv
<1>2. /\ pc'[r] = "landing" /\ result'[r] = res
      /\ \A q \in Requests \ {r} : pc'[q] = pc[q] /\ result'[q] = result[q]
  BY <1>1 DEF Decide, TypeOK
<1>3. Solo'
  BY <1>1, <1>2, NoNewLeader DEF Leading
<1>4. Held(r)'
  BY <1>1, <1>2 DEF Held, AnswerGrounded
<1>5. \A q \in Requests \ {r} : Held(q)'
  BY <1>2, BystanderHeld DEF CustodyInv
<1>6. QED
  BY <1>3, <1>4, <1>5

LEMMA LookupCustody ==
  ASSUME CustodyInv, NEW r \in Requests, Lookup(r)
  PROVE  Solo' /\ \A q \in Requests : Held(q)'
<1> DEFINE e == store[IdOf(r)]
<1>1. /\ pc[r] = "get"
      /\ UNCHANGED <<policy, store, call, leader, answer, issued, lapsed>>
      /\ TypeOK /\ AnswerGrounded(r) /\ Held(r) /\ Solo
  BY DEF Lookup, CustodyInv, GroundedInv
<1>2. ASSUME NEW res, Decide(r, res), Kept(store, lapsed, call[r], res)
      PROVE  Solo' /\ \A q \in Requests : Held(q)'
  BY <1>1, <1>2, DecideCustody
<1>3. CASE RetryMask(r)
  <2>1. Kept(store, lapsed, call[r], Success("mask_retry", e.mask, FALSE))
    BY <1>3 DEF RetryMask, Kept, Success, IdOf, PayloadOf
  <2>2. Decide(r, Success("mask_retry", e.mask, FALSE))
    BY <1>3 DEF RetryMask
  <2>3. QED
    BY <1>2, <2>1, <2>2
<1>4. CASE Demask(r)
  <2>1. /\ Kept(store, lapsed, call[r], Success("demask", e.orig, FALSE))
        /\ Kept(store, lapsed, call[r], Refusal(403, "demask"))
    BY DEF Kept, Success, Refusal
  <2>2. Decide(r, Success("demask", e.orig, FALSE)) \/ Decide(r, Refusal(403, "demask"))
    BY <1>4 DEF Demask
  <2>3. QED
    BY <1>2, <2>1, <2>2
<1>5. CASE Ambiguous(r)
  <2>1. PICK m \in Maskings(RuleOf(r), PayloadOf(r)) :
          Decide(r, Success("ambiguous", m.text, m.degraded))
    BY <1>5 DEF Ambiguous
  <2>2. Kept(store, lapsed, call[r], Success("ambiguous", m.text, m.degraded))
    BY DEF Kept, Success
  <2>3. QED
    BY <1>2, <2>1, <2>2
<1>6. CASE Corrupted(r)
  <2>1. Kept(store, lapsed, call[r], Refusal(409, "demask"))
    BY DEF Kept, Refusal
  <2>2. QED
    BY <1>2, <1>6, <2>1 DEF Corrupted
<1>7. CASE UnknownMask(r)
  <2>1. /\ Kept(store, lapsed, call[r], Echo(PayloadOf(r)))
        /\ Kept(store, lapsed, call[r], Refusal(404, "demask"))
    BY DEF Kept, Echo, Success, Refusal
  <2>2. Decide(r, Echo(PayloadOf(r))) \/ Decide(r, Refusal(404, "demask"))
    BY <1>7 DEF UnknownMask
  <2>3. QED
    BY <1>2, <2>1, <2>2
<1>8. CASE FirstMask(r)
  <2>1. /\ pc'[r] = "put"
        /\ \A q \in Requests \ {r} : pc'[q] = pc[q] /\ result'[q] = result[q]
    BY <1>1, <1>8 DEF FirstMask, TypeOK
  <2>2. Free(r)
    <3>1. RuleOf(r) \in Rules
      BY <1>1, CallParts DEF TypeOK
    <3>2. QED
      BY <1>8, <3>1 DEF FirstMask, Free, Maskable, PayloadOf
  <2>3. Held(r)'
    BY <1>1, <2>1, <2>2 DEF Held, Free, IdOf, AnswerGrounded
  <2>4. Solo'
    BY <1>1, <2>1, NoNewLeader DEF Leading
  <2>5. \A q \in Requests \ {r} : Held(q)'
    BY <1>1, <2>1, BystanderHeld DEF CustodyInv
  <2>6. QED
    BY <2>3, <2>4, <2>5
<1>9. QED
  BY <1>3, <1>4, <1>5, <1>6, <1>7, <1>8 DEF Lookup

LEMMA StoreFailsCustody ==
  ASSUME CustodyInv, NEW r \in Requests, StoreFails(r)
  PROVE  Solo' /\ \A q \in Requests : Held(q)'
<1>1. Kept(store, lapsed, call[r], Refusal(503, "none"))
  BY DEF Kept, Refusal
<1>2. QED
  BY <1>1, DecideCustody DEF StoreFails

-----------------------------------------------------------------------------
\* Of two flights about to write under one id, one is the other: they have the
\* same open text, hence the same key.
LEMMA OneWriter ==
  ASSUME Discipline, CustodyInv, NEW q \in Requests, NEW r \in Requests,
         pc[q] = "put", pc[r] = "put", IdOf(q) = IdOf(r)
  PROVE  q = r
<1>1. TypeOK /\ Held(q) /\ Held(r) /\ Solo
  BY DEF CustodyInv, GroundedInv
<1>2. call[q] # NoCall /\ call[r] # NoCall
  BY <1>1 DEF TypeOK
<1>3. PayloadOf(q) = PayloadOf(r)
  BY <1>1, <1>2 DEF Held, Free, Discipline, IdOf, PayloadOf
<1>4. ReplicaOf(q) = ReplicaOf(r)
  BY <1>1, <1>2, CallParts DEF Discipline
<1>5. QED
  BY <1>1, <1>3, <1>4 DEF Solo, SameKey, Leading

LEMMA PutCustody ==
  ASSUME Discipline, CustodyInv, NEW r \in Requests, Put(r)
  PROVE  Solo' /\ \A q \in Requests : Held(q)'
<1> DEFINE rec == [orig |-> PayloadOf(r), mask |-> result[r].text, system |-> SystemOf(r)]
<1>1. /\ pc[r] = "put"
      /\ pc' = [pc EXCEPT ![r] = "landing"]
      /\ store' = [store EXCEPT ![IdOf(r)] = rec]
      /\ UNCHANGED <<policy, call, leader, result, answer, lapsed>>
  BY DEF Put
<1>2. TypeOK /\ AnswerGrounded(r) /\ Held(r) /\ Solo
  BY DEF CustodyInv, GroundedInv
<1>3. call[r] # NoCall /\ IdOf(r) \in Ids
  BY <1>1, <1>2, CallParts DEF TypeOK
<1>4. rec \in Record /\ rec.orig = PayloadOf(r) /\ rec.mask = result[r].text
  <2>1. PayloadOf(r) \in Texts /\ SystemOf(r) \in Systems /\ result[r].text \in Texts
    BY <1>1, <1>2, <1>3, CallParts DEF TypeOK
  <2>2. QED
    BY <2>1 DEF Record
<1>5. store[IdOf(r)] = NoRecord
  BY <1>1, <1>2 DEF Held, Free
<1> HIDE DEF rec
<1>6. /\ store'[IdOf(r)] = rec
      /\ \A id \in Ids : id # IdOf(r) => store'[id] = store[id]
  BY <1>1, <1>2, <1>3 DEF TypeOK
<1>7. Solo'
  BY <1>1, <1>2, NoNewLeader DEF Leading, TypeOK
<1>8. Held(r)'
  <2>1. pc'[r] = "landing" /\ answer'[r] = NoAnswer
    BY <1>1, <1>2 DEF AnswerGrounded, TypeOK
  <2>2. Kept(store', lapsed', call'[r], result'[r])
    BY <1>1, <1>4, <1>6 DEF Kept, IdOf, PayloadOf
  <2>3. QED
    BY <1>1, <1>2, <2>1, <2>2 DEF Held
<1>9. ASSUME NEW q \in Requests, q # r
      PROVE  Held(q)'
  <2>1. Held(q) /\ pc'[q] = pc[q]
    BY <1>1, <1>2, <1>9 DEF CustodyInv, TypeOK
  <2>2. CASE call[q] = NoCall
    <3>1. pc'[q] \notin {"put", "landing", "reply"}
      BY <1>2, <2>1, <2>2 DEF TypeOK
    <3>2. answer[q] = NoAnswer
      BY <2>1, <2>2 DEF Held
    <3>3. QED
      BY <1>1, <2>1, <2>2, <3>1, <3>2 DEF Held
  <2>3. CASE call[q] # NoCall /\ IdOf(q) # IdOf(r)
    <3>1. store'[IdOf(q)] = store[IdOf(q)]
      BY <1>2, <1>6, <2>3, CallParts
    <3>2. QED
      BY <1>1, <2>1, <3>1 DEF Held, Free, Kept, IdOf
  <2>4. CASE call[q] # NoCall /\ IdOf(q) = IdOf(r)
    <3>1. pc[q] # "put"
      BY <1>1, <1>9, <2>4, OneWriter
    <3>2. ASSUME NEW res, Kept(store, lapsed, call[q], res)
          PROVE  Kept(store', lapsed', call'[q], res)
      BY <1>1, <1>5, <2>4, <3>2, MarkerAssumption DEF Kept, IdOf
    <3>3. QED
      BY <1>1, <2>1, <3>1, <3>2 DEF Held
  <2>5. QED
    BY <2>2, <2>3, <2>4
<1>10. QED
  BY <1>7, <1>8, <1>9

LEMMA LandCustody ==
  ASSUME CustodyInv, NEW r \in Requests, Land(r)
  PROVE  Solo' /\ \A q \in Requests : Held(q)'
<1> DEFINE crew == {q \in Requests : q = r \/ (pc[q] = "waiting" /\ leader[q] = r)}
<1>1. /\ pc[r] = "landing"
      /\ pc' = [q \in Requests |-> IF q \in crew THEN "reply" ELSE pc[q]]
      /\ result' = [q \in Requests |-> IF q \in crew THEN result[r] ELSE result[q]]
      /\ UNCHANGED <<policy, store, call, leader, answer, issued, lapsed>>
  BY DEF Land
<1>2. GroundedInv /\ Solo /\ Held(r)
  BY DEF CustodyInv
<1>3. ASSUME NEW q \in crew
      PROVE  /\ q \in Requests /\ answer[q] = NoAnswer
             /\ q = r \/ SameKey(r, q)
  BY <1>1, <1>2 DEF GroundedInv, AnswerGrounded, FlightGrounded, Crewed
<1> HIDE DEF crew
<1>4. \A q \in Requests : Leading(q)' => Leading(q)
  BY <1>1 DEF Leading
<1>5. Solo'
  BY <1>1, <1>2, <1>4, NoNewLeader
<1>6. ASSUME NEW q \in crew
      PROVE  Held(q)'
  <2>1. q \in Requests /\ pc'[q] = "reply" /\ result'[q] = result[r] /\ answer'[q] = NoAnswer
    BY <1>1, <1>3
  <2>2. Kept(store, lapsed, call[q], result[r])
    <3>1. Kept(store, lapsed, call[r], result[r])
      BY <1>1, <1>2 DEF Held
    <3>2. IdOf(q) = IdOf(r) /\ PayloadOf(q) = PayloadOf(r)
      BY <1>3 DEF SameKey
    <3>3. QED
      BY <3>1, <3>2 DEF Kept, IdOf, PayloadOf
  <2>3. Held(q)
    BY <2>1 DEF CustodyInv
  <2>4. QED
    BY <1>1, <2>1, <2>2, <2>3 DEF Held
<1>7. ASSUME NEW q \in Requests, q \notin crew
      PROVE  Held(q)'
  BY <1>1, <1>7, BystanderHeld DEF CustodyInv
<1>8. QED
  BY <1>5, <1>6, <1>7

LEMMA RespondCustody ==
  ASSUME CustodyInv, NEW r \in Requests, Respond(r)
  PROVE  Solo' /\ \A q \in Requests : Held(q)'
<1> DEFINE res == ResponseTo(result[r], PolicyOf(r))
<1>1. /\ pc[r] = "reply"
      /\ pc' = [pc EXCEPT ![r] = "done"]
      /\ answer' = [answer EXCEPT ![r] = res]
      /\ UNCHANGED <<policy, store, call, leader, result, issued, lapsed>>
  BY DEF Respond
<1>2. TypeOK /\ Held(r) /\ Solo
  BY DEF CustodyInv, GroundedInv
<1>3. result[r] \in Answer /\ PolicyOf(r) \in SystemPolicy
  BY <1>1, <1>2, CallParts DEF TypeOK
<1>4. Kept(store, lapsed, call[r], res)
  BY <1>1, <1>2, <1>3, ResponseKeeps DEF Held
<1> HIDE DEF res
<1>5. pc'[r] = "done" /\ answer'[r] = res
  BY <1>1, <1>2 DEF TypeOK
<1>6. Held(r)'
  BY <1>1, <1>2, <1>4, <1>5 DEF Held, TypeOK
<1>7. \A q \in Requests \ {r} : pc'[q] = pc[q] /\ answer'[q] = answer[q]
  BY <1>1, <1>2 DEF TypeOK
<1>8. \A q \in Requests \ {r} : Held(q)'
  BY <1>1, <1>7, BystanderHeld DEF CustodyInv
<1>9. Solo'
  BY <1>1, <1>2, <1>5, <1>7, NoNewLeader DEF Leading
<1>10. QED
  BY <1>6, <1>8, <1>9

\* A record that lapses or is spoilt is not held any more, and no flight is
\* about to write over a record.
LEMMA LossCustody ==
  ASSUME CustodyInv, NEW id \in Ids, Lapse(id) \/ Spoil(id)
  PROVE  Solo' /\ \A q \in Requests : Held(q)'
<1>1. TypeOK /\ Solo
  BY DEF CustodyInv, GroundedInv
<1>2. /\ store[id] # NoRecord
      /\ \A j \in Ids : j # id => store'[j] = store[j]
      /\ lapsed' = lapsed \cup {id}
      /\ UNCHANGED <<pc, call, result, answer>>
  BY <1>1, MarkerAssumption DEF Lapse, Spoil, TypeOK
<1>3. Solo'
  BY <1>1, <1>2 DEF Solo, Leading, SameKey, ReplicaOf, IdOf, PayloadOf
<1>4. ASSUME NEW q \in Requests
      PROVE  Held(q)'
  <2>1. Held(q)
    BY DEF CustodyInv
  <2>2. pc[q] = "put" => IdOf(q) \in Ids /\ IdOf(q) # id
    BY <1>1, <1>2, <2>1, CallParts DEF Held, Free, TypeOK
  <2>3. pc'[q] = "put" => Free(q)'
    BY <1>2, <2>1, <2>2 DEF Held, Free, IdOf
  <2>4. ASSUME NEW res, Kept(store, lapsed, call[q], res), call[q] # NoCall
        PROVE  Kept(store', lapsed', call[q], res)
    <3>1. call[q][1].id \in Ids
      BY <1>1, <2>4, CallParts DEF IdOf
    <3>2. QED
      BY <1>2, <2>4, <3>1 DEF Kept
  <2>5. pc[q] \in {"landing", "reply"} => call[q] # NoCall
    BY <1>1 DEF TypeOK
  <2>6. QED
    BY <1>2, <2>1, <2>3, <2>4, <2>5 DEF Held
<1>5. QED
  BY <1>3, <1>4

LEMMA NextCustody == ASSUME Discipline PROVE CustodyInv /\ [Next]_vars => CustodyInv'
<1>1. SUFFICES ASSUME CustodyInv, [Next]_vars PROVE Solo' /\ \A q \in Requests : Held(q)'
  BY NextGrounded DEF CustodyInv
<1>2. ASSUME NEW r \in Requests, Arrive(r) \/ Serve(r)
      PROVE  Solo' /\ \A q \in Requests : Held(q)'
  BY <1>1, <1>2, ArriveCustody, MoveCustody, LookupCustody, StoreFailsCustody,
     PutCustody, LandCustody, RespondCustody DEF Serve
<1>3. CASE Reload \/ UNCHANGED vars
  <2>1. UNCHANGED <<store, pc, call, leader, result, answer, issued, lapsed>>
    BY <1>3 DEF Reload, vars
  <2>2. \A q \in Requests : Held(q)'
    BY <1>1, <2>1, BystanderHeld DEF CustodyInv
  <2>3. Solo'
    BY <1>1, <2>1 DEF CustodyInv, Solo, Leading, SameKey, ReplicaOf, IdOf, PayloadOf
  <2>4. QED
    BY <2>2, <2>3
<1>4. CASE \E id \in Ids : Lapse(id) \/ Spoil(id)
  BY <1>1, <1>4, LossCustody
<1>5. QED
  BY <1>1, <1>2, <1>3, <1>4 DEF Next

LEMMA AlwaysInCustody == ASSUME Discipline PROVE Spec => []CustodyInv
BY InitCustody, NextCustody, PTL DEF Spec

\* Under the discipline a mask given to a client demasks until its record lapses.
THEOREM MasksAreKept == ASSUME Discipline PROVE Spec => []AnsweredMaskIsKept
<1>1. CustodyInv => AnsweredMaskIsKept
  BY DEF CustodyInv, Held, Kept, AnsweredMaskIsKept, Answered, IdOf, PayloadOf
<1>2. QED
  BY <1>1, AlwaysInCustody, PTL

\* Under the discipline no record ever replaces another one.
THEOREM RecordsAreNotReplaced == ASSUME Discipline PROVE Spec => RecordsAreWriteOnce
<1>1. CustodyInv /\ [Next]_vars =>
        [\A id \in Ids : store[id] # NoRecord => store'[id] \in {store[id], NoRecord, Corrupt}]_store
  <2> SUFFICES ASSUME CustodyInv, [Next]_vars, NEW id \in Ids, store[id] # NoRecord, store' # store
               PROVE  store'[id] \in {store[id], NoRecord, Corrupt}
    OBVIOUS
  <2>1. TypeOK
    BY DEF CustodyInv, GroundedInv
  <2>2. ASSUME NEW r \in Requests, Put(r)
        PROVE  store'[id] = store[id]
    <3>1. store[IdOf(r)] = NoRecord
      BY <2>2 DEF Put, CustodyInv, Held, Free
    <3>2. QED
      BY <2>1, <2>2, <3>1 DEF Put, TypeOK
  <2>3. ASSUME NEW j \in Ids, Lapse(j) \/ Spoil(j)
        PROVE  store'[id] \in {store[id], NoRecord, Corrupt}
    BY <2>1, <2>3 DEF Lapse, Spoil, TypeOK
  <2>4. ASSUME NEW r \in Requests,
               \/ Arrive(r) \/ Overloaded(r) \/ Lead(r) \/ Join(r) \/ Lookup(r)
               \/ StoreFails(r) \/ Land(r) \/ Respond(r)
        PROVE  FALSE
    BY <2>4 DEF Arrive, Overloaded, Lead, Join, Lookup, StoreFails, Land, Respond
  <2>5. ~Reload /\ ~UNCHANGED vars
    BY DEF Reload, vars
  <2>6. QED
    BY <2>2, <2>3, <2>4, <2>5 DEF Next, Serve
<1>2. QED
  BY <1>1, AlwaysInCustody, PTL DEF Spec, RecordsAreWriteOnce
=============================================================================
