------------------------------- MODULE Process -------------------------------
(***************************************************************************)
(* POST /process of internal/api/process.go: the direction of a request is *)
(* decided by the record its payload_id has in the store, identical        *)
(* requests in flight on one replica are coalesced, and every request is   *)
(* judged by the configuration it read when it arrived.                    *)
(*                                                                         *)
(* A text is a value of Texts.  What the engine makes of a text is data:   *)
(* Engine and Partial give it, and the proofs hold for any choice.         *)
(***************************************************************************)
CONSTANTS
  Requests,   \* every request the service receives
  Replicas,   \* copies of the service that share one store
  Ids,        \* payload_id values
  Systems,    \* calling systems, the anonymous one included
  Texts,      \* request payloads and response results
  Rules,      \* masking settings a system may have
  Engine,     \* Engine[rule][text]: the mask when every detector worked
  Partial,    \* Partial[rule][text]: the masks when some of them failed
  MaskLike,   \* MaskLike[rule]: texts mask.LooksMasked accepts
  Policies,   \* settings of the systems a configuration file may hold
  Calls,      \* what clients send: id, payload and system
  NoRecord, Corrupt, NoText, NoCall, NoAnswer   \* distinct markers

SystemPolicy == [enabled : BOOLEAN, demask : BOOLEAN, closed : BOOLEAN,
                 passthrough : BOOLEAN, rule : Rules]

Call == [id : Ids, payload : Texts, system : Systems]

ASSUME DataAssumption ==
  /\ Engine \in [Rules -> [Texts -> Texts]]
  /\ Partial \in [Rules -> [Texts -> SUBSET Texts]]
  /\ MaskLike \in [Rules -> SUBSET Texts]
  /\ Policies \subseteq [Systems -> SystemPolicy]
  /\ Calls \subseteq Call

Record == [orig : Texts, mask : Texts, system : Systems]

ASSUME MarkerAssumption ==
  /\ NoRecord \notin Record \cup {Corrupt}
  /\ Corrupt \notin Record
  /\ NoText \notin Texts

Directions == {"none", "mask", "mask_retry", "demask", "ambiguous", "unknown_mask"}
Codes == {200, 403, 404, 409, 429, 503}

\* Outcome of one request, before (processResult) and after (the response)
\* the handler has applied the request's own error mode.
Answer == [code : Codes, dir : Directions, text : Texts \cup {NoText},
           degraded : BOOLEAN, unknown : BOOLEAN, ambiguous : BOOLEAN]

ASSUME AnswerAssumption == NoAnswer \notin Answer

Admitted == Call \X Replicas \X SystemPolicy
ASSUME CallAssumption == NoCall \notin Admitted

VARIABLES
  policy,   \* settings of the systems now in force
  store,    \* store[id]: the record of id, NoRecord or Corrupt
  pc,       \* pc[r]: where the handler of r stands
  call,     \* call[r]: the call, its replica and the settings it read
  leader,   \* leader[r]: the request whose flight r takes part in
  result,   \* result[r]: what its flight came to
  answer,   \* answer[r]: the response
  issued,   \* history: every correspondence ever written
  lapsed    \* history: ids that have lost or spoiled a record

vars == <<policy, store, pc, call, leader, result, answer, issued, lapsed>>

Stages == {"new", "arrived", "get", "put", "landing", "waiting", "reply", "done"}
Issue == [id : Ids, orig : Texts, mask : Texts, system : Systems, degraded : BOOLEAN]

TypeOK ==
  /\ policy \in Policies
  /\ store \in [Ids -> Record \cup {NoRecord, Corrupt}]
  /\ pc \in [Requests -> Stages]
  /\ call \in [Requests -> Admitted \cup {NoCall}]
  /\ \A r \in Requests : pc[r] \notin {"new", "done"} => call[r] # NoCall
  /\ leader \in [Requests -> Requests]
  /\ result \in [Requests -> Answer \cup {NoAnswer}]
  /\ \A r \in Requests : pc[r] \in {"put", "landing", "reply"} => result[r] # NoAnswer
  /\ \A r \in Requests : pc[r] = "put" => result[r].text \in Texts
  /\ answer \in [Requests -> Answer \cup {NoAnswer}]
  /\ issued \subseteq Issue
  /\ lapsed \subseteq Ids

Init ==
  /\ policy \in Policies
  /\ store = [id \in Ids |-> NoRecord]
  /\ pc = [r \in Requests |-> "new"]
  /\ call = [r \in Requests |-> NoCall]
  /\ leader = [r \in Requests |-> r]
  /\ result = [r \in Requests |-> NoAnswer]
  /\ answer = [r \in Requests |-> NoAnswer]
  /\ issued = {}
  /\ lapsed = {}

-----------------------------------------------------------------------------
IdOf(r) == call[r][1].id
PayloadOf(r) == call[r][1].payload
SystemOf(r) == call[r][1].system
ReplicaOf(r) == call[r][2]
PolicyOf(r) == call[r][3]
RuleOf(r) == PolicyOf(r).rule

\* The flight key is the id and the hash of the payload, nothing else.  Flights
\* are kept by each process for itself.
SameKey(q, r) ==
  /\ ReplicaOf(q) = ReplicaOf(r)
  /\ IdOf(q) = IdOf(r)
  /\ PayloadOf(q) = PayloadOf(r)

Leading(r) == pc[r] \in {"get", "put", "landing"}

\* Mutant of Refusal: an internal failure shows as a server error.
RefusalAsServerError(code, dir) ==
  [code |-> IF code = 503 THEN 500 ELSE code, dir |-> dir, text |-> NoText,
   degraded |-> FALSE, unknown |-> FALSE, ambiguous |-> FALSE]

Refusal(code, dir) ==
  [code |-> code, dir |-> dir, text |-> NoText,
   degraded |-> FALSE, unknown |-> FALSE, ambiguous |-> FALSE]

Success(dir, text, degraded) ==
  [code |-> 200, dir |-> dir, text |-> text,
   degraded |-> degraded, unknown |-> FALSE, ambiguous |-> dir = "ambiguous"]

\* An unknown mask goes back as it came.
Echo(text) == [Success("unknown_mask", text, FALSE) EXCEPT !.unknown = TRUE]

\* What engine.Mask may return for a text: the mask, or a partial one together
\* with the degradation mark.
Maskings(rule, text) ==
  [text : {Engine[rule][text]}, degraded : {FALSE}]
    \cup [text : Partial[rule][text], degraded : {TRUE}]

-----------------------------------------------------------------------------
\* A request arrives: the handler takes the configuration in force and resolves
\* the system; a disabled one is refused at once.
Arrive(r) ==
  /\ pc[r] = "new"
  /\ \E c \in Calls, p \in Replicas :
       LET own == policy[c.system] IN
       /\ call' = [call EXCEPT ![r] = <<c, p, own>>]
       /\ IF own.enabled
            THEN /\ pc' = [pc EXCEPT ![r] = "arrived"]
                 /\ UNCHANGED answer
            ELSE /\ pc' = [pc EXCEPT ![r] = "done"]
                 /\ answer' = [answer EXCEPT ![r] = Refusal(403, "none")]
  /\ UNCHANGED <<policy, store, leader, result, issued, lapsed>>

\* The limiter had no room within limits.max_wait.
Overloaded(r) ==
  /\ pc[r] = "arrived"
  /\ pc' = [pc EXCEPT ![r] = "done"]
  /\ answer' = [answer EXCEPT ![r] = Refusal(429, "none")]
  /\ UNCHANGED <<policy, store, call, leader, result, issued, lapsed>>

\* Mutant of Lead: every request leads a flight of its own.
LeadAlone(r) ==
  /\ pc[r] = "arrived"
  /\ pc' = [pc EXCEPT ![r] = "get"]
  /\ UNCHANGED <<policy, store, call, leader, result, answer, issued, lapsed>>

\* The limiter let the request in and no flight has its key: it leads one.
Lead(r) ==
  /\ pc[r] = "arrived"
  /\ ~ \E q \in Requests : Leading(q) /\ SameKey(q, r)
  /\ pc' = [pc EXCEPT ![r] = "get"]
  /\ UNCHANGED <<policy, store, call, leader, result, answer, issued, lapsed>>

\* The limiter let the request in and a flight has its key: it waits for that
\* flight, whatever system leads it.
Join(r) ==
  /\ pc[r] = "arrived"
  /\ \E q \in Requests :
       /\ Leading(q)
       /\ SameKey(q, r)
       /\ leader' = [leader EXCEPT ![r] = q]
  /\ pc' = [pc EXCEPT ![r] = "waiting"]
  /\ UNCHANGED <<policy, store, call, result, answer, issued, lapsed>>

-----------------------------------------------------------------------------
\* The flight of r comes to a result without writing to the store.
Decide(r, res) ==
  /\ result' = [result EXCEPT ![r] = res]
  /\ pc' = [pc EXCEPT ![r] = "landing"]

\* Get returned a record whose original is this text: the same mask again.
RetryMask(r) ==
  LET e == store[IdOf(r)] IN
  /\ e \in Record
  /\ e.orig = PayloadOf(r)
  /\ Decide(r, Success("mask_retry", e.mask, FALSE))

\* Mutant of Demask: any system with the right to demask gets the original.
DemaskForAnyone(r) ==
  LET e == store[IdOf(r)] IN
  /\ e \in Record
  /\ e.orig # PayloadOf(r)
  /\ e.mask = PayloadOf(r)
  /\ IF PolicyOf(r).demask
       THEN Decide(r, Success("demask", e.orig, FALSE))
       ELSE Decide(r, Refusal(403, "demask"))

\* Get returned a record whose mask is this text: the original, to the owner.  (A
\* record without a system goes to whoever may demask; a system's name is its key in
\* the configuration, and no system here has an empty one.)
Demask(r) ==
  LET e == store[IdOf(r)] IN
  /\ e \in Record
  /\ e.orig # PayloadOf(r)
  /\ e.mask = PayloadOf(r)
  /\ IF PolicyOf(r).demask /\ e.system = SystemOf(r)
       THEN Decide(r, Success("demask", e.orig, FALSE))
       ELSE Decide(r, Refusal(403, "demask"))

\* Get returned a record of some third text: mask the text, leave the record.
Ambiguous(r) ==
  LET e == store[IdOf(r)] IN
  /\ e \in Record
  /\ PayloadOf(r) \notin {e.orig, e.mask}
  /\ \E m \in Maskings(RuleOf(r), PayloadOf(r)) :
       Decide(r, Success("ambiguous", m.text, m.degraded))

\* Get found a record it cannot decrypt.
Corrupted(r) ==
  /\ store[IdOf(r)] = Corrupt
  /\ Decide(r, Refusal(409, "demask"))

\* Mutant of UnknownMask: any text under a free id is taken for a mask.
UnknownText(r) ==
  /\ store[IdOf(r)] = NoRecord
  /\ IF PolicyOf(r).passthrough
       THEN Decide(r, Echo(PayloadOf(r)))
       ELSE Decide(r, Refusal(404, "demask"))

\* Get found nothing and the text looks like a mask.
UnknownMask(r) ==
  /\ store[IdOf(r)] = NoRecord
  /\ PayloadOf(r) \in MaskLike[RuleOf(r)]
  /\ IF PolicyOf(r).passthrough
       THEN Decide(r, Echo(PayloadOf(r)))
       ELSE Decide(r, Refusal(404, "demask"))

\* Mutant of FirstMask: a record that does not decrypt is written over.
FirstMaskOrRepair(r) ==
  /\ store[IdOf(r)] \in {NoRecord, Corrupt}
  /\ PayloadOf(r) \notin MaskLike[RuleOf(r)]
  /\ \E m \in Maskings(RuleOf(r), PayloadOf(r)) :
       result' = [result EXCEPT ![r] = Success("mask", m.text, m.degraded)]
  /\ pc' = [pc EXCEPT ![r] = "put"]

\* Mutant of FirstMask: the mask is returned without being stored.
FirstMaskUnstored(r) ==
  /\ store[IdOf(r)] = NoRecord
  /\ PayloadOf(r) \notin MaskLike[RuleOf(r)]
  /\ \E m \in Maskings(RuleOf(r), PayloadOf(r)) :
       Decide(r, Success("mask", m.text, m.degraded))

\* Get found nothing: the text is masked, Put comes next.
FirstMask(r) ==
  /\ store[IdOf(r)] = NoRecord
  /\ PayloadOf(r) \notin MaskLike[RuleOf(r)]
  /\ \E m \in Maskings(RuleOf(r), PayloadOf(r)) :
       result' = [result EXCEPT ![r] = Success("mask", m.text, m.degraded)]
  /\ pc' = [pc EXCEPT ![r] = "put"]

\* The leader reads the record of its id and decides on what it read.
Lookup(r) ==
  /\ pc[r] = "get"
  /\ \/ RetryMask(r)
     \/ Demask(r)
     \/ Ambiguous(r)
     \/ Corrupted(r)
     \/ UnknownMask(r)
     \/ FirstMask(r)
  /\ UNCHANGED <<policy, store, call, leader, answer, issued, lapsed>>

\* The store returned an error other than "not found" and "corrupted", on
\* reading, on decrypting the original or on writing.
StoreFails(r) ==
  /\ pc[r] \in {"get", "put"}
  /\ Decide(r, Refusal(503, "none"))
  /\ UNCHANGED <<policy, store, call, leader, answer, issued, lapsed>>

\* The leader stores the correspondence, over whatever the id has by now.
Put(r) ==
  LET m == result[r] IN
  /\ pc[r] = "put"
  /\ store' = [store EXCEPT ![IdOf(r)] =
                 [orig |-> PayloadOf(r), mask |-> m.text, system |-> SystemOf(r)]]
  /\ issued' = issued \cup {[id |-> IdOf(r), orig |-> PayloadOf(r), mask |-> m.text,
                             system |-> SystemOf(r), degraded |-> m.degraded]}
  /\ pc' = [pc EXCEPT ![r] = "landing"]
  /\ UNCHANGED <<policy, call, leader, result, answer, lapsed>>

\* Mutant of Land: the requests that wait for the flight are forgotten.
LandAlone(r) ==
  /\ pc[r] = "landing"
  /\ pc' = [pc EXCEPT ![r] = "reply"]
  /\ UNCHANGED <<policy, store, call, leader, result, answer, issued, lapsed>>

\* The flight is over: its key is free and everyone in it has the result.
Land(r) ==
  LET crew == {q \in Requests : q = r \/ (pc[q] = "waiting" /\ leader[q] = r)} IN
  /\ pc[r] = "landing"
  /\ pc' = [q \in Requests |-> IF q \in crew THEN "reply" ELSE pc[q]]
  /\ result' = [q \in Requests |-> IF q \in crew THEN result[r] ELSE result[q]]
  /\ UNCHANGED <<policy, store, call, leader, answer, issued, lapsed>>

\* Mutant of ResponseTo: the mode of the system is not asked.
ResponseInOpenMode(res, own) ==
  IF res.code = 200 /\ res.degraded THEN [res EXCEPT !.ambiguous = FALSE] ELSE res

\* A degraded result becomes a request to retry in the closed mode, and in the
\* open one a success that carries the degradation header alone.
ResponseTo(res, own) ==
  IF res.code = 200 /\ res.degraded
    THEN IF own.closed THEN Refusal(503, res.dir) ELSE [res EXCEPT !.ambiguous = FALSE]
    ELSE res

Respond(r) ==
  /\ pc[r] = "reply"
  /\ pc' = [pc EXCEPT ![r] = "done"]
  /\ answer' = [answer EXCEPT ![r] = ResponseTo(result[r], PolicyOf(r))]
  /\ UNCHANGED <<policy, store, call, leader, result, issued, lapsed>>

-----------------------------------------------------------------------------
\* The configuration is replaced; requests on their way keep the one they read.
Reload ==
  /\ \E p \in Policies \ {policy} : policy' = p
  /\ UNCHANGED <<store, pc, call, leader, result, answer, issued, lapsed>>

\* The record of id is gone for Get: store.ttl has passed, or it was evicted.
Lapse(id) ==
  /\ store[id] # NoRecord
  /\ store' = [store EXCEPT ![id] = NoRecord]
  /\ lapsed' = lapsed \cup {id}
  /\ UNCHANGED <<policy, pc, call, leader, result, answer, issued>>

\* The record of id no longer decrypts.
Spoil(id) ==
  /\ store[id] \in Record
  /\ store' = [store EXCEPT ![id] = Corrupt]
  /\ lapsed' = lapsed \cup {id}
  /\ UNCHANGED <<policy, pc, call, leader, result, answer, issued>>

Serve(r) ==
  \/ Overloaded(r)
  \/ Lead(r)
  \/ Join(r)
  \/ Lookup(r)
  \/ StoreFails(r)
  \/ Put(r)
  \/ Land(r)
  \/ Respond(r)

Next ==
  \/ \E r \in Requests : Arrive(r) \/ Serve(r)
  \/ Reload
  \/ \E id \in Ids : Lapse(id) \/ Spoil(id)

Spec == Init /\ [][Next]_vars

\* Every handler that can take a step takes one: acquire waits no longer than
\* limits.max_wait and a flight runs its function to the end.
FairSpec == Spec /\ \A r \in Requests : WF_vars(Serve(r))

-----------------------------------------------------------------------------
(* Properties.                                                              *)

Answered(r) == answer[r] # NoAnswer /\ answer[r].code = 200

\* A response to a demasking request gives back, to the letter, the original
\* whose mask was sent: that pair was stored under this very id, and the flight
\* was led by its owner, a system with the right to demask (demaskEntry).
DemaskIsExact ==
  \A r \in Requests : Answered(r) /\ answer[r].dir = "demask" =>
    \E i \in issued :
      /\ i.id = IdOf(r)
      /\ i.mask = PayloadOf(r)
      /\ i.orig = answer[r].text
      /\ i.system = SystemOf(leader[r])
      /\ PolicyOf(leader[r]).demask

\* What the engine makes of a text when every detector works, under some settings.
WholeMasks(text) == {Engine[rule][text] : rule \in Rules}

\* What the failure of detectors may leave of it, up to the text as it came.
PartialMasks(text) == UNION {Partial[rule][text] : rule \in Rules}

MasksOf(text) == WholeMasks(text) \cup PartialMasks(text)

\* A text that failed detectors left open, in part or as it came, goes out in two
\* ways only: marked as degraded, to a system in the open mode; or unmarked, to
\* whoever repeats the text whose partial mask was stored.
OpenByFailure(r) ==
  /\ answer[r].text \in PartialMasks(PayloadOf(r))
  /\ \/ answer[r].degraded /\ ~PolicyOf(r).closed
     \/ /\ answer[r].dir = "mask_retry"
        /\ \E i \in issued :
             /\ i.id = IdOf(r) /\ i.orig = PayloadOf(r) /\ i.mask = answer[r].text
             /\ i.degraded

\* Apart from demasking, a response carries what the engine made of the text sent
\* with every detector at work, what their failure left (OpenByFailure), or that
\* text itself when it looks like a mask and the response says the id is unknown:
\* whoever led the flight and whatever was stored or reloaded meanwhile, no strict
\* system gets the degraded mask of another's flight.  A refusal carries no text.
OpenTextIsAccountedFor ==
  \A r \in Requests :
    /\ Answered(r) /\ answer[r].dir # "demask" =>
         \/ answer[r].text \in WholeMasks(PayloadOf(r))
         \/ OpenByFailure(r)
         \/ /\ answer[r].unknown
            /\ answer[r].text = PayloadOf(r)
            /\ \E rule \in Rules : PayloadOf(r) \in MaskLike[rule]
    /\ answer[r] # NoAnswer /\ answer[r].code # 200 => answer[r].text = NoText

\* A mask given to a client demasks until its record lapses: the store still
\* holds the pair the response was made from (resolveFlight leaves the record
\* of an id alone when other texts come under that id).
AnsweredMaskIsKept ==
  \A r \in Requests :
    Answered(r) /\ answer[r].dir \in {"mask", "mask_retry"} /\ IdOf(r) \notin lapsed =>
      /\ store[IdOf(r)] \in Record
      /\ store[IdOf(r)].orig = PayloadOf(r)
      /\ store[IdOf(r)].mask = answer[r].text

\* A record is never replaced by another one: it stays until it lapses.
RecordsAreWriteOnce ==
  [][\A id \in Ids : store[id] # NoRecord => store'[id] \in {store[id], NoRecord, Corrupt}]_store

\* Every request that arrived gets its response, the ones that wait for another
\* request's flight included.
EveryRequestAnswered == \A r \in Requests : pc[r] = "arrived" ~> pc[r] = "done"

Promise == INSTANCE Ledger

\* The service keeps the promise of Ledger: every response rests on a
\* correspondence stored before it, and no request gets two (handleProcess,
\* processOne).
KeepsLedger == Promise!Spec
=============================================================================
