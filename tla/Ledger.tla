------------------------------- MODULE Ledger -------------------------------
(***************************************************************************)
(* What /process promises a client, whatever the store, the coalescing and *)
(* the configuration do: a ledger of correspondences that only grows, and  *)
(* at most one response to each request, justified by the ledger at the    *)
(* moment it is given.                                                     *)
(***************************************************************************)
CONSTANTS Requests, Ids, Systems, Texts, Rules, Engine, Partial, MaskLike,
          Answer, Admitted, Issue, NoText, NoCall, NoAnswer

VARIABLES call, issued, answer

vars == <<call, issued, answer>>

Init ==
  /\ call = [r \in Requests |-> NoCall]
  /\ issued = {}
  /\ answer = [r \in Requests |-> NoAnswer]

Open(r) == call[r] # NoCall /\ answer[r] = NoAnswer

Same(q, r) == call[q][1].id = call[r][1].id /\ call[q][1].payload = call[r][1].payload

Masks(text) == {Engine[rule][text] : rule \in Rules} \cup UNION {Partial[rule][text] : rule \in Rules}

\* The original of a mask goes out when the owner of the correspondence, with
\* the right to demask, has sent that mask under that id.
DemaskJustified(r, a) ==
  \E i \in issued, q \in Requests :
    /\ i.id = call[r][1].id
    /\ i.mask = call[r][1].payload
    /\ i.orig = a.text
    /\ call[q] # NoCall
    /\ Same(q, r)
    /\ i.system = call[q][1].system
    /\ call[q][3].demask

\* A mask goes out under its id when the ledger has it against the text sent.
MaskJustified(r, a) ==
  \E i \in issued :
    /\ i.id = call[r][1].id
    /\ i.orig = call[r][1].payload
    /\ i.mask = a.text

EchoJustified(r, a) ==
  /\ a.unknown
  /\ a.text = call[r][1].payload
  /\ \E rule \in Rules : a.text \in MaskLike[rule]

Justified(r, a) ==
  \/ a.code # 200 /\ a.text = NoText
  \/ a.code = 200 /\ a.dir \in {"mask", "mask_retry"} /\ MaskJustified(r, a)
  \/ a.code = 200 /\ a.dir = "demask" /\ DemaskJustified(r, a)
  \/ a.code = 200 /\ a.dir = "ambiguous" /\ a.text \in Masks(call[r][1].payload)
  \/ a.code = 200 /\ a.dir = "unknown_mask" /\ EchoJustified(r, a)

\* A request comes in; it may be refused on the spot.
Ask(r) ==
  /\ call[r] = NoCall
  /\ call'[r] \in Admitted
  /\ call' = [call EXCEPT ![r] = call'[r]]
  /\ \/ UNCHANGED answer
     \/ /\ answer'[r] \in Answer
        /\ answer'[r].code # 200
        /\ answer'[r].text = NoText
        /\ answer' = [answer EXCEPT ![r] = answer'[r]]
  /\ UNCHANGED issued

\* A correspondence of an open request enters the ledger.
Enter(r) ==
  /\ Open(r)
  /\ \E i \in issued' :
       /\ i \in Issue
       /\ i.id = call[r][1].id
       /\ i.orig = call[r][1].payload
       /\ i.system = call[r][1].system
       /\ i.mask \in Masks(i.orig)
       /\ issued' = issued \cup {i}
  /\ UNCHANGED <<call, answer>>

\* The one response to a request, on grounds the ledger has.
Reply(r) ==
  /\ Open(r)
  /\ answer'[r] \in Answer
  /\ Justified(r, answer'[r])
  /\ answer' = [answer EXCEPT ![r] = answer'[r]]
  /\ UNCHANGED <<call, issued>>

Next == \E r \in Requests : Ask(r) \/ Enter(r) \/ Reply(r)

Spec == Init /\ [][Next]_vars
=============================================================================
