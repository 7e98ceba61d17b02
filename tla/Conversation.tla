---------------------------- MODULE Conversation ----------------------------
(***************************************************************************)
(* internal/api/proxy.go: the turns of one dialogue with a language model. *)
(* A turn masks the values in what the client sends by numbered            *)
(* placeholders, counted anew from one in every turn, asks the model, and  *)
(* puts the values back into the answer.  Turns that name the dialogue     *)
(* (X-Conversation-Id) share one record of placeholders in the store: each *)
(* reads it, adds its own and writes it back.  Turns may run at once.      *)
(*                                                                         *)
(* A text is a sequence of parts.  A part is a value the detectors find,   *)
(* or a placeholder that the model wrote in an earlier answer and the      *)
(* client has kept in its history; such a part carries, as history of the  *)
(* model, the value it was written for.  What the client reads in the place *)
(* of a placeholder is the value as JSON writes it between quotes: the same *)
(* text, unless the value has a quote, a backslash or the like in it.       *)
(***************************************************************************)
EXTENDS Integers, Sequences, FiniteSets, SequencesExt

CONSTANTS
  Turns,     \* requests to /v1/chat/completions in one dialogue
  Values,    \* values of one type
  Strings,   \* what a client may read in an answer
  Quote,     \* Quote[v]: the value v as JSON writes it between quotes
  MaxParts,  \* bound of the model: parts of a text
  NoValue    \* a placeholder that stands for nothing

ASSUME ConversationAssumption ==
  /\ IsFiniteSet(Turns)
  /\ NoValue \notin Values \cup Strings
  /\ Quote \in [Values -> Strings]
  /\ MaxParts \in Nat \ {0}

Tokens == 1..MaxParts

Backs == [Tokens -> Values \cup {NoValue}]

Empty == [n \in Tokens |-> NoValue]

VARIABLES
  saved,    \* the record of the dialogue, Empty when there is none
  turn,     \* turn[t]: what a request is at
  written,  \* placeholders in the model's answers, each with its value
  given,    \* history: given[n], the values n has stood for in the dialogue
  lossless  \* history: no turns at once, no record lost and no write failed

vars == <<saved, turn, written, given, lossless>>

Parts == [token : {0}, value : Values] \cup [token : Tokens, value : Values]

Stages == {"new", "loaded", "masked", "saved", "sent", "done"}

\* named: it names the dialogue; back: what it will put back; own: what it has
\* masked itself; answer: the placeholder in the model's answer, meant for meant
\* and replaced by shown, or left as it is; alone: only the masking of this turn
\* has put it into the text; audit: the record of the access.
Turn == [at : Stages, named : BOOLEAN, text : Seq(Parts), back : Backs, own : Backs,
         answer : Tokens \cup {0}, alone : BOOLEAN, meant : Values \cup {NoValue}, shown : Strings \cup {NoValue},
         audit : {"none", "error", "ok"}, code : {"none", "refused", "bad_gateway", "unread", "rejected", "ok"}]

TypeOK ==
  /\ saved \in Backs
  /\ turn \in [Turns -> Turn]
  /\ written \subseteq [token : Tokens, value : Values]
  /\ given \in [Tokens -> SUBSET Values]
  /\ lossless \in BOOLEAN

Fresh == [at |-> "new", named |-> FALSE, text |-> <<>>, back |-> Empty, own |-> Empty,
          answer |-> 0, alone |-> FALSE, meant |-> NoValue, shown |-> NoValue, audit |-> "none", code |-> "none"]

Init ==
  /\ saved = Empty
  /\ turn = [t \in Turns |-> Fresh]
  /\ written = {}
  /\ given = [n \in Tokens |-> {}]
  /\ lossless = TRUE

Running(t) == turn[t].at \notin {"new", "done"}

\* What is left of a turn when it is over.
Over(t, code, audit) == [Fresh EXCEPT !.at = "done", !.named = turn[t].named, !.code = code, !.audit = audit]

-----------------------------------------------------------------------------
(* Masking.                                                                 *)

ValuesOf(text) == {text[i].value : i \in {i \in DOMAIN text : text[i].token = 0}}

FirstPlace(text, v) == CHOOSE i \in DOMAIN text :
  /\ text[i].token = 0 /\ text[i].value = v
  /\ \A j \in 1..(i - 1) : text[j].token # 0 \/ text[j].value # v

\* Mutant of Number: every part of the text is numbered from one.
NumberByPart(text, v) == IF v \in ValuesOf(text) THEN 1 ELSE 0

\* The values are numbered in the order of their first places in the whole text;
\* the numbering is common to all messages, tools and the response format.
Number(text, v) == Cardinality({w \in ValuesOf(text) : FirstPlace(text, w) <= FirstPlace(text, v)})

\* What the turn's placeholders stand for: the value masked last.
Own(text) ==
  [n \in Tokens |->
     LET its == {v \in ValuesOf(text) : Number(text, v) = n}
     IN  IF its = {} THEN NoValue
         ELSE CHOOSE v \in its : \A w \in its : FirstPlace(text, w) <= FirstPlace(text, v)]

\* own before old, placeholder by placeholder.
Overlay(own, old) == [n \in Tokens |-> IF own[n] # NoValue THEN own[n] ELSE old[n]]

-----------------------------------------------------------------------------
(* A turn.                                                                  *)

\* A wrong method, body or system, a stream, a system without a model: refused
\* before anything is masked.
Refuse(t) ==
  /\ turn[t].at = "new"
  /\ turn' = [turn EXCEPT ![t] = Over(t, "refused", "none")]
  /\ UNCHANGED <<saved, written, given, lossless>>

\* The client sends values, and placeholders of answers it has kept.
LoadConversation(t) ==
  /\ turn[t].at = "new"
  /\ \E named \in BOOLEAN, size \in 1..MaxParts : \E text \in [1..size -> [token : {0}, value : Values] \cup written] :
       turn' = [turn EXCEPT ![t] = [Fresh EXCEPT !.at = "loaded", !.named = named, !.text = text,
                                                    !.back = IF named THEN saved ELSE Empty]]
  /\ lossless' = (lossless /\ \A u \in Turns : ~Running(u))
  /\ UNCHANGED <<saved, written, given>>

\* The turn's own placeholders take the place of those in the record.
MaskBody(t) ==
  /\ turn[t].at = "loaded"
  /\ LET own == Own(turn[t].text)
     IN  /\ turn' = [turn EXCEPT ![t].at = IF turn[t].named THEN "masked" ELSE "saved",
                                 ![t].own = own, ![t].back = Overlay(own, turn[t].back)]
         /\ given' = [n \in Tokens |-> given[n] \cup ({own[n]} \ {NoValue})]
  /\ UNCHANGED <<saved, written, lossless>>

\* Mutant of SaveConversation: only the turn's own placeholders are written.
SaveOwn(t) ==
  /\ turn[t].at = "masked"
  /\ saved' = turn[t].own
  /\ lossless' = lossless
  /\ turn' = [turn EXCEPT ![t].at = "saved"]
  /\ UNCHANGED <<written, given>>

\* Before the model is asked.  A write that fails is a warning in the log.
SaveConversation(t) ==
  /\ turn[t].at = "masked"
  /\ \/ saved' = turn[t].back /\ lossless' = lossless
     \/ saved' = saved /\ lossless' = FALSE
  /\ turn' = [turn EXCEPT ![t].at = "saved"]
  /\ UNCHANGED <<written, given>>

\* Placeholders in the text that goes to the model, with the values they stand
\* for there.
Visible(t) ==
  {[token |-> Number(turn[t].text, v), value |-> v] : v \in ValuesOf(turn[t].text)}
    \cup {turn[t].text[i] : i \in {i \in DOMAIN turn[t].text : turn[t].text[i].token # 0}}

\* The model answers with a placeholder it was sent, or cannot be reached in time.
CallUpstream(t) ==
  /\ turn[t].at = "saved"
  /\ \/ turn' = [turn EXCEPT ![t] = Over(t, "bad_gateway", "error")]
     \/ \E p \in Visible(t) :
          turn' = [turn EXCEPT ![t].at = "sent", ![t].answer = p.token, ![t].meant = p.value]
  /\ UNCHANGED <<saved, written, given, lossless>>

\* The body of the answer may break off, and then nothing is written to the audit;
\* a refusal without a body is explained.
FailAnswer(t) ==
  /\ turn[t].at = "sent"
  /\ \/ turn' = [turn EXCEPT ![t] = Over(t, "unread", "none")]
     \/ turn' = [turn EXCEPT ![t] = Over(t, "rejected", "error")]
  /\ UNCHANGED <<saved, written, given, lossless>>

\* What the client reads where v is put back: restorePairsForToken writes the value
\* as JSON into a text that is decoded already, and the answer is then written as
\* JSON once more.  A placeholder that stands for nothing is left as it is.
Put(v) == IF v = NoValue THEN NoValue ELSE Quote[v]

\* The turn with its answer, where v is put back in the place of the placeholder.
With(t, v) ==
  [Over(t, "ok", "ok") EXCEPT
     !.answer = turn[t].answer, !.meant = turn[t].meant, !.shown = Put(v),
     !.alone = /\ turn[t].own[turn[t].answer] # NoValue
               /\ \A i \in DOMAIN turn[t].text : turn[t].text[i].token # turn[t].answer]

\* Mutant of RestoreResponse: what was not found is filled with some value.
RestoreAnything(t) ==
  /\ turn[t].at = "sent"
  /\ LET found == turn[t].back[turn[t].answer]
     IN  turn' = [turn EXCEPT ![t] = With(t, IF found = NoValue THEN CHOOSE v \in Values : TRUE ELSE found)]
  /\ written' = written \cup {[token |-> turn[t].answer, value |-> turn[t].meant]}
  /\ UNCHANGED <<saved, given, lossless>>

RestoreResponse(t) ==
  /\ turn[t].at = "sent"
  /\ turn' = [turn EXCEPT ![t] = With(t, turn[t].back[turn[t].answer])]
  /\ written' = written \cup {[token |-> turn[t].answer, value |-> turn[t].meant]}
  /\ UNCHANGED <<saved, given, lossless>>

\* The store drops the record: its time is over, or room is needed.
LoseRecord ==
  /\ saved # Empty
  /\ saved' = Empty
  /\ lossless' = FALSE
  /\ UNCHANGED <<turn, written, given>>

Proceed(t) ==
  \/ MaskBody(t) \/ SaveConversation(t) \/ CallUpstream(t) \/ FailAnswer(t) \/ RestoreResponse(t)

Next ==
  \/ \E t \in Turns : Refuse(t) \/ LoadConversation(t) \/ Proceed(t)
  \/ LoseRecord

Spec == Init /\ [][Next]_vars

-----------------------------------------------------------------------------
(* Properties.                                                              *)

Answered(t) == turn[t].code = "ok"

\* The client reads the value the model meant, as JSON writes it: the value itself,
\* exactly, when JSON writes it as it is.
Back(t) == turn[t].shown = Quote[turn[t].meant]

\* restorePlaceholders makes no personal data up: what stands in the place of a
\* placeholder is a value that it has stood for in this dialogue, as JSON writes it,
\* and the right one when it has stood for one only, or it is left alone.
NothingMadeUp ==
  \A t \in Turns : Answered(t) /\ turn[t].shown # NoValue =>
    /\ \E v \in given[turn[t].answer] : turn[t].shown = Quote[v]
    /\ Cardinality(given[turn[t].answer]) = 1 => Back(t)

\* handleChatCompletions: a value masked in a turn comes back in its answer, as JSON
\* writes it, whatever the record of the dialogue held and other turns were doing to
\* it, unless the client has sent the same placeholder itself; and nothing comes back
\* that the placeholder never stood for.
OwnValuesComeBack ==
  /\ NothingMadeUp
  /\ \A t \in Turns : Answered(t) /\ turn[t].alone => Back(t)

\* README.md and TestProxyConversationRestore: a placeholder of an earlier answer
\* comes back in a later one, as long as no turns ran at once, the record was
\* neither lost nor left unwritten, every turn named the dialogue, and the
\* placeholder has not been given to another value since.
HistoryComesBack ==
  lossless /\ (\A t \in Turns : turn[t].at # "new" /\ turn[t].code # "refused" => turn[t].named) =>
    \A t \in Turns : Answered(t) /\ Cardinality(given[turn[t].answer]) = 1 => Back(t)
=============================================================================
