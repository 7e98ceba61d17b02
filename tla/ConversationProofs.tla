-------------------------- MODULE ConversationProofs --------------------------
(***************************************************************************)
(* Theorems about Conversation, for any turns, values and length of texts: *)
(* what comes back in an answer, whatever JSON makes of a value.           *)
(***************************************************************************)
EXTENDS Conversation, FiniteSetTheorems, WellFoundedInduction, TLAPS

\* A part of a text is a value, or a placeholder with a value it has stood for.
Grounded(p) == p.token = 0 \/ p.value \in given[p.token]

\* Whatever is to be put back in the place of n has been masked by it.
Backed(back) == \A n \in Tokens : back[n] # NoValue => back[n] \in given[n]

\* A text is of the values it may be made of, and not too long to be numbered.
Texts == {text \in Seq(Parts) : Len(text) <= MaxParts}

\* A turn that has masked its text puts back what it has masked, before anything else.
Masked(t) ==
  /\ turn[t].own = Own(turn[t].text)
  /\ Backed(turn[t].own)
  /\ \A n \in Tokens : turn[t].own[n] # NoValue => turn[t].back[n] = turn[t].own[n]

\* The model's answer is one of the placeholders it was sent.
AnswersWhatItSaw(t) == [token |-> turn[t].answer, value |-> turn[t].meant] \in Visible(t)

\* An answer that has been given.
Restored(t) ==
  /\ turn[t].answer \in Tokens
  /\ turn[t].meant \in given[turn[t].answer]
  /\ turn[t].shown # NoValue => \E v \in given[turn[t].answer] : turn[t].shown = Quote[v]
  /\ turn[t].alone => Back(t)

Sound(t) ==
  /\ turn[t].text \in Texts /\ Backed(turn[t].back)
  /\ \A i \in DOMAIN turn[t].text : Grounded(turn[t].text[i])
  /\ turn[t].at \in {"masked", "saved", "sent"} => Masked(t)
  /\ turn[t].at = "sent" => AnswersWhatItSaw(t)
  /\ turn[t].at # "done" => turn[t].code = "none"
  /\ Answered(t) => Restored(t)

OwnInv ==
  /\ TypeOK
  /\ Backed(saved)
  /\ \A n \in Tokens : IsFiniteSet(given[n])
  /\ \A p \in written : Grounded(p)
  /\ \A t \in Turns : Sound(t)

AllNamed == \A t \in Turns : turn[t].at # "new" /\ turn[t].code # "refused" => turn[t].named

\* As long as nothing is lost and turns are one by one, what has been given is in the
\* record, or with the one turn that is about to write it, and with every turn that
\* may put it back.
Remembered ==
  lossless /\ AllNamed =>
    /\ \A t, u \in Turns : Running(t) /\ Running(u) => t = u
    /\ \A n \in Tokens : given[n] # {} =>
         /\ saved[n] # NoValue \/ \E t \in Turns : turn[t].at = "masked"
         /\ \A t \in Turns : Running(t) => turn[t].back[n] # NoValue
    /\ \A t \in Turns : Answered(t) => turn[t].shown # NoValue

HistoryInv == OwnInv /\ Remembered

-----------------------------------------------------------------------------
(* The numbering of values.                                                 *)

\* Of numbers there is a least.
LEMMA Least ==
  ASSUME NEW T \in SUBSET Nat, T # {}
  PROVE  \E m \in T : \A n \in T : m <= n
<1> DEFINE Sets == {1..n : n \in T}
<1>1. IsWellFoundedOn(StrictSubsetOrdering(Nat), FiniteSubsetsOf(Nat))
  BY FS_StrictSubsetOrderingWellFounded
<1>2. Sets \subseteq FiniteSubsetsOf(Nat) /\ Sets # {}
  <2>1. ASSUME NEW n \in T
        PROVE  1..n \in FiniteSubsetsOf(Nat)
    <3>1. IsFiniteSet(1..n)
      BY FS_Interval
    <3>2. QED
      BY <3>1 DEF FiniteSubsetsOf
  <2>2. QED
    BY <2>1
<1>3. PICK x \in Sets : \A y \in Sets : <<y, x>> \notin StrictSubsetOrdering(Nat)
  <2> HIDE DEF Sets
  <2>1. QED
    BY <1>1, <1>2, WFMin
<1>4. PICK m \in T : x = 1..m
  OBVIOUS
<1>5. ASSUME NEW n \in T, n < m
      PROVE  FALSE
  <2>1. 1..n \subseteq x /\ 1..n # x
    BY <1>4, <1>5
  <2>2. 1..n \in Sets /\ 1..n \in SUBSET Nat /\ x \in SUBSET Nat
    BY <1>4
  <2>3. QED
    BY <2>1, <2>2, <1>3 DEF StrictSubsetOrdering
<1>6. QED
  BY <1>5

LEMMA ValuesOfText ==
  ASSUME NEW text \in Texts
  PROVE  /\ ValuesOf(text) \subseteq Values
         /\ NoValue \notin ValuesOf(text)
         /\ IsFiniteSet(ValuesOf(text))
         /\ Cardinality(ValuesOf(text)) <= MaxParts
<1>1. text \in Seq(Parts) /\ Len(text) \in Nat /\ Len(text) <= MaxParts /\ DOMAIN text = 1..Len(text)
  BY DEF Texts
<1>2. \A i \in DOMAIN text : text[i].value \in Values
  BY <1>1 DEF Parts
<1>3. ValuesOf(text) \subseteq Values /\ NoValue \notin ValuesOf(text)
  BY <1>2, ConversationAssumption DEF ValuesOf
<1> DEFINE Places == {i \in DOMAIN text : text[i].token = 0}
           f == [i \in Places |-> text[i].value]
<1>4. IsFiniteSet(1..Len(text)) /\ Cardinality(1..Len(text)) = Len(text)
  BY <1>1, FS_Interval
<1>5. Places \in SUBSET (1..Len(text))
  BY <1>1
<1>6. IsFiniteSet(Places) /\ Cardinality(Places) <= Len(text)
  <2> HIDE DEF Places
  <2>1. QED
    BY <1>4, <1>5, FS_Subset
<1>7. f \in Surjection(Places, ValuesOf(text))
  BY DEF Surjection, ValuesOf
<1>8. QED
  <2> HIDE DEF Places, f
  <2>1. IsFiniteSet(ValuesOf(text)) /\ Cardinality(ValuesOf(text)) <= Cardinality(Places)
    BY <1>6, <1>7, FS_Surjection
  <2>2. Cardinality(ValuesOf(text)) \in Nat /\ Cardinality(Places) \in Nat
    BY <1>6, <2>1, FS_CardinalityType
  <2>3. Cardinality(ValuesOf(text)) <= MaxParts
    BY <1>1, <1>6, <2>1, <2>2, ConversationAssumption
  <2>4. QED
    BY <1>3, <2>1, <2>3

LEMMA FirstPlaceIs ==
  ASSUME NEW text \in Texts, NEW v \in ValuesOf(text)
  PROVE  /\ FirstPlace(text, v) \in 1..Len(text)
         /\ text[FirstPlace(text, v)].value = v
<1>1. text \in Seq(Parts) /\ DOMAIN text = 1..Len(text) /\ Len(text) \in Nat
  BY DEF Texts
<1> DEFINE Its == {i \in DOMAIN text : text[i].token = 0 /\ text[i].value = v}
<1>2. Its # {} /\ Its \in SUBSET Nat
  BY <1>1 DEF ValuesOf
<1>3. PICK i \in Its : \A j \in Its : i <= j
  <2> HIDE DEF Its
  <2>1. QED
    BY <1>2, Least
<1>4. /\ i \in DOMAIN text /\ text[i].token = 0 /\ text[i].value = v
      /\ \A j \in 1..(i - 1) : text[j].token # 0 \/ text[j].value # v
  BY <1>1, <1>3
<1>5. QED
  BY <1>1, <1>4 DEF FirstPlace

\* Every value of a text has a number of its own.
LEMMA NumberIs ==
  ASSUME NEW text \in Texts, NEW v \in ValuesOf(text)
  PROVE  /\ Number(text, v) \in Tokens
         /\ \A w \in ValuesOf(text) : Number(text, w) = Number(text, v) => w = v
<1> DEFINE Upto(u) == {w \in ValuesOf(text) : FirstPlace(text, w) <= FirstPlace(text, u)}
           V == ValuesOf(text)
<1>1. IsFiniteSet(V) /\ Cardinality(V) <= MaxParts /\ Cardinality(V) \in Nat
  BY ValuesOfText, FS_CardinalityType
<1>2. \A u \in V : FirstPlace(text, u) \in Nat /\ text[FirstPlace(text, u)].value = u
  BY FirstPlaceIs
<1>3. ASSUME NEW u \in V
      PROVE  /\ Upto(u) \in SUBSET V /\ u \in Upto(u) /\ IsFiniteSet(Upto(u))
             /\ Cardinality(Upto(u)) \in Nat /\ Cardinality(Upto(u)) <= Cardinality(V)
             /\ Cardinality(Upto(u)) # 0
  <2>1. Upto(u) \in SUBSET V /\ u \in Upto(u)
    BY <1>2
  <2>2. IsFiniteSet(Upto(u)) /\ Cardinality(Upto(u)) <= Cardinality(V)
    <3> HIDE DEF Upto, V
    <3>1. QED
      BY <1>1, <2>1, FS_Subset
  <2>3. QED
    <3> HIDE DEF Upto, V
    <3>1. QED
      BY <2>1, <2>2, FS_CardinalityType, FS_EmptySet
<1>4. \A u \in V : Number(text, u) = Cardinality(Upto(u))
  BY DEF Number
<1>5. Number(text, v) \in Tokens
  <2> HIDE DEF Upto
  <2>1. QED
    BY <1>1, <1>3, <1>4, ConversationAssumption DEF Tokens
<1>6. ASSUME NEW u \in V, NEW w \in V, FirstPlace(text, u) < FirstPlace(text, w)
      PROVE  Number(text, u) # Number(text, w)
  <2>1. Upto(u) \in SUBSET Upto(w) /\ w \notin Upto(u) /\ w \in Upto(w)
    BY <1>2, <1>6
  <2>2. Cardinality(Upto(u)) # Cardinality(Upto(w))
    <3> HIDE DEF Upto, V
    <3>1. QED
      BY <1>3, <2>1, FS_Subset
  <2>3. QED
    BY <1>4, <2>2
<1>7. ASSUME NEW w \in V, w # v
      PROVE  Number(text, w) # Number(text, v)
  <2>1. FirstPlace(text, w) # FirstPlace(text, v)
    BY <1>2, <1>7
  <2>2. FirstPlace(text, w) < FirstPlace(text, v) \/ FirstPlace(text, v) < FirstPlace(text, w)
    BY <1>2, <2>1
  <2>3. QED
    BY <1>6, <2>2
<1>8. QED
  BY <1>5, <1>7

\* What the placeholders of a text stand for: each for the value it is the number of.
LEMMA OwnIs ==
  ASSUME NEW text \in Texts
  PROVE  /\ Own(text) \in Backs
         /\ \A v \in ValuesOf(text) : Own(text)[Number(text, v)] = v
         /\ \A n \in Tokens : Own(text)[n] # NoValue =>
              Own(text)[n] \in ValuesOf(text) /\ Number(text, Own(text)[n]) = n
<1> DEFINE Its(n) == {v \in ValuesOf(text) : Number(text, v) = n}
           Of(n) == IF Its(n) = {} THEN NoValue
                    ELSE CHOOSE v \in Its(n) : \A w \in Its(n) : FirstPlace(text, w) <= FirstPlace(text, v)
<1>1. Own(text) = [n \in Tokens |-> Of(n)]
  BY DEF Own
<1>2. ASSUME NEW v \in ValuesOf(text)
      PROVE  Its(Number(text, v)) = {v} /\ Of(Number(text, v)) = v
  <2>1. Its(Number(text, v)) = {v}
    BY NumberIs
  <2>2. FirstPlace(text, v) <= FirstPlace(text, v)
    BY FirstPlaceIs
  <2>3. \A w \in Its(Number(text, v)) : w = v /\ FirstPlace(text, w) <= FirstPlace(text, v)
    BY <2>1, <2>2
  <2>4. QED
    <3> HIDE DEF Its
    <3>1. QED
      BY <2>1, <2>2, <2>3
<1>3. ASSUME NEW n \in Tokens
      PROVE  \/ Its(n) = {} /\ Of(n) = NoValue
             \/ \E v \in ValuesOf(text) : Number(text, v) = n /\ Of(n) = v
  <2>1. CASE Its(n) = {}
    BY <2>1
  <2>2. CASE Its(n) # {}
    <3>1. PICK v \in ValuesOf(text) : Number(text, v) = n
      BY <2>2
    <3>2. QED
      BY <1>2, <3>1
  <2>3. QED
    BY <2>1, <2>2
<1> HIDE DEF Its, Of
<1>4. ValuesOf(text) \subseteq Values /\ NoValue \notin ValuesOf(text)
  BY ValuesOfText
<1>5. Own(text) \in Backs
  BY <1>1, <1>3, <1>4 DEF Backs
<1>6. \A v \in ValuesOf(text) : Own(text)[Number(text, v)] = v
  BY <1>1, <1>2, NumberIs
<1>7. \A n \in Tokens : Own(text)[n] # NoValue =>
              Own(text)[n] \in ValuesOf(text) /\ Number(text, Own(text)[n]) = n
  BY <1>1, <1>3, <1>4
<1>8. QED
  BY <1>5, <1>6, <1>7

-----------------------------------------------------------------------------
(* What comes back.                                                         *)

LEMMA FreshIsTurn == Fresh \in Turn /\ Empty \in Backs /\ <<>> \in Texts
<1>1. Empty \in Backs
  BY DEF Empty, Backs
<1>2. <<>> \in Seq(Parts) /\ Len(<<>>) = 0
  OBVIOUS
<1>3. <<>> \in Texts
  BY <1>2, ConversationAssumption DEF Texts
<1>4. Fresh \in Turn
  BY <1>1, <1>2 DEF Fresh, Turn, Stages
<1>5. QED
  BY <1>1, <1>3, <1>4

LEMMA OverIsTurn ==
  ASSUME TypeOK, NEW t \in Turns,
         NEW code \in {"refused", "bad_gateway", "unread", "rejected", "ok"}, NEW audit \in {"none", "error", "ok"}
  PROVE  /\ Over(t, code, audit) \in Turn
         /\ Over(t, code, audit).at = "done" /\ Over(t, code, audit).code = code
         /\ Over(t, code, audit).audit = audit /\ Over(t, code, audit).named = turn[t].named
         /\ Over(t, code, audit).text = <<>> /\ Over(t, code, audit).back = Empty
<1>1. turn[t].named \in BOOLEAN
  BY DEF TypeOK, Turn
<1>2. Over(t, code, audit) = [Fresh EXCEPT !.at = "done", !.named = turn[t].named, !.code = code, !.audit = audit]
  BY DEF Over
<1>3. Over(t, code, audit) \in Turn
  BY <1>1, <1>2, FreshIsTurn DEF Turn, Stages
<1>4. QED
  BY <1>2, <1>3 DEF Fresh

LEMMA InitIsSound == Init => OwnInv
<1>1. SUFFICES ASSUME Init PROVE OwnInv
  OBVIOUS
<1>2. TypeOK
  BY <1>1, FreshIsTurn DEF Init, TypeOK
<1>3. Backed(saved) /\ (\A n \in Tokens : IsFiniteSet(given[n])) /\ \A p \in written : Grounded(p)
  BY <1>1, FS_EmptySet DEF Init, Backed, Empty
<1>4. ASSUME NEW t \in Turns
      PROVE  Sound(t)
  <2>1. turn[t] = Fresh
    BY <1>1 DEF Init
  <2>2. /\ turn[t].text = <<>> /\ turn[t].back = Empty /\ turn[t].at = "new" /\ turn[t].code = "none"
    BY <2>1 DEF Fresh
  <2>3. QED
    BY <2>2, FreshIsTurn DEF Sound, Backed, Empty, Answered
<1>5. QED
  BY <1>2, <1>3, <1>4 DEF OwnInv

\* Nothing said of a turn is spoilt by values given meanwhile.
LEMMA StaysSound ==
  ASSUME NEW u \in Turns, Sound(u), turn'[u] = turn[u], \A n \in Tokens : given[n] \subseteq given'[n]
  PROVE  Sound(u)'
<1>1. \A p \in Parts : Grounded(p) => Grounded(p)'
  BY DEF Grounded, Parts
<1>2. ASSUME NEW back, Backed(back)
      PROVE  Backed(back)'
  BY <1>2 DEF Backed
<1>3. turn'[u].text \in Texts /\ \A i \in DOMAIN turn'[u].text : turn'[u].text[i] \in Parts
  BY DEF Sound, Texts
<1>4. \A i \in DOMAIN turn'[u].text : Grounded(turn[u].text[i])'
  BY <1>1, <1>3 DEF Sound
<1>5. Backed(turn[u].back)'
  BY DEF Sound, Backed
<1>6. turn'[u].at \in {"masked", "saved", "sent"} => Masked(u)'
  BY <1>2 DEF Sound, Masked, Backed
<1>7. turn'[u].at = "sent" => AnswersWhatItSaw(u)'
  BY DEF Sound, AnswersWhatItSaw, Visible
<1>8. Answered(u)' => Restored(u)'
  BY DEF Sound, Answered, Restored, Back
<1>9. QED
  BY <1>3, <1>4, <1>5, <1>6, <1>7, <1>8 DEF Sound

\* A turn that is over without an answer.
LEMMA EndsSound ==
  ASSUME OwnInv, NEW t \in Turns, UNCHANGED <<saved, written, given>>,
         NEW code \in {"refused", "bad_gateway", "unread", "rejected"}, NEW audit \in {"none", "error", "ok"},
         turn' = [turn EXCEPT ![t] = Over(t, code, audit)], lossless' \in BOOLEAN
  PROVE  OwnInv'
<1>1. TypeOK /\ turn'[t] = Over(t, code, audit)
  BY DEF OwnInv, TypeOK
<1>2. TypeOK'
  BY <1>1, OverIsTurn DEF TypeOK
<1>3. Backed(saved)' /\ \A p \in written' : Grounded(p)'
  BY DEF OwnInv, Backed, Grounded
<1>4. Sound(t)'
  <2>1. /\ turn'[t].text = <<>> /\ turn'[t].back = Empty /\ turn'[t].at = "done" /\ turn'[t].code = code
    BY <1>1, OverIsTurn
  <2>2. QED
    BY <2>1, FreshIsTurn DEF Sound, Backed, Empty, Answered
<1>5. ASSUME NEW u \in Turns, u # t
      PROVE  Sound(u)'
  <2>1. Sound(u) /\ turn'[u] = turn[u]
    BY <1>1, <1>5 DEF OwnInv, TypeOK
  <2>2. QED
    BY <2>1, StaysSound
<1>6. QED
  BY <1>2, <1>3, <1>4, <1>5 DEF OwnInv

LEMMA LoadIsSound ==
  ASSUME OwnInv, NEW t \in Turns, LoadConversation(t)
  PROVE  OwnInv'
<1>1. TypeOK /\ Backed(saved) /\ (\A p \in written : Grounded(p)) /\ UNCHANGED <<saved, written, given>>
  BY DEF OwnInv, LoadConversation
<1>2. PICK named \in BOOLEAN, size \in 1..MaxParts : \E text \in [1..size -> [token : {0}, value : Values] \cup written] :
       turn' = [turn EXCEPT ![t] = [Fresh EXCEPT !.at = "loaded", !.named = named, !.text = text,
                                                    !.back = IF named THEN saved ELSE Empty]]
  BY DEF LoadConversation
<1>3. PICK text \in [1..size -> [token : {0}, value : Values] \cup written] :
       turn' = [turn EXCEPT ![t] = [Fresh EXCEPT !.at = "loaded", !.named = named, !.text = text,
                                                    !.back = IF named THEN saved ELSE Empty]]
  BY <1>2
<1> DEFINE back == IF named THEN saved ELSE Empty
<1>4. /\ turn'[t] = [Fresh EXCEPT !.at = "loaded", !.named = named, !.text = text, !.back = back]
      /\ \A u \in Turns : u # t => turn'[u] = turn[u]
  BY <1>1, <1>3 DEF TypeOK
<1>5. back \in Backs /\ Backed(back)
  BY <1>1, FreshIsTurn DEF TypeOK, Backed, Empty
<1>6. size \in Nat /\ size <= MaxParts
  BY ConversationAssumption
<1>7. text \in Seq(Parts) /\ Len(text) = size /\ DOMAIN text = 1..size
  BY <1>1, <1>6 DEF TypeOK, Parts
<1>8. text \in Texts
  BY <1>6, <1>7 DEF Texts
<1> HIDE DEF back
<1>9. /\ turn'[t].at = "loaded" /\ turn'[t].text = text /\ turn'[t].back = back /\ turn'[t].code = "none"
      /\ turn'[t] \in Turn
  BY <1>4, <1>5, <1>7, FreshIsTurn DEF Fresh, Turn, Stages
<1>10. TypeOK'
  <2>1. turn' \in [Turns -> Turn]
    BY <1>1, <1>3, <1>4, <1>9 DEF TypeOK
  <2>2. lossless' \in BOOLEAN
    BY DEF LoadConversation
  <2>3. QED
    BY <1>1, <2>1, <2>2 DEF TypeOK
<1>11. \A i \in DOMAIN text : Grounded(text[i])
  BY <1>1, <1>7 DEF Grounded
<1>12. Sound(t)'
  BY <1>1, <1>5, <1>8, <1>9, <1>11 DEF Sound, Backed, Grounded, Answered
<1>13. ASSUME NEW u \in Turns, u # t
       PROVE  Sound(u)'
  BY <1>1, <1>4, <1>13, StaysSound DEF OwnInv
<1>14. QED
  BY <1>1, <1>10, <1>12, <1>13 DEF OwnInv, Backed, Grounded

\* What the text's own placeholders and the record say together.
LEMMA OverlayIs ==
  ASSUME NEW own \in Backs, NEW old \in Backs
  PROVE  /\ Overlay(own, old) \in Backs
         /\ \A n \in Tokens : Overlay(own, old)[n] = IF own[n] # NoValue THEN own[n] ELSE old[n]
BY DEF Overlay, Backs

LEMMA MaskIsSound ==
  ASSUME OwnInv, NEW t \in Turns, MaskBody(t)
  PROVE  OwnInv'
<1> DEFINE own == Own(turn[t].text)
           old == turn[t].back
<1>1. /\ TypeOK /\ Backed(saved) /\ (\A p \in written : Grounded(p)) /\ UNCHANGED <<saved, written, lossless>>
      /\ turn[t] \in Turn /\ old \in Backs /\ Sound(t)
  BY DEF OwnInv, MaskBody, TypeOK, Turn
<1>2. own \in Backs
  BY <1>1, OwnIs DEF Sound
<1> HIDE DEF own, old
<1>3. /\ turn' = [turn EXCEPT ![t].at = IF turn[t].named THEN "masked" ELSE "saved",
                              ![t].own = own, ![t].back = Overlay(own, old)]
      /\ given' = [n \in Tokens |-> given[n] \cup ({own[n]} \ {NoValue})]
  BY DEF MaskBody, own, old
<1>4. /\ turn'[t].at \in {"masked", "saved"} /\ turn'[t].text = turn[t].text /\ turn'[t].code = turn[t].code
      /\ turn'[t].own = own /\ turn'[t].back = Overlay(own, old) /\ turn'[t] \in Turn
      /\ \A u \in Turns : u # t => turn'[u] = turn[u]
      /\ turn' \in [Turns -> Turn]
  BY <1>1, <1>2, <1>3, OverlayIs DEF TypeOK, Turn, Stages
<1>5. \A n \in Tokens : given[n] \subseteq given'[n] /\ (own[n] # NoValue => own[n] \in given'[n])
  BY <1>3
<1>6. TypeOK'
  <2>1. given' \in [Tokens -> SUBSET Values]
    BY <1>1, <1>2, <1>3 DEF TypeOK, Backs
  <2>2. QED
    BY <1>1, <1>4, <2>1 DEF TypeOK
<1>7. Backed(saved)' /\ (\A n \in Tokens : IsFiniteSet(given'[n])) /\ \A p \in written' : Grounded(p)'
  <2>1. \A p \in written : p.token \in Tokens
    BY <1>1 DEF TypeOK
  <2>2. ASSUME NEW n \in Tokens
        PROVE  IsFiniteSet(given'[n])
    <3>1. given'[n] = given[n] \/ given'[n] = given[n] \cup {own[n]}
      BY <1>3
    <3>2. QED
      BY <3>1, FS_AddElement DEF OwnInv
  <2>3. QED
    BY <1>1, <1>5, <2>1, <2>2 DEF Backed, Grounded
<1>8. Sound(t)'
  <2>1. \A n \in Tokens : Overlay(own, old)[n] = IF own[n] # NoValue THEN own[n] ELSE old[n]
    BY <1>1, <1>2, OverlayIs
  <2>2. Backed(turn[t].back)'
    <3>1. Backed(old)
      BY <1>1 DEF Sound, old
    <3>2. QED
      BY <1>4, <1>5, <2>1, <3>1 DEF Backed
  <2>3. Masked(t)'
    <3>1. turn'[t].own = Own(turn'[t].text)
      BY <1>4 DEF own
    <3>2. QED
      BY <1>4, <1>5, <2>1, <3>1 DEF Masked, Backed
  <2>4. turn'[t].text \in Texts /\ \A i \in DOMAIN turn'[t].text : Grounded(turn[t].text[i])'
    <3>1. \A p \in Parts : Grounded(p) => Grounded(p)'
      BY <1>5 DEF Grounded, Parts
    <3>2. turn[t].text \in Texts /\ \A i \in DOMAIN turn[t].text : turn[t].text[i] \in Parts
      BY <1>1 DEF Sound, Texts
    <3>3. QED
      BY <1>1, <1>4, <3>1, <3>2 DEF Sound
  <2>5. turn[t].code = "none"
    BY <1>1 DEF MaskBody, Sound, Answered
  <2>6. QED
    BY <1>4, <2>2, <2>3, <2>4, <2>5 DEF Sound, Answered
<1>9. ASSUME NEW u \in Turns, u # t
      PROVE  Sound(u)'
  BY <1>4, <1>5, <1>9, StaysSound DEF OwnInv
<1>10. QED
  BY <1>6, <1>7, <1>8, <1>9 DEF OwnInv

LEMMA SaveIsSound ==
  ASSUME OwnInv, NEW t \in Turns, SaveConversation(t)
  PROVE  OwnInv'
<1>1. /\ TypeOK /\ Backed(saved) /\ (\A p \in written : Grounded(p)) /\ UNCHANGED <<written, given>>
      /\ turn[t] \in Turn /\ Sound(t) /\ turn[t].at = "masked"
  BY DEF OwnInv, SaveConversation, TypeOK
<1>2. turn' = [turn EXCEPT ![t].at = "saved"] /\ saved' \in {saved, turn[t].back} /\ lossless' \in BOOLEAN
  BY <1>1 DEF SaveConversation, TypeOK
<1>3. turn'[t] = [turn[t] EXCEPT !.at = "saved"] /\ \A u \in Turns : u # t => turn'[u] = turn[u]
  BY <1>1, <1>2 DEF TypeOK
<1>4. /\ turn'[t].at = "saved" /\ turn'[t].text = turn[t].text /\ turn'[t].code = turn[t].code
      /\ turn'[t].own = turn[t].own /\ turn'[t].back = turn[t].back /\ turn'[t] \in Turn
  BY <1>1, <1>3 DEF Turn, Stages
<1>5. TypeOK'
  BY <1>1, <1>2, <1>4 DEF TypeOK, Turn
<1>6. Backed(saved)' /\ \A p \in written' : Grounded(p)'
  BY <1>1, <1>2 DEF Backed, Grounded, Sound
<1>7. Sound(t)'
  BY <1>1, <1>4 DEF Sound, Masked, Backed, Grounded, Answered
<1>8. ASSUME NEW u \in Turns, u # t
      PROVE  Sound(u)'
  BY <1>1, <1>3, <1>8, StaysSound DEF OwnInv
<1>9. QED
  BY <1>1, <1>5, <1>6, <1>7, <1>8 DEF OwnInv

\* Every placeholder that goes to the model stands there for a value it has stood for.
LEMMA VisibleIs ==
  ASSUME OwnInv, NEW t \in Turns, turn[t].at \in {"saved", "sent"}, NEW p \in Visible(t)
  PROVE  /\ p.token \in Tokens /\ p.value \in given[p.token] /\ p.value \in Values
         /\ \/ turn[t].own[p.token] = p.value
            \/ \E i \in DOMAIN turn[t].text : turn[t].text[i].token = p.token
<1>1. /\ turn[t].text \in Texts /\ \A i \in DOMAIN turn[t].text : Grounded(turn[t].text[i])
      /\ turn[t].own = Own(turn[t].text) /\ Backed(turn[t].own)
  BY DEF OwnInv, Sound, Masked
<1>2. CASE \E v \in ValuesOf(turn[t].text) : p = [token |-> Number(turn[t].text, v), value |-> v]
  <2>1. PICK v \in ValuesOf(turn[t].text) : p.token = Number(turn[t].text, v) /\ p.value = v
    BY <1>2
  <2>2. p.token \in Tokens /\ turn[t].own[p.token] = v /\ v \in Values /\ v # NoValue
    BY <1>1, <2>1, NumberIs, OwnIs, ValuesOfText
  <2>3. QED
    BY <1>1, <2>1, <2>2 DEF Backed
<1>3. CASE \E i \in DOMAIN turn[t].text : turn[t].text[i].token # 0 /\ p = turn[t].text[i]
  <2>1. PICK i \in DOMAIN turn[t].text : turn[t].text[i].token # 0 /\ p = turn[t].text[i]
    BY <1>3
  <2>2. p \in Parts
    BY <1>1, <2>1 DEF Texts
  <2>3. QED
    BY <1>1, <2>1, <2>2 DEF Grounded, Parts
<1>4. QED
  BY <1>2, <1>3 DEF Visible

LEMMA CallIsSound ==
  ASSUME OwnInv, NEW t \in Turns, CallUpstream(t)
  PROVE  OwnInv'
<1>1. /\ TypeOK /\ Backed(saved) /\ (\A p \in written : Grounded(p)) /\ UNCHANGED <<saved, written, given, lossless>>
      /\ turn[t] \in Turn /\ Sound(t) /\ turn[t].at = "saved"
  BY DEF OwnInv, CallUpstream, TypeOK
<1>2. CASE turn' = [turn EXCEPT ![t] = Over(t, "bad_gateway", "error")]
  BY <1>1, <1>2, EndsSound DEF TypeOK
<1>3. ASSUME NEW p \in Visible(t),
             turn' = [turn EXCEPT ![t].at = "sent", ![t].answer = p.token, ![t].meant = p.value]
      PROVE  OwnInv'
  <2>1. /\ turn'[t] = [turn[t] EXCEPT !.at = "sent", !.answer = p.token, !.meant = p.value]
        /\ \A u \in Turns : u # t => turn'[u] = turn[u]
    BY <1>1, <1>3 DEF TypeOK
  <2>2. p.token \in Tokens /\ p.value \in Values
    BY <1>1, VisibleIs
  <2>3. /\ turn'[t].at = "sent" /\ turn'[t].text = turn[t].text /\ turn'[t].code = turn[t].code
        /\ turn'[t].own = turn[t].own /\ turn'[t].back = turn[t].back /\ turn'[t] \in Turn
        /\ turn'[t].answer = p.token /\ turn'[t].meant = p.value
    BY <1>1, <2>1, <2>2 DEF Turn, Stages
  <2>4. TypeOK'
    BY <1>1, <1>3, <2>3 DEF TypeOK
  <2>5. AnswersWhatItSaw(t)'
    <3>1. Visible(t)' = Visible(t)
      BY <2>3 DEF Visible
    <3>2. p = [token |-> p.token, value |-> p.value]
      <4>1. turn[t].text \in Seq(Parts)
        BY <1>1 DEF Sound, Texts
      <4>2. p \in Parts \/ \E v \in ValuesOf(turn[t].text) : p = [token |-> Number(turn[t].text, v), value |-> v]
        BY <4>1 DEF Visible
      <4>3. QED
        BY <4>2 DEF Parts
    <3>3. QED
      BY <2>3, <3>1, <3>2 DEF AnswersWhatItSaw
  <2>6. Sound(t)'
    BY <1>1, <2>3, <2>5 DEF Sound, Masked, Backed, Grounded, Answered
  <2>7. ASSUME NEW u \in Turns, u # t
        PROVE  Sound(u)'
    BY <1>1, <2>1, <2>7, StaysSound DEF OwnInv
  <2>8. QED
    BY <1>1, <2>4, <2>6, <2>7 DEF OwnInv, Backed, Grounded
<1>4. QED
  BY <1>1, <1>2, <1>3 DEF CallUpstream

LEMMA RestoreIsSound ==
  ASSUME OwnInv, NEW t \in Turns, RestoreResponse(t)
  PROVE  OwnInv'
<1> DEFINE answer == turn[t].answer
           meant == turn[t].meant
           found == turn[t].back[turn[t].answer]
           shown == Put(turn[t].back[turn[t].answer])
           p == [token |-> answer, value |-> meant]
<1>1. /\ TypeOK /\ Backed(saved) /\ (\A q \in written : Grounded(q)) /\ UNCHANGED <<saved, given, lossless>>
      /\ turn[t] \in Turn /\ Sound(t) /\ turn[t].at = "sent"
      /\ turn' = [turn EXCEPT ![t] = With(t, found)]
      /\ written' = written \cup {p}
  BY DEF OwnInv, RestoreResponse, TypeOK
<1>2. p \in Visible(t) /\ p.token = answer /\ p.value = meant
  BY <1>1 DEF Sound, AnswersWhatItSaw
<1>3. /\ answer \in Tokens /\ meant \in given[answer] /\ meant \in Values
      /\ \/ turn[t].own[answer] = meant
         \/ \E i \in DOMAIN turn[t].text : turn[t].text[i].token = answer
  <2> HIDE DEF p, answer, meant
  <2>1. QED
    BY <1>1, <1>2, VisibleIs
<1>4. Masked(t) /\ Backed(turn[t].back) /\ turn[t].back \in Backs
  BY <1>1 DEF Sound, Turn
<1>5. found \in Values \cup {NoValue} /\ (found # NoValue => found \in given[answer])
  BY <1>3, <1>4 DEF Backed, Backs
<1>50. shown = Put(found)
  OBVIOUS
<1> HIDE DEF answer, meant, found, shown, p
<1>51. /\ shown \in Strings \cup {NoValue}
       /\ shown # NoValue => \E v \in given[answer] : shown = Quote[v]
       /\ found = meant => shown = Quote[meant]
  BY <1>3, <1>5, <1>50, ConversationAssumption DEF Put
<1> DEFINE alone == /\ turn[t].own[answer] # NoValue
                    /\ \A i \in DOMAIN turn[t].text : turn[t].text[i].token # answer
<1>6. With(t, found) = [Over(t, "ok", "ok") EXCEPT !.answer = answer, !.meant = meant, !.shown = shown, !.alone = alone]
  BY DEF With, answer, meant, shown, found
<1>7. alone => found = meant
  <2>1. ASSUME alone
        PROVE  found = meant
    <3>1. turn[t].own[answer] = meant /\ turn[t].own[answer] # NoValue
      BY <1>3, <2>1
    <3>2. turn[t].back[answer] = turn[t].own[answer]
      BY <1>3, <1>4, <3>1 DEF Masked
    <3>3. QED
      BY <3>1, <3>2 DEF found, answer
  <2>2. QED
    BY <2>1
<1>8. alone \in BOOLEAN
  OBVIOUS
<1> HIDE DEF alone
<1>9. Over(t, "ok", "ok") \in Turn /\ Over(t, "ok", "ok").text = <<>> /\ Over(t, "ok", "ok").back = Empty
      /\ Over(t, "ok", "ok").at = "done"
  BY <1>1, OverIsTurn
<1>10. /\ turn'[t] = With(t, found)
       /\ \A u \in Turns : u # t => turn'[u] = turn[u]
  BY <1>1 DEF TypeOK
<1>11. /\ turn'[t] \in Turn
       /\ turn'[t].text = <<>> /\ turn'[t].back = Empty /\ turn'[t].at = "done"
       /\ turn'[t].answer = answer /\ turn'[t].meant = meant /\ turn'[t].shown = shown /\ turn'[t].alone = alone
  <2> DEFINE over == Over(t, "ok", "ok")
  <2>1. over \in Turn /\ turn'[t] = [over EXCEPT !.answer = answer, !.meant = meant, !.shown = shown, !.alone = alone]
    BY <1>6, <1>9, <1>10
  <2>2. over.text = <<>> /\ over.back = Empty /\ over.at = "done"
    BY <1>9
  <2> HIDE DEF over
  <2>3. turn'[t] \in Turn
    BY <1>3, <1>51, <1>8, <2>1 DEF Turn
  <2>4. /\ turn'[t].answer = answer /\ turn'[t].meant = meant /\ turn'[t].shown = shown /\ turn'[t].alone = alone
        /\ turn'[t].text = over.text /\ turn'[t].back = over.back /\ turn'[t].at = over.at
    BY <2>1 DEF Turn
  <2>5. QED
    BY <2>2, <2>3, <2>4
<1>12. TypeOK'
  <2>1. p \in [token : Tokens, value : Values]
    BY <1>3 DEF p
  <2>2. QED
    BY <1>1, <1>11, <2>1 DEF TypeOK
<1>13. \A q \in written' : Grounded(q)'
  <2>1. p.token = answer /\ p.value = meant
    BY DEF p
  <2>2. QED
    BY <1>1, <1>3, <2>1 DEF Grounded
<1>14. Sound(t)'
  <2>1. Restored(t)'
    BY <1>1, <1>3, <1>51, <1>7, <1>11 DEF Restored, Back
  <2>2. QED
    BY <1>11, <2>1, FreshIsTurn DEF Sound, Backed, Empty
<1>15. ASSUME NEW u \in Turns, u # t
       PROVE  Sound(u)'
  BY <1>1, <1>10, <1>15, StaysSound DEF OwnInv
<1>16. QED
  BY <1>1, <1>12, <1>13, <1>14, <1>15 DEF OwnInv, Backed

LEMMA NextIsSound == OwnInv /\ [Next]_vars => OwnInv'
<1> SUFFICES ASSUME OwnInv, [Next]_vars PROVE OwnInv'
  OBVIOUS
<1>1. ASSUME NEW t \in Turns, Refuse(t)
      PROVE  OwnInv'
  BY <1>1, EndsSound DEF Refuse, OwnInv, TypeOK
<1>2. ASSUME NEW t \in Turns, FailAnswer(t)
      PROVE  OwnInv'
  BY <1>2, EndsSound DEF FailAnswer, OwnInv, TypeOK
<1>3. ASSUME LoseRecord
      PROVE  OwnInv'
  <2>1. TypeOK' /\ Backed(saved)' /\ \A p \in written' : Grounded(p)'
    BY <1>3, FreshIsTurn DEF LoseRecord, OwnInv, TypeOK, Backed, Empty, Grounded
  <2>2. ASSUME NEW u \in Turns
        PROVE  Sound(u)'
    BY <1>3, StaysSound DEF LoseRecord, OwnInv
  <2>3. QED
    BY <1>3, <2>1, <2>2 DEF OwnInv, LoseRecord
<1>4. CASE UNCHANGED vars
  <2>1. TypeOK' /\ Backed(saved)' /\ \A p \in written' : Grounded(p)'
    BY <1>4 DEF vars, OwnInv, TypeOK, Backed, Grounded
  <2>2. ASSUME NEW u \in Turns
        PROVE  Sound(u)'
    BY <1>4, StaysSound DEF vars, OwnInv
  <2>3. QED
    BY <1>4, <2>1, <2>2 DEF OwnInv, vars
<1>5. QED
  BY <1>1, <1>2, <1>3, <1>4, LoadIsSound, MaskIsSound, SaveIsSound, CallIsSound, RestoreIsSound DEF Next, Proceed

LEMMA AlwaysSound == Spec => []OwnInv
BY InitIsSound, NextIsSound, PTL DEF Spec

\* Types: every turn and the record of the dialogue are what they are said to be.
THEOREM ConversationIsTyped == Spec => []TypeOK
<1>1. OwnInv => TypeOK
  BY DEF OwnInv
<1>2. QED
  BY <1>1, AlwaysSound, PTL

\* restorePlaceholders and handleChatCompletions: nothing is made up, and what a turn
\* has masked comes back in its answer, whatever happens to the record meanwhile.
THEOREM MaskedValuesComeBack == Spec => []OwnValuesComeBack
<1>1. OwnInv => OwnValuesComeBack
  <2> SUFFICES ASSUME OwnInv PROVE OwnValuesComeBack
    OBVIOUS
  <2>1. ASSUME NEW t \in Turns, Answered(t)
        PROVE  /\ turn[t].shown # NoValue => \E v \in given[turn[t].answer] : turn[t].shown = Quote[v]
               /\ turn[t].meant \in given[turn[t].answer]
               /\ turn[t].alone => Back(t)
    BY <2>1 DEF OwnInv, Sound, Restored
  <2>2. ASSUME NEW t \in Turns, Answered(t), turn[t].shown # NoValue, Cardinality(given[turn[t].answer]) = 1
        PROVE  Back(t)
    <3>1. IsFiniteSet(given[turn[t].answer])
      BY <2>2 DEF OwnInv, Sound, Restored
    <3>2. PICK v : given[turn[t].answer] = {v}
      BY <2>2, <3>1, FS_Singleton
    <3>3. QED
      BY <2>1, <2>2, <3>2 DEF Back
  <2>3. QED
    BY <2>1, <2>2 DEF OwnValuesComeBack, NothingMadeUp
<1>2. QED
  BY <1>1, AlwaysSound, PTL

-----------------------------------------------------------------------------
(* What is remembered of earlier turns.                                     *)

LEMMA InitIsRemembered == Init => Remembered
BY DEF Init, Remembered, Running, Answered, Fresh

\* Turns that have named the dialogue have done so for good.
LEMMA NamedBefore ==
  ASSUME NEW t \in Turns, \A u \in Turns : u # t => turn'[u] = turn[u],
         \/ turn[t].at = "new"
         \/ turn'[t].named = turn[t].named /\ turn'[t].at # "new" /\ turn'[t].code # "refused",
         AllNamed'
  PROVE  AllNamed
<1>1. ASSUME NEW u \in Turns, u # t, turn[u].at # "new", turn[u].code # "refused"
      PROVE  turn[u].named
  BY <1>1 DEF AllNamed
<1>2. turn[t].at # "new" => turn[t].named
  BY DEF AllNamed
<1>3. QED
  BY <1>1, <1>2 DEF AllNamed

\* What is put back is something, and stands for a value as JSON writes it.
LEMMA PutIs ==
  ASSUME NEW v \in Values
  PROVE  Put(v) = Quote[v] /\ Put(v) \in Strings /\ Put(v) # NoValue
BY ConversationAssumption DEF Put

\* A turn that goes on or ends, when nothing is given and nothing written: its answer
\* has what it was to put back.
LEMMA StaysRemembered ==
  ASSUME OwnInv, Remembered, NEW t \in Turns, UNCHANGED <<saved, given>>, lossless' => lossless, AllNamed' => AllNamed,
         \A u \in Turns : u # t => turn'[u] = turn[u],
         turn[t].at # "masked",
         Running(t)' => Running(t) /\ turn'[t].back = turn[t].back,
         Answered(t)' =>
           /\ turn'[t].answer \in Tokens /\ given[turn'[t].answer] # {}
           /\ Running(t) /\ turn'[t].shown = Put(turn[t].back[turn'[t].answer])
  PROVE  Remembered'
<1> SUFFICES ASSUME lossless', AllNamed'
             PROVE  /\ \A w, u \in Turns : Running(w)' /\ Running(u)' => w = u
                    /\ \A n \in Tokens : given[n] # {} =>
                         /\ saved[n] # NoValue \/ \E u \in Turns : turn'[u].at = "masked"
                         /\ \A u \in Turns : Running(u)' => turn'[u].back[n] # NoValue
                    /\ \A u \in Turns : Answered(u)' => turn'[u].shown # NoValue
  BY DEF Remembered
<1>1. /\ \A w, u \in Turns : Running(w) /\ Running(u) => w = u
      /\ \A n \in Tokens : given[n] # {} =>
           /\ saved[n] # NoValue \/ \E u \in Turns : turn[u].at = "masked"
           /\ \A u \in Turns : Running(u) => turn[u].back[n] # NoValue
      /\ \A u \in Turns : Answered(u) => turn[u].shown # NoValue
  BY DEF Remembered
<1>2. \A u \in Turns : Running(u)' => Running(u) /\ turn'[u].back = turn[u].back
  BY DEF Running
<1>3. \A u \in Turns : turn[u].at = "masked" => turn'[u].at = "masked"
  OBVIOUS
<1>4. \A u \in Turns : Answered(u)' => turn'[u].shown # NoValue
  <2>1. Answered(t)' => turn'[t].shown # NoValue
    <3>1. turn[t].back \in [Tokens -> Values \cup {NoValue}]
      BY DEF OwnInv, TypeOK, Turn, Backs
    <3>2. ASSUME Answered(t)'
          PROVE  turn'[t].shown # NoValue
      <4>1. turn[t].back[turn'[t].answer] \in Values
        BY <1>1, <3>1, <3>2
      <4>2. QED
        BY <3>2, <4>1, PutIs
    <3>3. QED
      BY <3>2
  <2>2. QED
    BY <1>1, <2>1 DEF Answered
<1>5. QED
  BY <1>1, <1>2, <1>3, <1>4

LEMMA LoadIsRemembered ==
  ASSUME HistoryInv, NEW t \in Turns, LoadConversation(t)
  PROVE  Remembered'
<1>1. PICK named \in BOOLEAN, size \in 1..MaxParts : \E text \in [1..size -> [token : {0}, value : Values] \cup written] :
       turn' = [turn EXCEPT ![t] = [Fresh EXCEPT !.at = "loaded", !.named = named, !.text = text,
                                                    !.back = IF named THEN saved ELSE Empty]]
  BY DEF LoadConversation
<1>2. PICK text \in [1..size -> [token : {0}, value : Values] \cup written] :
       turn' = [turn EXCEPT ![t] = [Fresh EXCEPT !.at = "loaded", !.named = named, !.text = text,
                                                    !.back = IF named THEN saved ELSE Empty]]
  BY <1>1
<1>3. /\ turn'[t] = [Fresh EXCEPT !.at = "loaded", !.named = named, !.text = text, !.back = IF named THEN saved ELSE Empty]
      /\ \A u \in Turns : u # t => turn'[u] = turn[u]
  BY <1>2 DEF HistoryInv, OwnInv, TypeOK
<1>4. /\ turn[t].at = "new" /\ UNCHANGED <<saved, given>>
      /\ lossless' => lossless /\ \A u \in Turns : ~Running(u)
      /\ turn'[t].at = "loaded" /\ turn'[t].named = named /\ turn'[t].code = "none"
      /\ turn'[t].back = IF named THEN saved ELSE Empty
      /\ \A u \in Turns : u # t => turn'[u] = turn[u]
  BY <1>3 DEF LoadConversation, Fresh
<1> SUFFICES ASSUME lossless', AllNamed'
             PROVE  /\ \A w, u \in Turns : Running(w)' /\ Running(u)' => w = u
                    /\ \A n \in Tokens : given[n] # {} =>
                         /\ saved[n] # NoValue \/ \E u \in Turns : turn'[u].at = "masked"
                         /\ \A u \in Turns : Running(u)' => turn'[u].back[n] # NoValue
                    /\ \A u \in Turns : Answered(u)' => turn'[u].shown # NoValue
  BY <1>4 DEF Remembered
<1>5. lossless /\ AllNamed /\ \A u \in Turns : ~Running(u)
  BY <1>4, NamedBefore
<1>6. /\ \A n \in Tokens : given[n] # {} => saved[n] # NoValue
      /\ \A u \in Turns : Answered(u) => turn[u].shown # NoValue
  BY <1>5 DEF HistoryInv, Remembered, Running
<1>7. \A u \in Turns : Running(u)' => u = t
  BY <1>4, <1>5 DEF Running
<1>8. turn'[t].back = saved
  BY <1>4 DEF AllNamed
<1>9. \A u \in Turns : Answered(u)' => turn'[u].shown # NoValue
  BY <1>4, <1>6 DEF Answered
<1>10. QED
  BY <1>6, <1>7, <1>8, <1>9

LEMMA MaskIsRemembered ==
  ASSUME HistoryInv, NEW t \in Turns, MaskBody(t)
  PROVE  Remembered'
<1> DEFINE own == Own(turn[t].text)
           old == turn[t].back
<1>1. own \in Backs /\ old \in Backs
  BY OwnIs DEF HistoryInv, OwnInv, Sound, TypeOK, Turn
<1> HIDE DEF own, old
<1>2. /\ turn[t].at = "loaded" /\ UNCHANGED <<saved, lossless>>
      /\ turn'[t].at = IF turn[t].named THEN "masked" ELSE "saved"
      /\ turn'[t].named = turn[t].named /\ turn'[t].code = turn[t].code
      /\ turn'[t].back = Overlay(own, old)
      /\ given' = [n \in Tokens |-> given[n] \cup ({own[n]} \ {NoValue})]
      /\ \A u \in Turns : u # t => turn'[u] = turn[u]
  BY DEF MaskBody, own, old, HistoryInv, OwnInv, TypeOK, Turn
<1>3. turn[t].code # "ok"
  BY <1>2 DEF HistoryInv, OwnInv, Sound, Answered
<1>4. /\ Overlay(own, old) \in Backs
      /\ \A n \in Tokens : Overlay(own, old)[n] = IF own[n] # NoValue THEN own[n] ELSE old[n]
  BY <1>1, OverlayIs
<1> SUFFICES ASSUME lossless', AllNamed'
             PROVE  /\ \A w, u \in Turns : Running(w)' /\ Running(u)' => w = u
                    /\ \A n \in Tokens : given'[n] # {} =>
                         /\ saved[n] # NoValue \/ \E u \in Turns : turn'[u].at = "masked"
                         /\ \A u \in Turns : Running(u)' => turn'[u].back[n] # NoValue
                    /\ \A u \in Turns : Answered(u)' => turn'[u].shown # NoValue
  BY <1>2 DEF Remembered
<1>5. lossless /\ AllNamed /\ Running(t) /\ turn[t].code # "refused"
  <2>1. turn[t].code # "refused"
    BY <1>2 DEF HistoryInv, OwnInv, Sound
  <2>2. QED
    BY <1>2, <2>1, NamedBefore DEF Running
<1>6. /\ \A u \in Turns : Running(u) => u = t
      /\ \A n \in Tokens : given[n] # {} => old[n] # NoValue
      /\ \A u \in Turns : Answered(u) => turn[u].shown # NoValue
  BY <1>5 DEF HistoryInv, Remembered, old
<1>7. \A u \in Turns : Running(u)' => u = t
  BY <1>2, <1>6 DEF Running
<1>8. turn'[t].at = "masked"
  BY <1>2, <1>5 DEF AllNamed
<1>9. \A n \in Tokens : given'[n] # {} => turn'[t].back[n] # NoValue
  BY <1>2, <1>4, <1>6
<1>10. \A u \in Turns : Answered(u)' => turn'[u].shown # NoValue
  BY <1>2, <1>3, <1>6 DEF Answered
<1>11. QED
  BY <1>7, <1>8, <1>9, <1>10

LEMMA SaveIsRemembered ==
  ASSUME HistoryInv, NEW t \in Turns, SaveConversation(t)
  PROVE  Remembered'
<1>1. /\ turn[t].at = "masked" /\ given' = given
      /\ lossless' => lossless /\ saved' = turn[t].back
      /\ turn'[t].at = "saved" /\ turn'[t].named = turn[t].named /\ turn'[t].code = turn[t].code
      /\ turn'[t].back = turn[t].back
      /\ \A u \in Turns : u # t => turn'[u] = turn[u]
  BY DEF SaveConversation, HistoryInv, OwnInv, TypeOK, Turn
<1>2. turn[t].code \notin {"ok", "refused"}
  BY <1>1 DEF HistoryInv, OwnInv, Sound
<1> SUFFICES ASSUME lossless', AllNamed'
             PROVE  /\ \A w, u \in Turns : Running(w)' /\ Running(u)' => w = u
                    /\ \A n \in Tokens : given[n] # {} =>
                         /\ saved'[n] # NoValue
                         /\ \A u \in Turns : Running(u)' => turn'[u].back[n] # NoValue
                    /\ \A u \in Turns : Answered(u)' => turn'[u].shown # NoValue
  BY <1>1 DEF Remembered
<1>3. lossless /\ AllNamed /\ Running(t)
  BY <1>1, <1>2, NamedBefore DEF Running
<1>4. /\ \A u \in Turns : Running(u) => u = t
      /\ \A n \in Tokens : given[n] # {} => turn[t].back[n] # NoValue
      /\ \A u \in Turns : Answered(u) => turn[u].shown # NoValue
  BY <1>3 DEF HistoryInv, Remembered
<1>5. \A u \in Turns : Running(u)' => u = t
  BY <1>1, <1>4 DEF Running
<1>6. \A u \in Turns : Answered(u)' => turn'[u].shown # NoValue
  BY <1>1, <1>2, <1>4 DEF Answered
<1>7. QED
  BY <1>1, <1>4, <1>5, <1>6

LEMMA CallIsRemembered ==
  ASSUME HistoryInv, NEW t \in Turns, CallUpstream(t)
  PROVE  Remembered'
<1>1. turn[t].at = "saved" /\ UNCHANGED <<saved, given, lossless>> /\ TypeOK /\ turn[t] \in Turn
  BY DEF CallUpstream, HistoryInv, OwnInv, TypeOK
<1>2. turn[t].code \notin {"ok", "refused"}
  BY <1>1 DEF HistoryInv, OwnInv, Sound
<1>3. /\ \A u \in Turns : u # t => turn'[u] = turn[u]
      /\ turn'[t].named = turn[t].named /\ turn'[t].at # "new" /\ turn'[t].code \notin {"ok", "refused"}
      /\ turn'[t].at = "done" \/ turn'[t].back = turn[t].back
  <2>1. CASE turn' = [turn EXCEPT ![t] = Over(t, "bad_gateway", "error")]
    BY <1>1, <2>1, OverIsTurn DEF TypeOK
  <2>2. ASSUME NEW p \in Visible(t),
               turn' = [turn EXCEPT ![t].at = "sent", ![t].answer = p.token, ![t].meant = p.value]
        PROVE  /\ \A u \in Turns : u # t => turn'[u] = turn[u]
               /\ turn'[t].named = turn[t].named /\ turn'[t].at = "sent" /\ turn'[t].code = turn[t].code
               /\ turn'[t].back = turn[t].back
    BY <1>1, <2>2 DEF TypeOK, Turn
  <2>3. QED
    BY <1>2, <2>1, <2>2 DEF CallUpstream
<1>4. AllNamed' => AllNamed
  BY <1>3, NamedBefore
<1>5. QED
  BY <1>1, <1>3, <1>4, StaysRemembered DEF HistoryInv, Running, Answered

LEMMA RestoreIsRemembered ==
  ASSUME HistoryInv, NEW t \in Turns, RestoreResponse(t)
  PROVE  Remembered'
<1>1. /\ turn[t].at = "sent" /\ UNCHANGED <<saved, given, lossless>> /\ TypeOK /\ turn[t] \in Turn
      /\ turn' = [turn EXCEPT ![t] = With(t, turn[t].back[turn[t].answer])]
  BY DEF RestoreResponse, HistoryInv, OwnInv, TypeOK
<1>2. /\ \A u \in Turns : u # t => turn'[u] = turn[u]
      /\ turn'[t].named = turn[t].named /\ turn'[t].at = "done" /\ turn'[t].code = "ok"
      /\ turn'[t].answer = turn[t].answer /\ turn'[t].shown = Put(turn[t].back[turn[t].answer])
  BY <1>1, OverIsTurn DEF TypeOK, With, Turn
<1>3. turn'[t].answer \in Tokens /\ given[turn'[t].answer] # {}
  BY <1>1, <1>2, RestoreIsSound DEF HistoryInv, OwnInv, Sound, Restored, Answered
<1>4. AllNamed' => AllNamed
  BY <1>2, NamedBefore
<1>5. QED
  BY <1>1, <1>2, <1>3, <1>4, StaysRemembered DEF HistoryInv, Running

LEMMA NextIsRemembered == HistoryInv /\ [Next]_vars => HistoryInv'
<1> SUFFICES ASSUME HistoryInv, [Next]_vars PROVE HistoryInv'
  OBVIOUS
<1>1. OwnInv'
  BY NextIsSound DEF HistoryInv
<1>2. ASSUME NEW t \in Turns, Refuse(t) \/ FailAnswer(t)
      PROVE  Remembered'
  <2>1. PICK code \in {"refused", "unread", "rejected"}, audit \in {"none", "error"} :
          /\ turn' = [turn EXCEPT ![t] = Over(t, code, audit)]
          /\ turn[t].at = "new" \/ (turn[t].at = "sent" /\ code # "refused")
    BY <1>2, Zenon DEF Refuse, FailAnswer
  <2>2. TypeOK /\ UNCHANGED <<saved, given, lossless>>
    BY <1>2 DEF HistoryInv, OwnInv, Refuse, FailAnswer
  <2>3. /\ \A u \in Turns : u # t => turn'[u] = turn[u]
        /\ turn'[t].named = turn[t].named /\ turn'[t].at = "done" /\ turn'[t].code = code
    BY <2>1, <2>2, OverIsTurn DEF TypeOK
  <2>4. AllNamed' => AllNamed
    BY <2>1, <2>3, NamedBefore
  <2>5. QED
    BY <2>1, <2>2, <2>3, <2>4, StaysRemembered DEF HistoryInv, Running, Answered
<1>3. ASSUME LoseRecord
      PROVE  Remembered'
  BY <1>3 DEF LoseRecord, Remembered
<1>4. ASSUME UNCHANGED vars
      PROVE  Remembered'
  BY <1>4 DEF vars, HistoryInv, Remembered, AllNamed, Running, Answered
<1>5. Remembered'
  BY <1>2, <1>3, <1>4, LoadIsRemembered, MaskIsRemembered, SaveIsRemembered, CallIsRemembered, RestoreIsRemembered
     DEF Next, Proceed
<1>6. QED
  BY <1>1, <1>5 DEF HistoryInv

\* README.md and TestProxyConversationRestore: what stands for one value in the whole
\* dialogue comes back in every answer, as long as the turns come one by one, name
\* the dialogue, and the record is neither lost nor left unwritten.
THEOREM EarlierValuesComeBack == Spec => []HistoryComesBack
<1>1. Init => HistoryInv
  BY InitIsSound, InitIsRemembered DEF HistoryInv
<1>2. Spec => []HistoryInv
  BY <1>1, NextIsRemembered, PTL DEF Spec
<1>3. HistoryInv /\ OwnValuesComeBack => HistoryComesBack
  BY DEF HistoryInv, Remembered, AllNamed, HistoryComesBack, OwnValuesComeBack, NothingMadeUp
<1>4. QED
  BY <1>2, <1>3, MaskedValuesComeBack, PTL
=============================================================================
