------------------------------ MODULE Numbers ------------------------------
(***************************************************************************)
(* internal/pii/detect_numeric.go: which numbers of a text are personal    *)
(* data, and of what type.  A number is judged by the lengths of its       *)
(* groups, by its checksums, and by the words around it: anchors within a  *)
(* window, and words that speak against it in the same sentence.           *)
(*                                                                         *)
(* A text is a sequence of items one space apart: numbers as Doc!DigitRuns *)
(* finds them, words by the lists of anchors they belong to, and marks.    *)
(* An item keeps its width, since windows are measured in runes.           *)
(***************************************************************************)
LOCAL INSTANCE Integers
LOCAL INSTANCE Sequences
LOCAL INSTANCE SequencesExt
LOCAL INSTANCE FiniteSetsExt

-----------------------------------------------------------------------------
(* Words and the lists they are in.                                         *)

Lists ==
  [passport |-> {"passport", "strict", "strong"}, issued |-> {"passport"},
   number |-> {"passport", "connector"}, card |-> {"card", "strong"}, phone |-> {"phone", "strong"},
   inn |-> {"inn", "strong", "notPassport"}, snils |-> {"snils", "strong"}, driver |-> {"driver", "strong"},
   subdivision |-> {"dept", "deptWide", "strong"}, index |-> {"postcode", "strong"},
   address |-> {"addressLead", "addressWord"}, street |-> {"addressWord"}, cvv |-> {"cvv"}, pin |-> {"pin"},
   money |-> {"money"}, order |-> {"service"}, contract |-> {"service", "notPassport"}, kpp |-> {"service", "kpp", "notPassport"},
   student |-> {"otherDoc"}, typoPassport |-> {"fuzzyPassport"}, typoPhone |-> {"fuzzyPhone"},
   typoDept |-> {"fuzzyDept"}, typoIndex |-> {"fuzzyIndex"},
   typoCVV |-> {"fuzzyCVV"}, typoPIN |-> {"fuzzyPIN"}, series |-> {"abbrev", "connector"}, plain |-> {}]

WordWidth == [w \in DOMAIN Lists |->
                CASE w \in {"subdivision", "typoDept"} -> 13
                  [] w \in {"passport", "typoPassport", "typoPhone", "phone", "contract", "driver", "student"} -> 8
                  [] w = "plain" -> 16 [] w = "series" -> 2
                  [] OTHER -> 5]

AnchorWindow == 40
NearAnchorWindow == 24
ServiceWindow == 60
AddressTailWindow == 70

IsNum(x) == x.t = "num"
IsWord(x, list) == x.t = "word" /\ list \in Lists[x.w]

Digits(x) == FoldLeft(LAMBDA n, g : n + g, 0, x.groups)

ItemWidth(x) == CASE x.t = "num" -> Digits(x) + Len(x.groups) - 1
                  [] x.t = "word" -> WordWidth[x.w]
                  [] x.t = "mark" -> 1

\* Where item i starts and ends.
Start(text, i) == FoldLeft(LAMBDA at, x : at + ItemWidth(x) + 1, 0, SubSeq(text, 1, i - 1))
End(text, i) == Start(text, i) + ItemWidth(text[i])

\* Doc.FindAnchor: a word of the list in the window around items i to j.
Around(text, i, j, list, before, after) ==
  \E k \in DOMAIN text : /\ IsWord(text[k], list)
                         /\ Start(text, k) >= Start(text, i) - before
                         /\ End(text, k) <= End(text, j) + after

AnchorAt(text, i, list) == Around(text, i, i, list, AnchorWindow, AnchorWindow \div 2)

\* Doc.AnchorBefore: within the window, and no digits in between.
AnchorBefore(text, i, list, window) ==
  \E k \in 1..(i - 1) : /\ IsWord(text[k], list)
                        /\ Start(text, k) >= Start(text, i) - window
                        /\ \A m \in (k + 1)..(i - 1) : ~IsNum(text[m])

AnchorNear(text, i, list) == AnchorBefore(text, i, list, NearAnchorWindow)

AnchorAfter(text, i, list) ==
  \E k \in (i + 1)..Len(text) : IsWord(text[k], list) /\ End(text, k) <= End(text, i) + NearAnchorWindow

FuzzyBefore(text, i, list) ==
  \E k \in 1..(i - 1) : IsWord(text[k], list) /\ Start(text, k) >= Start(text, i) - NearAnchorWindow

HasWordAround(text, i) ==
  \E k \in DOMAIN text : /\ text[k].t = "word"
                         /\ End(text, k) > Start(text, i) - AnchorWindow
                         /\ Start(text, k) < End(text, i) + AnchorWindow \div 2

Money(text, i) == Around(text, i, i, "money", AnchorWindow, 10)

\* sentenceHead: the items before i in its sentence, no further than the window.
SentenceHead(text, i) ==
  {k \in 1..(i - 1) : /\ Start(text, k) >= Start(text, i) - ServiceWindow
                      /\ \A m \in k..(i - 1) : ~(text[m].t = "mark" /\ text[m].m \in {".", "nl"})}

InHead(text, i, list) == {k \in SentenceHead(text, i) : IsWord(text[k], list)}

\* Mutant of Service: a personal word after the service one is not minded.
ServiceAlways(text, i) == InHead(text, i, "service") # {}

\* serviceNumberContext: a number of paperwork, unless a personal word comes
\* after the service one, or the passport is named within the window.
Service(text, i) ==
  LET words == InHead(text, i, "service")
  IN /\ words # {}
     /\ \A k \in InHead(text, i, "strong") : k < Max(words)
     /\ ~Around(text, i, i, "strict", ServiceWindow, -ItemWidth(text[i]))

NotPassport(text, i) == InHead(text, i, "notPassport") \cup InHead(text, i, "otherDoc") # {}

-----------------------------------------------------------------------------
(* The rules, each with its own shape.                                      *)

DottedGroups(x) == Len(x.groups) >= 4 /\ x.dots /\ Digits(x) <= 12

PhoneShape(x) ==
  \/ x.plus /\ Digits(x) \in 10..15
  \/ Digits(x) = 11 /\ x.lead \in {"7", "8"}
  \/ Digits(x) = 10 /\ Len(x.groups) >= 3

TollFree(x) == Digits(x) = 11 /\ x.lead \in {"7", "8"} /\ x.tollFree

MatchPhone(text, i) ==
  /\ PhoneShape(text[i]) /\ ~TollFree(text[i])
  /\ \/ AnchorAt(text, i, "phone") \/ text[i].plus \/ text[i].lead \in {"7", "8"}
     \/ AnchorAt(text, i, "fuzzyPhone")

\* Mutant of MatchCard: the words of the sentence are not minded.
MatchCardAlone(text, i) ==
  /\ Digits(text[i]) \in 13..19
  /\ AnchorAt(text, i, "card") \/ "luhn" \in text[i].sums \/ text[i].groups = <<4, 4, 4, 4>>

MatchCard(text, i) ==
  /\ Digits(text[i]) \in 13..19
  /\ \/ AnchorAt(text, i, "card")
     \/ /\ ~Service(text, i) /\ ~Money(text, i)
        /\ "luhn" \in text[i].sums \/ text[i].groups = <<4, 4, 4, 4>>

MatchSNILS(text, i) ==
  \/ Digits(text[i]) \in 10..12 /\ AnchorAt(text, i, "snils")
  \/ text[i].groups = <<3, 3, 3, 2>> /\ "snils" \in text[i].sums

FollowedByKPP(text, i) ==
  \E k \in (i + 1)..Len(text) :
    /\ IsWord(text[k], "kpp") /\ End(text, k) <= End(text, i) + 24
    /\ \A m \in (i + 1)..k : ~(text[m].t = "mark" /\ text[m].m \in {".", "nl"})

PassportPattern(x) == x.groups \in {<<4, 6>>, <<2, 2, 6>>}

MatchINN(text, i) ==
  LET x == text[i] IN
  \/ Digits(x) \in {11, 13} /\ AnchorAt(text, i, "inn")
  \/ /\ Digits(x) \in {10, 12}
     /\ IF AnchorAt(text, i, "inn") THEN ~(Digits(x) = 10 /\ FollowedByKPP(text, i))
        ELSE /\ ~(PassportPattern(x) /\ AnchorAt(text, i, "passport"))
             /\ "inn" \in x.sums /\ ~Money(text, i) /\ ~Service(text, i)

PassportShape(x) == x.groups \in {<<4, 6>>, <<2, 2, 6>>, <<10>>, <<4, 2, 4>>}

MatchPassportShape(text, i) ==
  /\ PassportShape(text[i])
  /\ IF AnchorAt(text, i, "passport") THEN InHead(text, i, "otherDoc") = {}
     ELSE \/ AnchorAt(text, i, "fuzzyPassport")
          \/ /\ ~NotPassport(text, i)
             /\ \/ PassportPattern(text[i])
                \/ text[i].groups = <<10>> /\ ~Money(text, i) /\ HasWordAround(text, i)

MatchPassport(text, i) ==
  /\ ~Service(text, i)
  /\ \/ MatchPassportShape(text, i)
     \/ Digits(text[i]) \in 9..11 /\ AnchorNear(text, i, "strict")

MatchDriver(text, i) == text[i].groups \in {<<2, 2, 6>>, <<10>>} /\ AnchorAt(text, i, "driver")

DeptPrefix(x) == Len(x.groups) >= 2 /\ x.groups[1] = 3 /\ x.groups[2] = 3

\* deptSuffixBounds: the last pair of threes, or the last group of six.
DeptSuffix(x) ==
  LET pairs == {i \in 2..Len(x.groups) : x.groups[i - 1] = 3 /\ x.groups[i] = 3}
      sixes == {i \in DOMAIN x.groups : x.groups[i] = 6}
  IN IF Len(x.groups) < 2 THEN {}
     ELSE IF pairs # {} THEN {Max(pairs) - 1, Max(pairs)}
     ELSE IF sixes # {} THEN {Max(sixes)} ELSE {}

DeptBefore(text, i) ==
  \/ AnchorNear(text, i, "dept") \/ AnchorBefore(text, i, "deptWide", AnchorWindow)

MatchDept(text, i) ==
  /\ Digits(text[i]) \in {5, 6} \/ DeptPrefix(text[i]) \/ DeptSuffix(text[i]) # {}
  /\ \/ DeptBefore(text, i) \/ AnchorAfter(text, i, "dept") \/ FuzzyBefore(text, i, "fuzzyDept")
     \/ text[i].groups = <<3, 3>> /\ AnchorAt(text, i, "passport")

\* The groups of the number that are the code: the number may hold another too.
DeptGroups(text, i) ==
  LET x == text[i] IN
  IF ~DeptBefore(text, i) /\ AnchorAfter(text, i, "dept")
  THEN IF DeptSuffix(x) # {} THEN DeptSuffix(x) ELSE DOMAIN x.groups
  ELSE IF DeptPrefix(x) THEN {1, 2} ELSE DOMAIN x.groups

InAddressTail(text, i) ==
  /\ i > 1 /\ text[i - 1].t = "mark" /\ text[i - 1].m = ","
  /\ \E k \in 1..(i - 1) : /\ IsWord(text[k], "addressWord")
                           /\ Start(text, k) >= Start(text, i) - AddressTailWindow
                           /\ \A m \in k..(i - 1) : ~(text[m].t = "mark" /\ text[m].m = "nl")

MatchPostcode(text, i) ==
  /\ Digits(text[i]) = 6
  /\ \/ AnchorNear(text, i, "postcode") \/ AnchorAfter(text, i, "postcode")
     \/ AnchorNear(text, i, "addressLead") \/ InAddressTail(text, i) \/ FuzzyBefore(text, i, "fuzzyIndex")

MatchPIN(text, i) == Digits(text[i]) \in 2..5 /\ (AnchorNear(text, i, "pin") \/ AnchorAfter(text, i, "pin"))
MatchCVV(text, i) ==
  Digits(text[i]) \in 3..5 /\ (AnchorNear(text, i, "cvv") \/ AnchorAfter(text, i, "cvv") \/ FuzzyBefore(text, i, "fuzzyCVV"))
MatchPINTypo(text, i) == Digits(text[i]) \in 3..5 /\ FuzzyBefore(text, i, "fuzzyPIN")

Rules(text, i) ==
  <<[type |-> "PHONE", fits |-> MatchPhone(text, i)], [type |-> "CARD", fits |-> MatchCard(text, i)],
    [type |-> "SNILS", fits |-> MatchSNILS(text, i)], [type |-> "INN", fits |-> MatchINN(text, i)],
    [type |-> "DRIVER_LICENSE", fits |-> MatchDriver(text, i)], [type |-> "PASSPORT", fits |-> MatchPassport(text, i)],
    [type |-> "DEPT_CODE", fits |-> MatchDept(text, i)], [type |-> "POSTCODE", fits |-> MatchPostcode(text, i)],
    [type |-> "PIN", fits |-> MatchPIN(text, i)], [type |-> "CVV", fits |-> MatchCVV(text, i)],
    [type |-> "PIN", fits |-> MatchPINTypo(text, i)]>>

\* numericDetector.classify: the first rule that fits, or none.
Classify(text, i) ==
  LET fitting == SelectSeq(Rules(text, i), LAMBDA r : r.fits)
  IN IF DottedGroups(text[i]) \/ fitting = <<>> THEN "" ELSE Head(fitting).type

-----------------------------------------------------------------------------
(* Numbers written in parts.                                                *)

\* onlyConnectors, and the width of what stands between two numbers.
Gap(text, i, j) == Start(text, j) - End(text, i)
OnlyConnectors(text, i, j) ==
  \A k \in (i + 1)..(j - 1) : IsWord(text[k], "connector") \/ (text[k].t = "mark" /\ text[k].m \in {",", "."})

NextNum(text, i) == LET next == {k \in (i + 1)..Len(text) : IsNum(text[k])} IN IF next = {} THEN 0 ELSE Min(next)

\* collectDigits of at most two parts: where a group of that many digits ends, or 0.
CollectDigits(text, i, want) ==
  LET j == NextNum(text, i)
  IN IF Digits(text[i]) = want THEN i
     ELSE IF /\ Digits(text[i]) < want /\ j # 0
             /\ Gap(text, i, j) <= 3 /\ OnlyConnectors(text, i, j)
             /\ \A k \in (i + 1)..(j - 1) : ~(text[k].t = "mark" /\ text[k].m = ".")
             /\ Digits(text[i]) + Digits(text[j]) = want
     THEN j ELSE 0

\* joinPassportParts: the number that ends the passport begun at i, or 0.  (The code
\* looks at the number after the next as well, and in vain: what stands between
\* holds the digits of the next one then, and they are no connectors.)
JoinPassportParts(text, i) ==
  LET seriesEnd == CollectDigits(text, i, 4)
      Fits(j) == /\ j # 0 /\ OnlyConnectors(text, seriesEnd, j) /\ Gap(text, seriesEnd, j) <= 24
                 /\ \A k \in seriesEnd..j : ~(text[k].t = "mark" /\ text[k].m = "nl")
      j == NextNum(text, seriesEnd)
      named == \/ Around(text, i, seriesEnd, "passport", AnchorWindow, AnchorWindow)
               \/ i > 1 /\ IsWord(text[i - 1], "abbrev")
  IN IF Service(text, i) \/ seriesEnd = 0 THEN 0
     ELSE IF ~named THEN 0
     ELSE IF Fits(j) THEN CollectDigits(text, j, 6) ELSE 0

DatePrefixes == <<<<4, 2, 2>>, <<2, 2, 4>>, <<2, 2, 2>>, <<4>>, <<2, 1, 4>>, <<1, 2, 4>>, <<1, 1, 4>>>>
PassportTails == {<<4, 6>>, <<2, 2, 6>>, <<10>>}

\* splitDatePassport: how many groups are the date before a passport, or 0.  (The
\* code cuts the rest at a number sign, which is then left open; digits are not.)
DatePrefixLen(x) ==
  LET fits == {k \in DOMAIN DatePrefixes :
                 /\ IsPrefix(DatePrefixes[k], x.groups)
                 /\ SubSeq(x.groups, Len(DatePrefixes[k]) + 1, Len(x.groups)) \in PassportTails}
      n == Len(DatePrefixes[Min(fits)])
  IN IF Len(x.groups) < 3 \/ fits = {} \/ (n = 1 /\ ~x.year) THEN 0 ELSE n

JoinSplitPIN(text, i) ==
  LET j == NextNum(text, i)
  IN IF j # 0 /\ Digits(text[j]) = 2 /\ Gap(text, i, j) <= 8 /\ OnlyConnectors(text, i, j) THEN j ELSE 0

Whole(text, i, j, type) == [from |-> i, to |-> j, groups |-> DOMAIN text[j].groups, type |-> type]

\* appendRunSpans: what number i starts, and the last number it takes.
RunSpans(text, i) ==
  LET x == text[i]
      j == IF Digits(x) \in 2..4 THEN JoinPassportParts(text, i) ELSE 0
      date == DatePrefixLen(x)
      type == Classify(text, i)
      second == IF type = "PIN" /\ Digits(x) = 2 THEN JoinSplitPIN(text, i) ELSE 0
  IN CASE j # 0 -> [spans |-> <<Whole(text, i, j, "PASSPORT")>>, last |-> j]
       [] j = 0 /\ date # 0 ->
            [spans |-> <<[from |-> i, to |-> i, groups |-> (date + 1)..Len(x.groups), type |-> "PASSPORT"]>>, last |-> i]
       [] j = 0 /\ date = 0 /\ type = "" -> [spans |-> <<>>, last |-> 0]
       [] j = 0 /\ date = 0 /\ type = "DEPT_CODE" ->
            [spans |-> <<[from |-> i, to |-> i, groups |-> DeptGroups(text, i), type |-> type]>>, last |-> i]
       [] j = 0 /\ date = 0 /\ type \notin {"", "DEPT_CODE"} ->
            IF second # 0 THEN [spans |-> <<Whole(text, i, i, type), Whole(text, second, second, "PIN")>>, last |-> second]
            ELSE [spans |-> <<Whole(text, i, i, type)>>, last |-> i]

\* Mutant of Detect: only the ends of a joined number are marked as used.
DetectAgain(text) ==
  FoldLeftDomain(LAMBDA acc, i : IF ~IsNum(text[i]) \/ i \in acc.used THEN acc
                   ELSE LET r == RunSpans(text, i)
                        IN [spans |-> acc.spans \o r.spans, used |-> acc.used \cup {r.last}],
                 [spans |-> <<>>, used |-> {}], text).spans

Detect(text) ==
  FoldLeftDomain(LAMBDA acc, i : IF ~IsNum(text[i]) \/ i \in acc.used THEN acc
                   ELSE LET r == RunSpans(text, i)
                        IN [spans |-> acc.spans \o r.spans, used |-> acc.used \cup (i..r.last)],
                 [spans |-> <<>>, used |-> {}], text).spans
=============================================================================
