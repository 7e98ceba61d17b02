------------------------------- MODULE Dates -------------------------------
(***************************************************************************)
(* internal/pii/detect_date.go, detect_date_words.go and                   *)
(* detect_date_context.go: which dates of a text are dates of birth or of  *)
(* issue.  A date is written in numbers, with the month in words, or as a  *)
(* single year of birth; the words around it and the mode of the detector  *)
(* decide what it is.                                                      *)
(*                                                                         *)
(* A text is a sequence of items: numbers as Doc!DigitRuns finds them,     *)
(* words one space apart, and marks, which follow an item without a space. *)
(* A group of a number is its length and value; gaps[g] is the character   *)
(* after group g.                                                          *)
(***************************************************************************)
LOCAL INSTANCE Integers
LOCAL INSTANCE Sequences
LOCAL INSTANCE SequencesExt
LOCAL INSTANCE FiniteSets
LOCAL INSTANCE FiniteSetsExt

ThisYear == 2026
MinYear == 1900
MaxDay == 31

AnchorWindow == 48
SuffixWindow == 24
DocWindow == 120
PIIWindow == 80
NegWindow == 40
NeighbourDigitsMin == 10

-----------------------------------------------------------------------------
(* Months and numbers in words.                                             *)

\* Some of the months, letter by letter, as words of three letters and more.
MonthWords == [march |-> 3, mar |-> 3, maya |-> 5, avgust |-> 8, avg |-> 8]
Spelling == [march |-> <<"m", "a", "r", "c", "h">>, mar |-> <<"m", "a", "r">>, maya |-> <<"m", "a", "y", "a">>,
             avgust |-> <<"a", "v", "g", "u", "s", "t">>, avg |-> <<"a", "v", "g">>]
FuzzyMin == 5
PrefixRunes == 3

\* dateFirstDiff: where two words part, or 0 (the first may not be the shorter).
FirstDiff(a, b) ==
  LET diffs == {i \in DOMAIN a : i > Len(b) \/ a[i] # b[i]}
  IN IF diffs = {} THEN 0 ELSE Min(diffs)

After(word, i) == SubSeq(word, i + 1, Len(word))

OneReplace(a, b) == \A i, j \in DOMAIN a : a[i] # b[i] /\ a[j] # b[j] => i = j

OneSwap(a, b) ==
  LET i == FirstDiff(a, b)
  IN /\ i # 0 /\ i < Len(a)
     /\ a[i] = b[i + 1] /\ a[i + 1] = b[i]
     /\ OneReplace(After(a, i + 1), After(b, i + 1))

\* Mutant of OneSkip: the letters after the one left out are not compared.
OneSkipOfAny(long, short) == Len(long) = Len(short) + 1 /\ FirstDiff(SubSeq(long, 1, Len(short)), short) # 0

OneSkip(long, short) ==
  LET i == FirstDiff(SubSeq(long, 1, Len(short)), short)
  IN i = 0 \/ After(long, i) = After(short, i - 1)

\* dateNearWord: equal, or one letter apart: another, missing, added or exchanged.
NearWord(a, b) ==
  CASE Len(a) = Len(b) -> OneReplace(a, b) \/ OneSwap(a, b)
    [] Len(a) = Len(b) + 1 -> OneSkip(a, b)
    [] Len(b) = Len(a) + 1 -> OneSkip(b, a)
    [] OTHER -> FALSE

\* dateMonth: the number of the month a word names, 0 if none.
Month(word) ==
  LET exact == {w \in DOMAIN MonthWords : Spelling[w] = word}
      near == {w \in DOMAIN MonthWords : /\ Len(Spelling[w]) >= FuzzyMin
                                         /\ SubSeq(Spelling[w], 1, PrefixRunes) = SubSeq(word, 1, PrefixRunes)
                                         /\ NearWord(word, Spelling[w])}
  IN IF exact # {} THEN MonthWords[CHOOSE w \in exact : TRUE]
     ELSE IF Len(word) >= FuzzyMin /\ near # {} THEN MonthWords[CHOOSE w \in near : TRUE]
     ELSE 0

NumberWords == [first |-> 1, fifth |-> 5, twelfth |-> 12, twenty |-> 20, two |-> 2, eighty |-> 80, nineHundred |-> 900, hundred |-> 100]

\* dateWordNumber: a thousand multiplies what stands before it and was not yet used.
WordNumber(words) ==
  LET Add(n, w) ==
        IF w = "thousand" THEN [total |-> n.total + (IF n.pending = 0 THEN 1 ELSE n.pending) * 1000, pending |-> 0]
        ELSE [n EXCEPT !.pending = @ + NumberWords[w]]
      sum == FoldLeft(Add, [total |-> 0, pending |-> 0], words)
  IN sum.total + sum.pending

-----------------------------------------------------------------------------
(* The calendar.                                                            *)

\* Mutant of IsLeap: the Julian rule.
IsLeapJulian(year) == year % 4 = 0

IsLeap(year) == year % 4 = 0 /\ (year % 100 # 0 \/ year % 400 = 0)

DaysInMonth(month, year) ==
  CASE month \in {1, 3, 5, 7, 8, 10, 12} -> 31
    [] month \in {4, 6, 9, 11} -> 30
    [] month = 2 -> IF IsLeap(year) THEN 29 ELSE 28
    [] OTHER -> 0

ValidDayMonth(day, month, year) == month \in 1..12 /\ day \in 1..DaysInMonth(month, year)

YearPlausible(year) == year \in MinYear..ThisYear

\* dateYearValue: a year of two digits that has not come yet is of the last century.
YearOf(g) ==
  IF g.len = 2 THEN (IF g.value <= ThisYear % 100 THEN 2000 ELSE 1900) + g.value ELSE g.value

Group(len, value) == [len |-> len, value |-> value]

\* Three groups make a date, in one order of day and month or the other.
PlausibleParts(a, b, c) ==
  LET year == IF a.len = 4 THEN a ELSE c
      x == IF a.len = 4 THEN b.value ELSE a.value
      y == IF a.len = 4 THEN c.value ELSE b.value
  IN YearPlausible(YearOf(year)) /\ (ValidDayMonth(x, y, YearOf(year)) \/ ValidDayMonth(y, x, YearOf(year)))

\* Four digits of the year at one end, or two at the last; more is asked of spaces.
GroupLengths(a, b, c, spaced) ==
  IF spaced THEN <<a.len, b.len, c.len>> \in {<<2, 2, 4>>, <<4, 2, 2>>}
  ELSE \/ a.len = 4 /\ b.len \in 1..2 /\ c.len \in 1..2
       \/ a.len \in 1..2 /\ b.len \in 1..2 /\ c.len \in {2, 4}

DateSeparators == {".", "/", "-"}

\* dateTripleShape of the groups from g on: the same separator twice.
TripleShape(x, g) ==
  /\ x.gaps[g] = x.gaps[g + 1] /\ x.gaps[g] \in DateSeparators \cup {" "}
  /\ GroupLengths(x.groups[g], x.groups[g + 1], x.groups[g + 2], x.gaps[g] = " ")
  /\ PlausibleParts(x.groups[g], x.groups[g + 1], x.groups[g + 2])

\* Eight digits in a row: day first, or year first.
CompactPlausible(v) ==
  \/ PlausibleParts(Group(2, v \div 1000000), Group(2, (v \div 10000) % 100), Group(4, v % 10000))
  \/ PlausibleParts(Group(4, v \div 10000), Group(2, (v \div 100) % 100), Group(2, v % 100))

-----------------------------------------------------------------------------
(* The text.                                                                *)

\* A word of every kind the detector tells apart, by the lists it is in.  An anchor
\* torn by a space is still one; some say only that a single year is of birth.
Lists ==
  [born |-> {"birth", "birthYear"}, birthday |-> {"birth"}, rod |-> {"birthYear"}, torn |-> {"tornBirth"}, tornIssued |-> {"tornIssue"},
   issued |-> {"issue"}, passport |-> {"doc", "pii"}, mvd |-> {"doc"}, client |-> {"pii"}, paid |-> {"negative"},
   plain |-> {}, long |-> {}]
NumberWord(w) == w = "thousand" \/ w \in DOMAIN NumberWords

IsNum(x) == x.t = "num"
IsMark(x) == x.t = "mark"
IsWord(x, list) == x.t = "word" /\ x.w \in DOMAIN Lists /\ list \in Lists[x.w]
IsNumberWord(x) == x.t = "word" /\ NumberWord(x.w)
Breaks(x) == x.t = "mark" /\ x.m = "nl"

Width(x) ==
  CASE x.t = "num" -> FoldLeft(LAMBDA n, g : n + g.len, 0, x.groups) + Len(x.groups) - 1 + (IF x.ordinal THEN 3 ELSE 0)
    [] x.t = "word" -> IF x.w = "long" THEN 45 ELSE 6
    [] x.t = "month" -> Len(x.letters)
    [] x.t = "mark" -> 1

\* Letters have two bytes; windows are in runes, distances in bytes.
Bytes(x) == IF x.t \in {"word", "month"} THEN 2 * Width(x) ELSE Width(x)

\* Where item i starts: a mark right after the item before it.
Place(text, i, W(_)) ==
  FoldLeftDomain(LAMBDA at, k : IF k > i THEN at ELSE at + (IF k > 1 THEN W(text[k - 1]) + (IF IsMark(text[k]) THEN 0 ELSE 1) ELSE 0),
                 0, text)
GroupPlace(x, g) == FoldLeft(LAMBDA n, y : n + y.len + 1, 0, SubSeq(x.groups, 1, g - 1))

\* A place in a text is a group of a number or a word.
From(text, p, W(_)) == Place(text, p[1], W) + (IF IsNum(text[p[1]]) THEN GroupPlace(text[p[1]], p[2]) ELSE 0)
To(text, p, W(_)) == From(text, p, W) + (IF IsNum(text[p[1]]) THEN text[p[1]].groups[p[2]].len ELSE W(text[p[1]]))

Fragment(from, to) == [from |-> from, to |-> to]

\* The groups of digits in a fragment.
DigitsOf(text, s) ==
  {p \in {<<i, g>> : i \in {i \in DOMAIN text : IsNum(text[i])}, g \in 1..5} :
     p[2] \in DOMAIN text[p[1]].groups /\ From(text, p, Width) >= From(text, s.from, Width) /\ To(text, p, Width) <= To(text, s.to, Width)}

Overlaps(text, s, other) ==
  From(text, s.from, Width) < To(text, other.to, Width) /\ From(text, other.from, Width) < To(text, s.to, Width)

WithinLine(text, s) == \A k \in s.from[1]..s.to[1] : ~Breaks(text[k])

-----------------------------------------------------------------------------
(* What a date is, by what stands around it.                                *)

Before(text, s, list, window) ==
  {k \in 1..(s.from[1] - 1) : IsWord(text[k], list) /\ Place(text, k, Width) >= From(text, s.from, Width) - window}
Behind(text, s, list, window) ==
  {k \in (s.to[1] + 1)..Len(text) : IsWord(text[k], list) /\ Place(text, k, Width) + Width(text[k]) <= To(text, s.to, Width) + window}

Distances(text, s, list, window) ==
  {From(text, s.from, Bytes) - (Place(text, k, Bytes) + Bytes(text[k])) : k \in Before(text, s, list, window)}
  \cup {Place(text, k, Bytes) - To(text, s.to, Bytes) : k \in Behind(text, s, list, SuffixWindow)}

\* dateAnchorDistance: to the nearest anchor, 0 to one torn by a space, -1 if none.
AnchorDistance(text, s, list, torn, window) ==
  LET whole == Distances(text, s, list, window)
  IN IF whole # {} THEN Min(whole)
     ELSE IF Before(text, s, torn, window) # {} THEN 0 ELSE -1

\* Mutant of ExplicitAnchor: a word of birth wins from any distance.
ExplicitAnchorOfBirth(text, s) ==
  CASE AnchorDistance(text, s, "birth", "tornBirth", AnchorWindow) >= 0 -> "DOB"
    [] AnchorDistance(text, s, "issue", "tornIssue", AnchorWindow) >= 0 -> "ISSUE_DATE"
    [] OTHER -> ""

\* The nearer of the anchors of birth and of issue, birth of equal ones.
ExplicitAnchor(text, s) ==
  LET birth == AnchorDistance(text, s, "birth", "tornBirth", AnchorWindow)
      issue == AnchorDistance(text, s, "issue", "tornIssue", AnchorWindow)
  IN CASE birth >= 0 /\ (issue < 0 \/ birth <= issue) -> "DOB"
       [] issue >= 0 /\ (birth < 0 \/ issue < birth) -> "ISSUE_DATE"
       [] birth < 0 /\ issue < 0 -> ""

\* dateByAnchor: or a document spoken of before.
ByAnchor(text, s) ==
  IF ExplicitAnchor(text, s) # "" THEN ExplicitAnchor(text, s)
  ELSE IF Before(text, s, "doc", DocWindow) # {} THEN "ISSUE_DATE" ELSE ""

HasNegative(text, s) == Before(text, s, "negative", NegWindow) \cup Behind(text, s, "negative", SuffixWindow) # {}

\* dateNeighbourDigits: of every number the window touches, but those of the date.
NeighbourDigits(text, s) ==
  LET near == {i \in DOMAIN text : /\ IsNum(text[i])
                                   /\ Place(text, i, Width) + Width(text[i]) > From(text, s.from, Width) - PIIWindow
                                   /\ Place(text, i, Width) < To(text, s.to, Width) + PIIWindow}
      others == (UNION {{<<i, g>> : g \in DOMAIN text[i].groups} : i \in near}) \ DigitsOf(text, s)
  IN FoldSet(LAMBDA p, n : n + text[p[1]].groups[p[2]].len, 0, others)

HasPIIContext(text, s) ==
  \/ Before(text, s, "pii", PIIWindow) \cup Behind(text, s, "pii", PIIWindow) # {}
  \/ NeighbourDigits(text, s) >= NeighbourDigitsMin

KnownMode(mode) == IF mode \in {"anchor_only", "any"} THEN mode ELSE "pii_context"

\* Mutant of ByContext: the two modes that look no anchor for exchanged.
ByContextExchanged(text, s, mode) ==
  (KnownMode(mode) = "pii_context") \/ (KnownMode(mode) = "any" /\ HasPIIContext(text, s))

\* byContext: a date without an anchor is of birth, or nobody's.
ByContext(text, s, mode) ==
  (KnownMode(mode) = "any") \/ (KnownMode(mode) = "pii_context" /\ HasPIIContext(text, s))

\* classify: the fragment with its type, or nothing.
Classify(text, s, mode) ==
  LET type == ByAnchor(text, s)
      found == IF type # "" THEN type ELSE IF ~HasNegative(text, s) /\ ByContext(text, s, mode) THEN "DOB" ELSE ""
  IN IF found = "" \/ ~WithinLine(text, s) THEN <<>> ELSE <<[from |-> s.from, to |-> s.to, type |-> found]>>

-----------------------------------------------------------------------------
(* Dates in numbers.                                                        *)

CompactDate(text, i) ==
  LET s == Fragment(<<i, 1>>, <<i, 1>>)
      g == text[i].groups[1]
  IN IF g.len = 8 /\ CompactPlausible(g.value) /\ WithinLine(text, s) /\ ExplicitAnchor(text, s) # ""
     THEN <<[from |-> s.from, to |-> s.to, type |-> ExplicitAnchor(text, s)]>> ELSE <<>>

\* runDates: threes from left to right that do not overlap, taken for a date or not.
RunDates(text, i, mode) ==
  LET x == text[i]
      Step(acc, g) ==
        IF g < acc.next \/ g + 2 > Len(x.groups) \/ ~TripleShape(x, g) THEN acc
        ELSE [next |-> g + 3, spans |-> acc.spans \o Classify(text, Fragment(<<i, g>>, <<i, g + 2>>), mode)]
  IN IF Len(x.groups) = 1 THEN CompactDate(text, i)
     ELSE FoldLeftDomain(Step, [next |-> 1, spans |-> <<>>], x.groups).spans

\* numericDates: a plus begins a telephone number.
NumericDates(text, mode) ==
  FoldLeftDomain(LAMBDA out, i : IF IsNum(text[i]) /\ ~text[i].plus THEN out \o RunDates(text, i, mode) ELSE out, <<>>, text)

-----------------------------------------------------------------------------
(* Dates in words.  A place found is a sequence of one, or empty.           *)

Spacers == {",", "."}

\* Only marks that may stand between the parts of a date, at most so many.
MarksOnly(text, from, to, most) == to - from <= most /\ \A k \in from..(to - 1) : IsMark(text[k]) /\ text[k].m \in Spacers

\* dateDayTokenBefore: the last group of the number before the month.
DayTokenBefore(text, m) ==
  LET nums == {k \in 1..(m - 1) : IsNum(text[k]) /\ \A j \in (k + 1)..(m - 1) : IsMark(text[j])}
      k == Max(nums)
      g == Len(text[k].groups)
  IN IF nums # {} /\ text[k].groups[g].len <= 2 /\ (~text[k].ordinal \/ k = m - 1) /\ MarksOnly(text, k + 1, m, 5)
     THEN <<<<k, g>>>> ELSE <<>>

\* dateDigitTokenAfter: the next group of digits, if of a length and near enough; only
\* a year is looked for so far that a mark may stand in between.
DigitTokenAfter(text, p, lengths, marks) ==
  LET inside == IsNum(text[p[1]]) /\ p[2] < Len(text[p[1]].groups)
      nums == {k \in (p[1] + 1)..Len(text) : IsNum(text[k]) /\ \A j \in (p[1] + 1)..(k - 1) : IsMark(text[j])}
      next == IF inside THEN <<p[1], p[2] + 1>> ELSE <<Min(nums), 1>>
  IN IF ~inside /\ nums = {} THEN <<>>
     ELSE IF /\ text[next[1]].groups[next[2]].len \in lengths
             /\ IF inside THEN text[p[1]].gaps[p[2]] \in {" ", ".", "-"}
                ELSE ~(IsNum(text[p[1]]) /\ text[p[1]].ordinal) /\ MarksOnly(text, p[1] + 1, next[1], IF marks THEN 3 ELSE 0)
     THEN <<next>> ELSE <<>>

\* dateWordsBefore, dateWordsAfter: the number words next to a place, so many at most.
WordsBefore(text, m, most) ==
  {k \in 1..(m - 1) : /\ IsNumberWord(text[k])
                      /\ \A j \in k..(m - 1) : IsNumberWord(text[j]) \/ (IsMark(text[j]) /\ text[j].m \in Spacers)
                      /\ Cardinality({j \in k..(m - 1) : IsNumberWord(text[j])}) <= most}
WordsAfter(text, p, most) ==
  IF IsNum(text[p[1]]) /\ (p[2] < Len(text[p[1]].groups) \/ text[p[1]].ordinal) THEN {}
  ELSE {k \in (p[1] + 1)..Len(text) : /\ IsNumberWord(text[k])
                                      /\ \A j \in (p[1] + 1)..k : IsNumberWord(text[j]) \/ (IsMark(text[j]) /\ text[j].m \in Spacers)
                                      /\ Cardinality({j \in (p[1] + 1)..k : IsNumberWord(text[j])}) <= most}

ValueOf(text, words) ==
  WordNumber(FoldLeftDomain(LAMBDA ws, i : IF i \in words THEN Append(ws, text[i].w) ELSE ws, <<>>, text))

\* dateDayBefore: where the date starts, and its day; in digits before in words.
DayBefore(text, m) ==
  LET token == DayTokenBefore(text, m)
      words == WordsBefore(text, m, 2)
  IN CASE token # <<>> -> <<[at |-> token[1], value |-> text[token[1][1]].groups[token[1][2]].value]>>
       [] token = <<>> /\ words # {} /\ ValueOf(text, words) \in 1..MaxDay -> <<[at |-> <<Min(words), 1>>, value |-> ValueOf(text, words)]>>
       [] OTHER -> <<>>

\* dateYearAfter: a plausible year of four digits, or else in words.
YearAfter(text, p) ==
  LET token == DigitTokenAfter(text, p, {4}, TRUE)
      value == text[token[1][1]].groups[token[1][2]].value
      words == WordsAfter(text, p, 4)
  IN CASE token # <<>> /\ YearPlausible(value) -> <<[at |-> token[1], value |-> value]>>
       [] ~(token # <<>> /\ YearPlausible(value)) /\ words # {} /\ YearPlausible(ValueOf(text, words)) ->
            <<[at |-> <<Max(words), 1>>, value |-> ValueOf(text, words)]>>
       [] OTHER -> <<>>

WordDateSpan(text, from, to, day, month, year, mode) ==
  IF ValidDayMonth(day, month, year) THEN Classify(text, Fragment(from, to), mode) ELSE <<>>

\* dayFirstDate, monthFirstDate: the fragment, or nothing.
DayFirstDate(text, m, month, mode) ==
  LET day == DayBefore(text, m)
      year == YearAfter(text, <<m, 1>>)
  IN IF day = <<>> \/ year = <<>> THEN <<>>
     ELSE WordDateSpan(text, day[1].at, year[1].at, day[1].value, month, year[1].value, mode)

MonthFirstDate(text, m, month, mode) ==
  LET day == DigitTokenAfter(text, <<m, 1>>, 1..2, FALSE)
      year == YearAfter(text, day[1])
  IN IF day = <<>> \/ year = <<>> THEN <<>>
     ELSE WordDateSpan(text, <<m, 1>>, year[1].at, text[day[1][1]].groups[day[1][2]].value, month, year[1].value, mode)

MonthAt(x) == IF x.t = "month" THEN Month(x.letters) ELSE 0

\* wordDates: about every month, the day first or else the month.
WordDates(text, mode) ==
  LET At(m) ==
        IF MonthAt(text[m]) = 0 THEN <<>>
        ELSE IF DayFirstDate(text, m, MonthAt(text[m]), mode) # <<>> THEN DayFirstDate(text, m, MonthAt(text[m]), mode)
        ELSE MonthFirstDate(text, m, MonthAt(text[m]), mode)
  IN FoldLeftDomain(LAMBDA out, m : out \o At(m), <<>>, text)

-----------------------------------------------------------------------------
(* Single years.                                                            *)

IsBirthYear(text, i) ==
  LET s == Fragment(<<i, 1>>, <<i, 1>>)
  IN /\ IsNum(text[i]) /\ ~text[i].plus /\ Len(text[i].groups) = 1
     /\ text[i].groups[1].len = 4 /\ YearPlausible(text[i].groups[1].value)
     /\ WithinLine(text, s)
     /\ AnchorDistance(text, s, "birthYear", "tornBirth", SuffixWindow) >= 0

\* Mutant of BirthYears: a year of a whole date is taken again.
BirthYearsAgain(text, found) ==
  FoldLeftDomain(LAMBDA out, i : IF IsBirthYear(text, i) THEN Append(out, [from |-> <<i, 1>>, to |-> <<i, 1>>, type |-> "DOB"]) ELSE out,
                 <<>>, text)

\* birthYears: a year of birth that is in no date found before.
BirthYears(text, found) ==
  LET Taken(i) == \E k \in DOMAIN found : Overlaps(text, Fragment(<<i, 1>>, <<i, 1>>), found[k])
  IN FoldLeftDomain(LAMBDA out, i : IF IsBirthYear(text, i) /\ ~Taken(i)
                                    THEN Append(out, [from |-> <<i, 1>>, to |-> <<i, 1>>, type |-> "DOB"]) ELSE out,
                    <<>>, text)

Detect(text, mode) ==
  LET found == NumericDates(text, mode) \o WordDates(text, mode)
  IN found \o BirthYears(text, found)
=============================================================================
