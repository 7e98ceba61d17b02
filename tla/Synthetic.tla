------------------------------ MODULE Synthetic ------------------------------
(***************************************************************************)
(* internal/mask/synthetic.go: a value is replaced by another that could   *)
(* be true: of the same shape, with a checksum that fits, a name of the    *)
(* same sex; and the checksums of internal/pii/helpers.go that the         *)
(* detectors ask for.                                                      *)
(*                                                                         *)
(* A character is a number: 0..9 are the digits, 10 to 19 signs (Plus, At, *)
(* Star and a separator), 32 and more letters, see Letter.  A word of a    *)
(* name is a stem and an ending, so that it can be declined.               *)
(***************************************************************************)
LOCAL INSTANCE Integers
LOCAL INSTANCE Sequences
LOCAL INSTANCE SequencesExt
LOCAL INSTANCE FiniteSetsExt

IsDigit(c) == c \in 0..9
Plus == 11
At == 12
Star == 13

\* Letters of an alphabet, in one case: Cyrillic has 32 of them, Latin 26.
Letter(alphabet, upper, n) == (CASE alphabet = "cyr" -> 1000 [] alphabet = "lat" -> 2000) + (IF upper THEN 100 ELSE 0) + n
IsLetter(c) == c >= 1000
Cyrillic(c) == c \in 1000..1999
IsUpper(c) == (c % 1000) >= 100

-----------------------------------------------------------------------------
(* The generator, of SeedSpace numbers instead of 2^64.                     *)

SeedSpace == 1024
NextRand(seed) == (seed * 13 + 7) % SeedSpace

RandomDigits(n, seed) ==
  LET seeds[i \in 1..n] == IF i = 1 THEN seed ELSE NextRand(seeds[i - 1])
  IN [i \in 1..n |-> seeds[i] % 10]

DigitsOnly(value) == SelectSeq(value, IsDigit)

\* rebuildDigits: the digits in turn, all else stays.
RebuildDigits(value, digits) ==
  [i \in DOMAIN value |-> IF IsDigit(value[i]) THEN digits[Len(DigitsOnly(SubSeq(value, 1, i)))] ELSE value[i]]

\* A Cyrillic letter takes two numbers, the first of them for nothing.
SyntheticGeneric(value, seed) ==
  LET Put(acc, c) ==
        CASE IsDigit(c) -> [out |-> Append(acc.out, acc.seed % 10), seed |-> NextRand(acc.seed)]
          [] IsLetter(c) /\ Cyrillic(c) ->
               [out |-> Append(acc.out, Letter("cyr", IsUpper(c), NextRand(acc.seed) % 32)), seed |-> NextRand(NextRand(acc.seed))]
          [] IsLetter(c) /\ ~Cyrillic(c) ->
               [out |-> Append(acc.out, Letter("lat", IsUpper(c), acc.seed % 26)), seed |-> NextRand(acc.seed)]
          [] OTHER -> [acc EXCEPT !.out = Append(@, c)]
  IN FoldLeft(Put, [out |-> <<>>, seed |-> seed], value).out

-----------------------------------------------------------------------------
(* Checksums: how they are made, and how they are checked.                  *)

\* The digits of twice a digit, added up.
Doubled(d) == IF 2 * d > 9 THEN 2 * d - 9 ELSE 2 * d

\* Every second digit counts double, the last one if doubleLast.
LuhnSum(digits, doubleLast) ==
  LET Counts(i) == IF ((Len(digits) - i) % 2 = 0) = doubleLast THEN Doubled(digits[i]) ELSE digits[i]
  IN FoldLeftDomain(LAMBDA sum, i : sum + Counts(i), 0, digits)

Luhn(digits) == Len(digits) \in 12..19 /\ LuhnSum(digits, FALSE) % 10 = 0

\* Mutant of LuhnCheckDigit: the last digit is not doubled, as if it were the whole number.
LuhnCheckDigitOfWhole(digits) == (10 - (LuhnSum(digits, FALSE) % 10)) % 10

LuhnCheckDigit(digits) == (10 - (LuhnSum(digits, TRUE) % 10)) % 10

InnWeights10 == <<2, 4, 10, 3, 5, 9, 4, 6, 8>>
InnWeights11 == <<7, 2, 4, 10, 3, 5, 9, 4, 6, 8>>
InnWeights12 == <<3, 7, 2, 4, 10, 3, 5, 9, 4, 6, 8>>

InnCheckDigit(digits, weights) == (FoldLeftDomain(LAMBDA sum, i : sum + digits[i] * weights[i], 0, weights) % 11) % 10

INNValid(digits) ==
  \/ Len(digits) = 10 /\ InnCheckDigit(digits, InnWeights10) = digits[10]
  \/ Len(digits) = 12 /\ InnCheckDigit(digits, InnWeights11) = digits[11] /\ InnCheckDigit(digits, InnWeights12) = digits[12]

SnilsSum(digits) ==
  LET sum == FoldLeft(LAMBDA sum, i : sum + digits[i] * (10 - i), 0, [i \in 1..9 |-> i]) % 101
  IN IF sum = 100 THEN 0 ELSE sum

SNILSValid(digits) == Len(digits) = 11 /\ SnilsSum(digits) = 10 * digits[10] + digits[11]

SyntheticCard(value, seed) ==
  LET total == Len(DigitsOnly(value))
      prefix == IF seed % 2 = 1 THEN <<5, 5, 5, 5>> ELSE <<4, 1, 1, 1>>
      body == prefix \o RandomDigits(total - 5, seed)
  IN IF total < 12 THEN SyntheticGeneric(value, seed)
     ELSE RebuildDigits(value, Append(body, LuhnCheckDigit(body)))

SyntheticINN(value, seed) ==
  LET n == Len(DigitsOnly(value))
      first == RandomDigits(n - 1, seed)
      ten == SubSeq(first, 1, 10)
      eleven == Append(ten, InnCheckDigit(ten, InnWeights11))
  IN IF n = 10 THEN RebuildDigits(value, Append(first, InnCheckDigit(first, InnWeights10)))
     ELSE IF n = 12 THEN RebuildDigits(value, Append(eleven, InnCheckDigit(eleven, InnWeights12)))
     ELSE SyntheticGeneric(value, seed)

SyntheticSNILS(value, seed) ==
  LET first == RandomDigits(9, seed)
  IN IF Len(DigitsOnly(value)) # 11 THEN SyntheticGeneric(value, seed)
     ELSE RebuildDigits(value, first \o <<SnilsSum(first) \div 10, SnilsSum(first) % 10>>)

-----------------------------------------------------------------------------
(* Other values with digits.                                                *)

\* splitDigitRuns: the lengths of the runs of digits.
RunStarts(value) == {i \in DOMAIN value : IsDigit(value[i]) /\ (i = 1 \/ ~IsDigit(value[i - 1]))}
RunEnd(value, i) == Max({j \in i..Len(value) : \A k \in i..j : IsDigit(value[k])})
FirstRun(value) == LET i == Min(RunStarts(value)) IN RunEnd(value, i) - i + 1

CountryLen(value) ==
  CASE value[1] = Plus -> IF Len(SetToSeq(RunStarts(value))) = 1 THEN 1 ELSE FirstRun(value)
    [] value[1] # Plus /\ Len(DigitsOnly(value)) >= 11 /\ DigitsOnly(value)[1] = 8 -> 1
    [] OTHER -> 0

\* The code of the country stays, then a code of no operator.
SyntheticPhone(value, seed) ==
  LET all == DigitsOnly(value)
      kept == CountryLen(value)
      rest == Len(all) - kept
      digits == SubSeq(all, 1, kept) \o (IF rest >= 3 THEN <<9, 0, 0>> \o RandomDigits(rest - 3, seed) ELSE RandomDigits(rest, seed))
  IN IF RunStarts(value) = {} THEN [i \in DOMAIN value |-> Star] ELSE RebuildDigits(value, digits)

\* The name before the sign, on a domain that is nobody's.
ExampleCom == <<Letter("lat", FALSE, 4)>>
SyntheticEmail(value, seed) ==
  LET at == CHOOSE i \in DOMAIN value : value[i] = At /\ \A j \in 1..(i - 1) : value[j] # At
      Put(acc, c) ==
        CASE IsDigit(c) -> [out |-> Append(acc.out, acc.seed % 10), seed |-> NextRand(acc.seed)]
          [] IsLetter(c) -> [out |-> Append(acc.out, Letter("lat", FALSE, acc.seed % 26)), seed |-> NextRand(acc.seed)]
          [] OTHER -> [acc EXCEPT !.out = Append(@, c)]
  IN IF At \notin ToSet(value) THEN [i \in DOMAIN value |-> Star]
     ELSE FoldLeft(Put, [out |-> <<>>, seed |-> seed], SubSeq(value, 1, at - 1)).out \o <<At>> \o ExampleCom

\* The numbers a date of so many runs of digits gets; any further one the year.
SyntheticDate(runs, seed) ==
  LET two == <<(seed % 12) + 1, 1950 + ((seed \div 12) % 56)>>
  IN CASE runs = 0 -> <<>>
       [] runs = 1 -> <<1950 + (seed % 56)>>
       [] runs = 2 -> two
       [] runs >= 3 -> LET year == 1950 + ((seed \div 336) % 56)
                       IN <<(seed % 28) + 1, ((seed \div 28) % 12) + 1>> \o [k \in 1..(runs - 2) |-> year]

SyntheticValue(value, type, seed) ==
  CASE type = "PHONE" -> SyntheticPhone(value, seed)
    [] type = "EMAIL" -> SyntheticEmail(value, seed)
    [] type = "CARD" -> SyntheticCard(value, seed)
    [] type = "INN" -> SyntheticINN(value, seed)
    [] type = "SNILS" -> SyntheticSNILS(value, seed)
    [] type = "POSTCODE" -> RandomDigits(Len(DigitsOnly(value)), seed)
    [] OTHER -> SyntheticGeneric(value, seed)

-----------------------------------------------------------------------------
(* Names.                                                                   *)

\* Some of the dictionaries; a word is <<stem, ending>>.
MaleNames == <<<<"aleksandr", "">>, <<"ivan", "">>, <<"il'", "ya">>, <<"nikit", "a">>>>
FemaleNames == <<<<"aleksandr", "a">>, <<"mari", "ya">>>>
Surnames == <<<<"petr", "ov">>, <<"petr", "ovsky">>, <<"koval", "enko">>>>
MalePatronymics == <<<<"ivanov", "ich">>, <<"il'", "ich">>>>
FemalePatronymics == <<<<"ivano", "vna">>>>
LatinNames == <<<<"ivan", "lat">>>>
LatinSurnames == <<<<"petrov", "lat">>>>

Pick(list, seed) == list[(seed % Len(list)) + 1]

Feminine == [e \in {"ov", "ovsky"} |-> CASE e = "ov" -> "ova" [] e = "ovsky" -> "ovskaya"]

FeminineSurname(w) == IF w[2] \in DOMAIN Feminine THEN <<w[1], Feminine[w[2]]>> ELSE w

IsInitial(w) == w[2] = "."
InitialsOf(w) == <<w[1], ".">>
IsLatin(words) == \A i \in DOMAIN words : words[i][2] = "lat"

\* By the patronymic, by a name of the dictionary, by the surname, in this order.
FioGender(words) ==
  LET Ends(ends) == \E i \in DOMAIN words : words[i][2] \in ends
      Named(names) == \E i \in DOMAIN words : words[i] \in ToSet(names)
  IN CASE Ends({"ich", "vna"}) -> IF Ends({"ich"}) THEN "male" ELSE "female"
       [] ~Ends({"ich", "vna"}) /\ (Named(MaleNames) \/ Named(FemaleNames)) -> IF Named(MaleNames) THEN "male" ELSE "female"
       [] OTHER -> IF Ends({"ova", "ovskaya"}) THEN "female" ELSE "male"

SurnameFor(gender, seed) ==
  IF gender = "female" THEN FeminineSurname(Pick(Surnames, seed)) ELSE Pick(Surnames, seed)

PickGivenName(gender, seed) == IF gender = "female" THEN Pick(FemaleNames, seed) ELSE Pick(MaleNames, seed)
PickPatronymic(gender, seed) == IF gender = "female" THEN Pick(FemalePatronymics, seed) ELSE Pick(MalePatronymics, seed)

SyntheticLatinFIO(words, seed) ==
  [i \in DOMAIN words |->
     IF IsInitial(words[i]) THEN InitialsOf(Pick(LatinNames, seed + i - 1))
     ELSE IF i = 1 THEN Pick(LatinSurnames, seed) ELSE Pick(LatinNames, seed + i - 1)]

\* As many words as there were, up to three; initials only after a surname.
SyntheticFIO(words, seed) ==
  LET g == FioGender(words)
      full == <<SurnameFor(g, seed), PickGivenName(g, seed + 1), PickPatronymic(g, seed + 2)>>
  IN IF IsLatin(words) THEN SyntheticLatinFIO(words, seed)
     ELSE IF Len(words) >= 2 /\ IsInitial(Last(words))
     THEN <<Pick(Surnames, seed)>> \o [i \in 1..(Len(words) - 1) |-> InitialsOf(PickGivenName(g, seed + i))]
     ELSE SubSeq(full, 1, Len(words))

Genitive == [e \in {"ovsky", "ovskaya", "ova", "vna", "a", "ya"} |->
  CASE e = "ovsky" -> "ovskogo" [] e = "ovskaya" -> "ovskoy" [] e = "ova" -> "ovoy"
    [] e = "vna" -> "vny" [] e = "a" -> "y" [] e = "ya" -> "i"]
Dative == [e \in {"ovsky", "ovskaya", "ova", "vna", "a", "ya"} |->
  CASE e = "ovsky" -> "ovskomu" [] e = "ovskaya" -> "ovskoy" [] e = "ova" -> "ovoy"
    [] e = "vna" -> "vne" [] e \in {"a", "ya"} -> "e"]

\* What has no rule of its own gets an ending more.
DeclineWord(w, case) ==
  LET table == IF case = "gen" THEN Genitive ELSE Dative
  IN <<w[1], IF w[2] \in DOMAIN table THEN table[w[2]] ELSE w[2] \o (IF case = "gen" THEN "a" ELSE "u")>>

Declined(words, case) == [i \in DOMAIN words |-> DeclineWord(words[i], case)]

\* Mutant of DeclineVariants: names of any length.
DeclineVariantsOfAny(words) == {Declined(words, "gen"), Declined(words, "dat")}

DeclineVariants(words) == IF Len(words) # 3 THEN {} ELSE {Declined(words, "gen"), Declined(words, "dat")}
=============================================================================
