---------------------------- MODULE DetectorLaws ----------------------------
(***************************************************************************)
(* What must hold of the dates found in a text (Dates) and of the          *)
(* fragments taken off as nobody's personal data (Context).                *)
(***************************************************************************)
EXTENDS Algorithms

Dates == INSTANCE Dates
Rules == INSTANCE Context

-----------------------------------------------------------------------------
(* Dates (internal/pii/detect_date.go and the files beside it).             *)

Modes == <<"anchor_only", "pii_context", "any">>

DateKinds == {"dates", "wordDates"}

DatesIn(text, mode) == ToSet(Dates!Detect(text, mode))

DigitsMasked(text, mode) == UNION {Dates!DigitsOf(text, s) : s \in DatesIn(text, mode)}

\* A looser mode masks all the dates a stricter one does: a year that stands alone
\* may become part of a whole date, but no digit of it comes open (byContext).
ModesOnlyAdd ==
  kind \in DateKinds => \A m \in 1..2 : DigitsMasked(input, Modes[m]) \subseteq DigitsMasked(input, Modes[m + 1])

\* The text with words that say nothing in place of the lists.
Neutral(text) == [i \in DOMAIN text |-> IF text[i].t = "word" /\ text[i].w \in DOMAIN Dates!Lists \ {"long"} THEN [t |-> "word", w |-> "plain"] ELSE text[i]]

\* A date with a word of birth or of issue near is masked in every mode, whatever
\* words of payments stand nearer, and its type is that of the nearest such word
\* (classify, dateExplicitAnchor).
NearestAnchorDecides ==
  kind \in DateKinds =>
    \A s \in DatesIn(Neutral(input), "any"), mode \in ToSet(Modes) :
      LET To(list) == Dates!Distances(input, s, list, Dates!AnchorWindow)
          near == To("birth") \cup To("issue")
          torn == \E list \in {"tornBirth", "tornIssue"} : Dates!Before(input, s, list, Dates!AnchorWindow) # {}
      IN near # {} /\ ~torn =>
           [s EXCEPT !.type = IF Min(near) \in To("birth") THEN "DOB" ELSE "ISSUE_DATE"] \in DatesIn(input, mode)

\* A year reported alone is in no date reported, of whatever type (birthYears).
YearsStandAlone ==
  kind \in DateKinds =>
    \A mode \in ToSet(Modes) : \A s, other \in DatesIn(input, mode) :
      s # other /\ s.from = s.to => ~Dates!Overlaps(input, s, other)

\* What a word becomes when one letter is exchanged for another, left out or added.
Slips(word) ==
  LET n == Len(word)
  IN {ReplaceAt(word, i, x) : i \in 1..n, x \in {"a", "b", "c"}} \cup {RemoveAt(word, i) : i \in 1..n}
     \cup {InsertAt(word, i, x) : i \in 1..(n + 1), x \in {"a", "b", "c"}}

\* When two neighbours change places, and perhaps a later letter is another.
Swaps(word) ==
  LET n == Len(word)
      Swapped(i) == ReplaceAt(ReplaceAt(word, i, word[i + 1]), i + 1, word[i])
  IN {Swapped(i) : i \in 1..(n - 1)}
     \cup UNION {{ReplaceAt(Swapped(i), j, x) : j \in (i + 2)..n, x \in {"a", "b", "c"}} : i \in 1..(n - 1)}

\* A month is known with one letter other, missing or added, or with two neighbours
\* exchanged, and is not known from further off (dateNearWord).
OneSlipIsForgiven ==
  kind = "words" =>
    LET bars == {i \in DOMAIN input : input[i] = "|"}
        a == SubSeq(input, 1, Min(bars) - 1)
        b == SubSeq(input, Min(bars) + 1, Len(input))
    IN Cardinality(bars) = 1 => (Dates!NearWord(a, b) <=> b \in {a} \cup Slips(a) \cup Swaps(a))

\* Four hundred years have as many days as the calendar gives them, so that no day
\* is masked for a date that never was, nor one that was left out (dateDaysInMonth).
CalendarIsGregorian ==
  kind = "words" /\ input = <<>> =>
    Cardinality({d \in (1900..2299) \X (1..12) \X (1..31) : Dates!ValidDayMonth(d[3], d[2], d[1])}) = 146097

-----------------------------------------------------------------------------
(* Context (internal/pii/context.go).                                       *)

Everything == [publicFigures |-> TRUE, orgAddresses |-> TRUE]

Reasons == Rules!Apply(input, Everything)

\* A name goes as that of a known person only where nothing tells of a client, in
\* the end: in its paragraph no word of banking stands, and no fragment but names
\* and towns stays masked, whatever the other passes took off before or after.
ClientsStayMasked ==
  kind = "persons" =>
    \A i \in DOMAIN Reasons : Reasons[i] = "public_figure" =>
      \A k \in Rules!Paragraph(input, i) :
        /\ ~Rules!IsWord(input[k], "bank")
        /\ k \in DOMAIN Reasons /\ Reasons[k] = "" => input[k].type \in {"FIO", "BIRTH_PLACE"}

\* The nearest word to the left that tells what a number is decides: a number
\* stays masked after a word of personal data even where orders, servers or
\* companies are spoken of before it, and no further than the window goes the other
\* way (leftAnchorWins).
NearestWordDecides ==
  kind = "references" =>
    \A i \in DOMAIN Reasons :
      LET near == {k \in 1..(i - 1) : Rules!Start(input, k) >= Rules!Start(input, i) - Rules!RefWindow
                                      /\ \E list \in {"ref", "network", "requisite", "pii"} : Rules!IsWord(input[k], list)}
          last == input[Max(near)]
      IN ~input[i].ip =>
           IF near = {} \/ Rules!IsWord(last, "pii") THEN Reasons[i] = ""
           ELSE Rules!IsWord(last, IF input[i].type = "IP_ADDRESS" THEN "network" ELSE "ref") => Reasons[i] = "reference_number"

\* Every word of an organisation takes off one address with its parts, never two,
\* and none of a sentence that speaks of its owner (markOrgAddresses).
OneAddressForAWord ==
  kind = "addresses" =>
    LET off == {i \in DOMAIN Reasons : Reasons[i] = "org_address"}
        words == {k \in DOMAIN input : Rules!IsWord(input[k], "org")}
    IN /\ \A i \in off : \A k \in Rules!Sentence(input, i) : ~Rules!IsWord(input[k], "personal")
       /\ \E owners \in SUBSET off :
            /\ Cardinality(owners) <= Cardinality(words)
            /\ \A i \in off \ owners : \E o \in owners : Rules!SameOrgAddress(input, o, i)

-----------------------------------------------------------------------------
\* A date is masked by the words around it, no digit of it twice, and every looser
\* mode adds to a stricter one; a month with a slip of the pen is a month, and the
\* days are those of the calendar (dateDetector).
DatesAreJudged ==
  [][Run =>
       /\ ModesOnlyAdd
       /\ NearestAnchorDecides
       /\ YearsStandAlone
       /\ OneSlipIsForgiven
       /\ CalendarIsGregorian]_vars

\* What the context takes off is nobody's: the client's names, the number named on
\* its left and the second of two addresses stay masked (context.go).
ContextSparesClients ==
  [][Run => ClientsStayMasked /\ NearestWordDecides /\ OneAddressForAWord]_vars
=============================================================================
