------------------------------- MODULE Context -------------------------------
(***************************************************************************)
(* internal/pii/context.go and context_words.go: what looks like personal  *)
(* data and is not.  Names of known people, addresses of organisations,    *)
(* streets called after people, numbers of orders and of companies, and    *)
(* what a system allows are taken off the fragments found.                 *)
(*                                                                         *)
(* A text is a sequence of items one space apart: words, each of some of   *)
(* the lists, marks, and fragments.  A window that cuts a word does not    *)
(* see it.                                                                 *)
(***************************************************************************)
LOCAL INSTANCE Integers
LOCAL INSTANCE Sequences
LOCAL INSTANCE SequencesExt
LOCAL INSTANCE FiniteSets
LOCAL INSTANCE FiniteSetsExt

\* A word of every kind the rules tell apart, by the lists it is in.
Lists ==
  [poet |-> {"role"}, who |-> {"question"}, imeni |-> {"role", "street"}, street |-> {"street"},
   order |-> {"ref"}, server |-> {"ref", "network"}, ogrn |-> {"requisite"}, passport |-> {"pii", "bank"},
   phone |-> {"pii"}, account |-> {"bank"}, client |-> {"pii", "bank", "personal"}, yours |-> {"personal"},
   office |-> {"org"}, abbr |-> {"abbr"}, long |-> {}, plain |-> {}]

FigureWindow == 80
OrgWindow == 80
StreetWindow == 15
LeftPenalty == 8
SentencePenalty == 16
RefWindow == 40
ReqWindow == 12
ChainWindow == 12

IsWord(x, list) == x.t = "word" /\ list \in Lists[x.w]
IsMark(x) == x.t = "mark"
IsSpan(x) == x.t = "span"

\* The years of a life in brackets; an address of a network; a noun that looks
\* like a surname; a value the lists of the system allow.
IsLifeYears(x) == x.t = "years"
IsIPv4(x) == x.ip
IsCommonWord(x) == x.name = "noun"
IsAllowed(x) == x.allowed

HasDigits(x) == IsLifeYears(x) \/ (IsSpan(x) /\ x.digits)

Width(x) == CASE x.t = "mark" -> 1 [] x.t = "years" -> 11 [] x.t = "span" -> 10
              [] OTHER -> IF x.w = "long" THEN 60 ELSE 6

Start(text, i) == FoldLeft(LAMBDA at, x : at + Width(x) + 1, 0, SubSeq(text, 1, i - 1))
End(text, i) == Start(text, i) + Width(text[i])

Spans(text) == {i \in DOMAIN text : IsSpan(text[i])}

\* Something in the window around an item, or left of it.
Around(text, i, window, Is(_)) ==
  \E k \in DOMAIN text : Is(text[k]) /\ Start(text, k) >= Start(text, i) - window /\ End(text, k) <= End(text, i) + window
LeftOf(text, i, window, list) ==
  {k \in 1..(i - 1) : IsWord(text[k], list) /\ Start(text, k) >= Start(text, i) - window}

-----------------------------------------------------------------------------
(* Paragraphs and sentences.                                                *)

\* The items about an item up to those that end a stretch.
Stretch(i, ends, last) ==
  LET before == {k \in ends : k < i}
      after == {k \in ends : k >= i}
  IN ((IF before = {} THEN 0 ELSE Max(before)) + 1)..(IF after = {} THEN last ELSE Min(after))

Paragraph(text, i) == Stretch(i, {k \in DOMAIN text : text[k] = [t |-> "mark", m |-> "para"]}, Len(text))

\* A stop ends no sentence after an abbreviation, nor before a small letter or a digit.
SentenceBreak(text, k) ==
  /\ IsMark(text[k])
  /\ text[k].m = "." => /\ ~(k > 1 /\ IsWord(text[k - 1], "abbr"))
                        /\ k < Len(text) => IsMark(text[k + 1]) \/ (IsSpan(text[k + 1]) /\ ~text[k + 1].digits)

Sentence(text, i) == Stretch(i, {k \in DOMAIN text : SentenceBreak(text, k)}, Len(text))

\* The rule of birth places takes every stop for the end of a sentence.
PlainSentence(text, i) == Stretch(i, {k \in DOMAIN text : IsMark(text[k])}, Len(text))

-----------------------------------------------------------------------------
(* Names.  reasons[i] says why the fragment i is taken off, "" that it is   *)
(* not.                                                                     *)

BankingType(type) == type \notin {"FIO", "BIRTH_PLACE", "CITIZENSHIP"}

\* Mutant of CleanParagraph: what comes later in the text is not looked at.
CleanParagraphSoFar(text, i, reasons) ==
  \A k \in Paragraph(text, i) :
    /\ ~IsWord(text[k], "bank")
    /\ ~(k < i /\ IsSpan(text[k]) /\ reasons[k] = "" /\ BankingType(text[k].type))

\* Neither a word of banking, nor another fragment that speaks of documents.
CleanParagraph(text, i, reasons) ==
  \A k \in Paragraph(text, i) :
    /\ ~IsWord(text[k], "bank")
    /\ ~(k # i /\ IsSpan(text[k]) /\ reasons[k] = "" /\ BankingType(text[k].type))

HasRole(text, i) == Around(text, i, FigureWindow, LAMBDA x : IsWord(x, "role") \/ IsLifeYears(x))
HasQuestion(text, i) == Around(text, i, FigureWindow, LAMBDA x : IsWord(x, "question"))

\* A name and a surname of the dictionary; the surname alone if it is rare and asked about.
KnownFigure(name, question) == name = "full" \/ (question /\ name = "rare")

IsPublicFigure(text, i, reasons) ==
  CleanParagraph(text, i, reasons) /\ (HasRole(text, i) \/ KnownFigure(text[i].name, HasQuestion(text, i)))

IsStreetName(text, i) == LeftOf(text, i, StreetWindow, "street") # {}

FioRules(text, i, reasons, options) ==
  IF IsCommonWord(text[i]) THEN "common_word"
  ELSE IF IsStreetName(text, i) THEN "street_name"
  ELSE IF options.publicFigures /\ IsPublicFigure(text, i, reasons) THEN "public_figure"
  ELSE ""

-----------------------------------------------------------------------------
(* Numbers.                                                                 *)

LastOf(found) == IF found = {} THEN 0 ELSE Max(found)

\* Mutant of LeftAnchorWins: that a word of the list is there is enough.
LeftAnchorWinsAny(text, i, window, list) == LeftOf(text, i, window, list) # {}

\* The nearest word to the left is of the list, none of personal data nearer.
LeftAnchorWins(text, i, window, list) ==
  LastOf(LeftOf(text, i, window, list)) > LastOf(LeftOf(text, i, window, "pii"))

\* A word of an order is none of a network address, only one of a server is.
NumberRules(text, i) ==
  IF LeftAnchorWins(text, i, ReqWindow, "requisite") THEN "org_requisites"
  ELSE IF LeftAnchorWins(text, i, RefWindow, IF text[i].type = "IP_ADDRESS" THEN "network" ELSE "ref") THEN "reference_number"
  ELSE ""

ReferenceType(type) == type \in {"PASSPORT", "CARD", "INN", "PHONE", "SNILS", "CVV", "PIN", "POSTCODE", "ACCOUNT", "IP_ADDRESS"}

TypeRules(text, i, reasons, options) ==
  IF text[i].type # "IP_ADDRESS" /\ IsIPv4(text[i]) THEN "network_address"
  ELSE IF text[i].type = "FIO" THEN FioRules(text, i, reasons, options)
  ELSE IF ReferenceType(text[i].type) THEN NumberRules(text, i)
  ELSE ""

-----------------------------------------------------------------------------
(* Addresses.                                                               *)

\* In runes, between an item and another.
Distance(text, i, j) == IF i < j THEN Start(text, j) - End(text, i) ELSE Start(text, i) - End(text, j)

\* How far an address is from a word of an organisation: more if it stands
\* before the word, more if in another sentence.
Score(text, h, i) ==
  Distance(text, h, i) + (IF i < h THEN LeftPenalty ELSE 0) + (IF i \notin Sentence(text, h) THEN SentencePenalty ELSE 0)

\* Mutant of OwnerAddress: all addresses near enough.
OwnerAddressAll(text, h, addrs) == {i \in addrs : Distance(text, h, i) <= OrgWindow}

\* The address a word speaks of: the nearest, of equal ones the first.
OwnerAddress(text, h, addrs) ==
  {i \in addrs : /\ Distance(text, h, i) <= OrgWindow
                 /\ \A j \in addrs \ {i} : Distance(text, h, j) <= OrgWindow =>
                      Score(text, h, i) < Score(text, h, j) \/ (Score(text, h, i) = Score(text, h, j) /\ i < j)}

HasPersonalAnchor(text, i) == \E k \in Sentence(text, i) : IsWord(text[k], "personal")

\* Two parts of one address: close, in one sentence, nothing personal between.
SameOrgAddress(text, i, j) ==
  /\ Distance(text, i, j) <= ChainWindow
  /\ j \in Sentence(text, i)
  /\ \A k \in (Min({i, j}) + 1)..(Max({i, j}) - 1) :
       ~HasDigits(text[k]) /\ ~IsWord(text[k], "pii") /\ ~(IsMark(text[k]) /\ text[k].m # ".")

MarkOrgAddresses(text, reasons) ==
  LET hits == {k \in DOMAIN text : IsWord(text[k], "org")}
      addrs == {i \in Spans(text) : text[i].type = "ADDRESS" /\ reasons[i] = ""}
      owners == {i \in UNION {OwnerAddress(text, h, addrs) : h \in hits} : ~HasPersonalAnchor(text, i)}
      marked == owners \cup {j \in addrs : \E i \in owners : SameOrgAddress(text, i, j)}
  IN [i \in DOMAIN reasons |-> IF i \in marked THEN "org_address" ELSE reasons[i]]

\* A town of birth goes with the known person of its sentence.
MarkFigureBirthPlaces(text, reasons) ==
  LET Figure(i) == \E j \in PlainSentence(text, i) : IsSpan(text[j]) /\ text[j].type = "FIO" /\ reasons[j] = "public_figure"
  IN [i \in DOMAIN reasons |-> IF text[i].type = "BIRTH_PLACE" /\ reasons[i] = "" /\ Figure(i) THEN "public_figure" ELSE reasons[i]]

\* The passes one after another; each sees what those before it took off, and the
\* second also what it took off itself.
Apply(text, options) ==
  LET allowed == [i \in Spans(text) |-> IF IsAllowed(text[i]) THEN "allow_list" ELSE ""]
      Judge(reasons, i) ==
        IF i \in DOMAIN reasons /\ reasons[i] = "" THEN [reasons EXCEPT ![i] = TypeRules(text, i, reasons, options)] ELSE reasons
      judged == FoldLeftDomain(Judge, allowed, text)
      addressed == IF options.orgAddresses THEN MarkOrgAddresses(text, judged) ELSE judged
  IN MarkFigureBirthPlaces(text, addressed)

=============================================================================
