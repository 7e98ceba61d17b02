---------------------------- MODULE MCAlgorithms ----------------------------
(***************************************************************************)
(* Vocabularies and bounds for TLC.                                        *)
(***************************************************************************)
EXTENDS TextLaws, DetectorLaws, MaskLaws, SettingsLaws, EngineLaws, LogLaws

SomeSpans == {s \in [start : 0..4, end : 2..5, type : {"CARD", "FIO"}, conf : {2, 3}] : s.start < s.end}
             \cup [start : {0}, end : {3, 5}, type : {"CARD"}, conf : {1}]

Runes == {"ya", "x", "7", " ", "nl", "-", ",", "+", "?"}
AnchorRunes == {"ya", "x", "2", " "}

Word(w) == [t |-> "word", w |-> w]
Mark(m) == [t |-> "mark", m |-> m]
Num(groups) == [t |-> "num", groups |-> groups, lead |-> "4", plus |-> FALSE, tollFree |-> FALSE,
                dots |-> FALSE, year |-> FALSE, sums |-> {}]
Summed(groups, sum) == [Num(groups) EXCEPT !.sums = {sum}]

NumberItems ==
  {Word(w) : w \in DOMAIN N!Lists} \cup {Mark(m) : m \in {",", ".", "nl"}}
  \cup {Num(<<4, 4, 4, 4>>), Summed(<<16>>, "luhn"), Num(<<13>>), Num(<<10>>), Summed(<<10>>, "inn"), Num(<<4, 6>>),
        Num(<<2, 2, 6>>), Num(<<3, 3>>), Num(<<6>>), Num(<<3, 3, 3, 2>>), Summed(<<3, 3, 3, 2>>, "snils"),
        Summed(<<12>>, "inn"), Num(<<3>>), [Num(<<4, 4, 6>>) EXCEPT !.year = TRUE], Num(<<2, 2, 4, 4, 6>>),
        [Num(<<1, 3, 3, 2, 2>>) EXCEPT !.lead = "7"], [Num(<<1, 3, 7>>) EXCEPT !.lead = "8", !.tollFree = TRUE],
        [Num(<<3, 3, 3, 3>>) EXCEPT !.dots = TRUE], Num(<<3, 3, 3, 3, 3>>)}

PartItems ==
  {Word(w) : w \in {"passport", "number", "pin", "series"}} \cup {Mark(","), Mark(".")}
  \cup {Num(<<2>>), Num(<<4>>), Num(<<3, 3>>)}

Piece(type, value) == [type |-> type, value |-> value]
Pieces ==
  {Piece(<<>>, v) : v \in {<<" ">>, <<"a", "-">>, <<"*">>}}
  \cup {Piece(<<"A", "A">>, v) : v \in {<<"A", "a">>, <<"A", ".", " ", "A", "a", "a">>, <<"A", "-", "a", "a", "a", "A">>}}
  \cup {Piece(<<"A">>, v) : v \in {<<"7", "7", "-", "1", "2", "3", "7">>, <<"A", "a">>, <<"A", "quote", "nl", "a", "quote">>}}

Here(request) == [from |-> "loopback"] @@ request
Passno(name) == [name |-> name, pattern |-> "ok", group |-> 0, validator |-> "", requireAnchor |-> FALSE]
ByHand ==
  {[op |-> "section", section |-> "defaults", patch |-> p] :
     p \in {[preset |-> "token"], [preset |-> "partial"], [dates |-> "never"]}}
  \cup {[op |-> "section", section |-> "limits", patch |-> [maxWait |-> 10000]],
        [op |-> "section", section |-> "server", patch |-> [writeTimeout |-> 20000]],
        [op |-> "section", section |-> "logging", patch |-> [auditKeep |-> 3]],
        [op |-> "section", section |-> "capture", patch |-> [enabled |-> TRUE]],
        [op |-> "section", section |-> "capture", patch |-> [enabled |-> TRUE, path |-> "requests.jsonl"]]}
  \cup {[op |-> "system", system |-> "checker", patch |-> p] : p \in {[preset |-> "full_ws"], [perType |-> [FIO |-> "initials"]], [types |-> <<"All">>]}}
  \cup {[op |-> "system", system |-> "app", patch |-> p] : p \in {[auth |-> [kind |-> "none"]], [auth |-> [kind |-> "key", key |-> "h2"]]}}
  \cup {[op |-> "system", system |-> "spare", patch |-> p] :
        p \in {[auth |-> [kind |-> "key", key |-> ""]], [auth |-> [kind |-> "none"]], [addressesFile |-> "lost"]}}
  \cup {[op |-> "custom", type |-> Passno("passno")]}
Requests ==
  {Here([op |-> "set_system_types", system |-> "app", types |-> t]) :
     t \in {<<>>, <<"card", "passno">>, <<"snils">>, <<"all">>}}
  \cup {Here([op |-> "set_system_enabled", system |-> "spare", enabled |-> e]) : e \in BOOLEAN}
  \cup {Here([op |-> "set_system_allow_persons", system |-> "checker", persons |-> {"p"}]),
        Here([op |-> "set_system_types", system |-> "checker"]),
        [op |-> "set_system_enabled", system |-> "checker", enabled |-> FALSE, from |-> "remote", token |-> "secret"],
        [op |-> "set_system_enabled", system |-> "checker", enabled |-> FALSE, from |-> "remote", token |-> ""],
        Here([op |-> "add_type", type |-> [Passno("BADGE") EXCEPT !.group = 1]]),
        Here([op |-> "add_type", type |-> [Passno("BADGE") EXCEPT !.pattern = "star"]]),
        Here([op |-> "remove_type", name |-> "passno"])}

Matches == [rule : {"PASSNO", "BADGE"}, all : {<<0, 3>>}, part : {<<>>, <<0, 3>>, <<1, 3>>}, overLine : {FALSE}, anchored : BOOLEAN, sums : {TRUE}]
           \cup {[rule |-> "BADGE", all |-> <<3, 5>>, part |-> <<3, 4>>, overLine |-> TRUE, anchored |-> TRUE, sums |-> FALSE]}

Named(words, seed) == [words |-> words, seed |-> seed]
Names ==
  {Named(w, s) : s \in 0..5, w \in {
     <<<<"sidor", "ov">>, <<"nikit", "a">>, <<"ivanov", "ich">>>>, <<<<"sidor", "ova">>, <<"mari", "ya">>, <<"ivano", "vna">>>>,
     <<<<"sidor", "ov">>, <<"nikit", "a">>>>, <<<<"sidor", "ova">>, <<"mari", "ya">>>>, <<<<"sidor", "ova">>>>,
     <<<<"sidor", "ova">>, <<"m", ".">>, <<"i", ".">>>>, <<<<"sidorov", "lat">>, <<"ivan", "lat">>>>}}

FoundHere(type, start, end) == [type |-> type, start |-> start, end |-> end, conf |-> 2, anchored |-> FALSE, known |-> FALSE]
Finds == {FoundHere("FIO", 0, 2), FoundHere("FIO", 7, 9), FoundHere("CARD", 3, 5), FoundHere("DOB", 3, 5), [FoundHere("DOB", 0, 5) EXCEPT !.anchored = TRUE],
          FoundHere("ADDRESS", 0, 5), FoundHere("PIN", 4, 5), [FoundHere("ADDRESS", 1, 9) EXCEPT !.known = TRUE],
          [FoundHere("FIO", 0, 5) EXCEPT !.conf = 1], FoundHere("CARD", 2, 8)}

Fragment(type) == [t |-> "span", type |-> type, name |-> "common", digits |-> FALSE, ip |-> FALSE, allowed |-> FALSE]
Number(type) == [Fragment(type) EXCEPT !.digits = TRUE]
Persons == {[Fragment("FIO") EXCEPT !.name = n] : n \in {"full", "rare", "common"}}
           \cup {Fragment("BIRTH_PLACE"), Fragment("ADDRESS"), Number("CARD"), [Number("CARD") EXCEPT !.allowed = TRUE]}
           \cup {Word(w) : w \in {"poet", "who", "street", "office", "client", "order"}} \cup {Mark("."), Mark("para")}
References == {Number("CARD"), Number("IP_ADDRESS"), [Number("PHONE") EXCEPT !.ip = TRUE], Mark(".")}
              \cup {Word(w) : w \in {"order", "server", "ogrn", "passport", "phone", "plain", "long"}}
Addresses == {Fragment("ADDRESS"), [Fragment("ADDRESS") EXCEPT !.allowed = TRUE], Number("CARD"), Mark("."), Mark("nl")}
             \cup {Word(w) : w \in {"office", "yours", "phone", "abbr", "plain", "long"}}

Groups(groups, gaps) == [t |-> "num", groups |-> groups, gaps |-> gaps, plus |-> FALSE, ordinal |-> FALSE]
Digits(len, value) == Dates!Group(len, value)
Day == Groups(<<Digits(2, 12)>>, <<>>)
Year == Groups(<<Digits(4, 1985)>>, <<>>)
NumericDateItems ==
  {Word(w) : w \in {"born", "rod", "issued", "torn", "paid", "client", "passport", "long"}} \cup {Mark("nl"), Year}
  \cup {Groups(<<Digits(2, 31), Digits(2, 12), Digits(4, 1985)>>, <<".", ".">>), Groups(<<Digits(8, 12031985)>>, <<>>),
        Groups(<<Digits(2, 29), Digits(2, 2), Digits(4, 1900), Digits(2, 1), Digits(2, 85)>>, <<".", ".", " ", "-">>)}
WordDateItems ==
  {Word(w) : w \in {"born", "rod", "issued", "twelfth", "two", "thousand"}} \cup {Mark(","), Day, Year, [Day EXCEPT !.ordinal = TRUE]}
  \cup {Groups(<<Digits(2, 12), Digits(4, 1985)>>, <<" ">>), [t |-> "month", letters |-> <<"m", "a", "r", "h", "c">>]}

LogPieces ==
  {<<"7", "7", "7">>, <<"7">>, <<".">>, <<" ">>, <<"@">>, <<":">>, <<"C", "c", "c">>, <<"u">>, <<"U", "U", "U", "U">>,
   <<"7", "7", ".", "7", "7", ".", "7">>}
Secret == <<"7", "7", "7", "-", "7", "7", "7">>
AField(how, path, value) == [how |-> how, field |-> [path |-> path, value |-> value]]
LogFields ==
  {AField(h, <<k>>, Log!Text(Secret)) : h \in {"with", "record"}, k \in {"event", "detail", "request_id"}}
  \cup {AField(h, <<"system">>, Log!Text(<<"u">>)) : h \in {"with", "record"}}
  \cup {AField("record", p, Log!Text(Secret)) : p \in {<<"a", "b">>, <<"a", "reason">>, <<"a", "payload_id">>, <<"request_id", "a">>, <<"a", "a", "a", "a", "a", "b">>}}
  \cup {AField("record", <<"a", "a", "a", "a", "a", "b">>, Log!Text(<<"u">>)), AField("record", <<"list">>, [kind |-> "list", items |-> <<<<"u">>, Secret>>]),
        AField("record", <<"duration">>, [kind |-> "number"]), AField("with", <<"a", "duration">>, [kind |-> "number"])}

MCVocabulary == [spans |-> SomeSpans, text |-> Runes, anchor |-> AnchorRunes, numbers |-> NumberItems, parts |-> PartItems,
                 mask |-> Pieces, settings |-> ByHand \cup Requests, custom |-> Matches,
                 digits |-> 0..9, names |-> Names, record |-> {0, 1, 5}, long |-> {"a", " ", "nl", "ya"},
                 people |-> {"A", "a", "7", "1", ".", " ", "nl", "form"}, found |-> Finds,
                 persons |-> Persons, references |-> References, addresses |-> Addresses,
                 dates |-> NumericDateItems, wordDates |-> WordDateItems, words |-> {"a", "b", "c", "|"},
                 log |-> LogPieces, fields |-> LogFields]
MCBound == [spans |-> 3, text |-> 4, anchor |-> 6, numbers |-> 3, parts |-> 5, mask |-> 4, settings |-> 3, custom |-> 4,
            digits |-> 3, names |-> 2, record |-> 10, long |-> 6, people |-> 5, found |-> 3,
            persons |-> 4, references |-> 4, addresses |-> 5,
            dates |-> 3, wordDates |-> 4, words |-> 7,
            log |-> 4, fields |-> 2]
=============================================================================
