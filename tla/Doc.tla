-------------------------------- MODULE Doc --------------------------------
(***************************************************************************)
(* internal/pii/doc.go and helpers.go: a text as the detectors see it.  A  *)
(* text is a sequence of runes; offsets are in bytes, from zero, as in the *)
(* source, and a Cyrillic rune has two.  Tokens are runs of one kind of    *)
(* rune; numbers are runs of digit tokens joined by separators; an anchor  *)
(* is a word looked for before a value.                                    *)
(*                                                                         *)
(* A rune stands for its kind: "ya" and "oc" are Cyrillic letters, "x" and *)
(* "ol" Latin ones, oc and ol looking alike; "7" and "2" are digits,       *)
(* "-" a separator of numbers, "," none, "+" a plus, "?" a byte that is no *)
(* rune.                                                                   *)
(***************************************************************************)
LOCAL INSTANCE Integers
LOCAL INSTANCE Sequences
LOCAL INSTANCE SequencesExt
LOCAL INSTANCE FiniteSetsExt

Kind == [r \in {"ya", "oc", "x", "ol", "7", "2", " ", "nl", "-", ",", "+", "?"} |->
           CASE r \in {"ya", "oc"} -> "cyr"
             [] r \in {"x", "ol"} -> "lat"
             [] r \in {"7", "2"} -> "digit"
             [] r \in {" ", "nl"} -> "space"
             [] r \in {"-", ",", "+"} -> "punct"
             [] r = "?" -> "other"]

Width(r) == IF Kind[r] = "cyr" THEN 2 ELSE 1

\* Doc.runeStarts: where each rune starts, and the length of the text.
Starts(text) == FoldLeft(LAMBDA starts, r : Append(starts, Last(starts) + Width(r)), <<0>>, text)

Size(text) == Last(Starts(text))

\* Mutant of Tokens: a token grows by one byte, as if a rune had one.
TokensByByte(text) ==
  LET starts == Starts(text)
      Add(tokens, i) ==
        IF tokens # <<>> /\ Last(tokens).kind = Kind[text[i]]
        THEN [tokens EXCEPT ![Len(tokens)].end = @ + 1]
        ELSE Append(tokens, [kind |-> Kind[text[i]], start |-> starts[i], end |-> starts[i + 1]])
  IN FoldLeftDomain(Add, <<>>, text)

Tokens(text) ==
  LET starts == Starts(text)
      Add(tokens, i) ==
        IF tokens # <<>> /\ Last(tokens).kind = Kind[text[i]]
        THEN [tokens EXCEPT ![Len(tokens)].end = starts[i + 1]]
        ELSE Append(tokens, [kind |-> Kind[text[i]], start |-> starts[i], end |-> starts[i + 1]])
  IN FoldLeftDomain(Add, <<>>, text)

\* Runes are counted from zero, as bytes are.
RuneIndexAt(text, off) ==
  IF off <= 0 THEN 0
  ELSE IF off >= Size(text) THEN Len(text)
  ELSE Max({i \in DOMAIN text : Starts(text)[i] <= off}) - 1

ByteAtRune(text, i) ==
  CASE i <= 0 -> 0
    [] i > Len(text) -> Size(text)
    [] OTHER -> Starts(text)[i + 1]

\* Mutant of WindowRunes: in bytes.
WindowBytes(text, start, end, before, after) ==
  <<Max({0, start - before}), Min({Size(text), end + after})>>

WindowRunes(text, start, end, before, after) ==
  LET lo == ByteAtRune(text, RuneIndexAt(text, Max({start, 0})) - before)
      hi == ByteAtRune(text, RuneIndexAt(text, Min({end, Size(text)})) + after)
  IN <<Min({lo, hi}), hi>>

\* The runes between two offsets.
Part(text, lo, hi) == SubSeq(text, RuneIndexAt(text, lo) + 1, RuneIndexAt(text, hi))

-----------------------------------------------------------------------------
(* Numbers.                                                                 *)

NumSeparators == {" ", "-"}

\* Mutant of Joins: a line break separates the groups of one number.
JoinsOverLines(sep) == sep # <<>> /\ ToSet(sep) \subseteq NumSeparators \cup {"nl"} /\ Len(sep) <= 3

\* A long separator, or one with a line break, parts two numbers.
Joins(sep) == sep # <<>> /\ ToSet(sep) \subseteq NumSeparators /\ Len(sep) <= 3

DigitTokens(text) == {i \in DOMAIN Tokens(text) : Tokens(text)[i].kind = "digit"}

\* The next group of digits, with only spaces and punctuation before it, or 0.
NextDigitToken(text, j) ==
  LET toks == Tokens(text)
      next == {k \in DigitTokens(text) : k > j + 1 /\ \A m \in (j + 1)..(k - 1) : toks[m].kind \in {"space", "punct"}}
  IN IF next = {} THEN 0 ELSE Min(next)

AttachedToWord(text, i) == i > 1 /\ Tokens(text)[i - 1].kind \in {"lat", "cyr"}

HasLeadingPlus(text, i) ==
  i > 1 /\ Part(text, Tokens(text)[i - 1].start, Tokens(text)[i - 1].end) = <<"+">>

\* The last token of the number that starts at token i.
LastGroup(text, i) ==
  LET toks == Tokens(text)
      Glued(j) == LET k == NextDigitToken(text, j)
                  IN IF k # 0 /\ Joins(Part(text, toks[j].end, toks[k].start)) THEN k ELSE j
  IN IF AttachedToWord(text, i) THEN i
     ELSE FoldLeft(LAMBDA j, n : Glued(j), i, [n \in 1..Len(toks) |-> n])

\* DigitRuns: a number starts at the first digit token after the last number.
DigitRuns(text) ==
  LET toks == Tokens(text)
      Run(i, j) == [start |-> IF HasLeadingPlus(text, i) /\ ~AttachedToWord(text, i) THEN toks[i - 1].start ELSE toks[i].start,
                    end |-> toks[j].end,
                    plus |-> HasLeadingPlus(text, i) /\ ~AttachedToWord(text, i),
                    groups |-> {k \in i..j : toks[k].kind = "digit"}]
      Add(acc, i) == IF toks[i].kind # "digit" \/ i <= acc.used THEN acc
                     ELSE [runs |-> Append(acc.runs, Run(i, LastGroup(text, i))), used |-> LastGroup(text, i)]
  IN FoldLeftDomain(Add, [runs |-> <<>>, used |-> 0], toks).runs

-----------------------------------------------------------------------------
(* Anchors.                                                                 *)

\* Latin letters that look like Cyrillic ones are taken for them.
Fold(text) == [i \in DOMAIN text |-> IF text[i] = "ol" THEN "oc" ELSE text[i]]

Compact(text) == SelectSeq(text, LAMBDA r : r # " ")

HasDigit(text) == \E i \in DOMAIN text : Kind[text[i]] = "digit"

\* Where the last occurrence of word in text ends, or 0.
LastEnd(text, word) ==
  LET ends == {e \in Len(word)..Len(text) : SubSeq(text, e - Len(word) + 1, e) = word}
  IN IF ends = {} THEN 0 ELSE Max(ends)

After(text, e) == SubSeq(text, e + 1, Len(text))

\* anchorBeforeCompact: the longest anchor in the window without its spaces.
AnchorBeforeCompact(window, anchors) ==
  LET w == Compact(window)
      there == {i \in DOMAIN anchors : LastEnd(w, Compact(Fold(anchors[i]))) > 0}
      best == {i \in there : \A j \in there : Len(anchors[j]) <= Len(anchors[i])}
      i == Min(best)
  IN IF there = {} \/ HasDigit(After(w, LastEnd(w, Compact(Fold(anchors[i]))))) THEN <<>> ELSE anchors[i]

\* Mutant of AnchorBefore: digits between the anchor and the value are not minded.
AnchorAnywhere(text, start, anchors, maxRunes) ==
  LET w == Fold(Part(text, WindowRunes(text, start, start, maxRunes, 0)[1], start))
      ends == {i \in DOMAIN anchors : LastEnd(w, Fold(anchors[i])) > 0}
  IN IF ends = {} THEN <<>> ELSE anchors[Min(ends)]

\* The anchor that ends nearest to the value, no digits in between, or none.
AnchorBefore(text, start, anchors, maxRunes) ==
  LET w == Fold(Part(text, WindowRunes(text, start, start, maxRunes, 0)[1], start))
      End(i) == LastEnd(w, Fold(anchors[i]))
      there == {i \in DOMAIN anchors : End(i) > 0}
      nearest == Min({i \in there : \A j \in there : End(j) <= End(i)})
  IN IF there = {} THEN AnchorBeforeCompact(w, anchors)
     ELSE IF HasDigit(After(w, End(nearest))) THEN <<>>
     ELSE anchors[nearest]
=============================================================================
