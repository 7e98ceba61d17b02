------------------------------ MODULE TextLaws ------------------------------
(***************************************************************************)
(* What must hold of the fragments the detectors report, of the tokens and *)
(* windows they read a text by, and of the numbers they find in it.        *)
(***************************************************************************)
EXTENDS Algorithms

S == INSTANCE Spans
D == INSTANCE Doc
N == INSTANCE Numbers

-----------------------------------------------------------------------------
(* Overlapping fragments (registry.go).                                     *)

MinConf == 2

\* Who of two that overlap is to stay, by the comment of Resolve: the longer, then
\* the one of the higher type, then the surer; and of equals the earlier.
Beats(a, b) ==
  LET Rank(s) == <<S!Length(s), S!Priority[s.type], s.conf, -s.start>>
      first == {k \in 1..4 : Rank(a)[k] # Rank(b)[k]}
  IN S!Overlaps(a, b) /\ first # {} /\ Rank(a)[Min(first)] > Rank(b)[Min(first)]

\* The input with two neighbours changed over: what other detectors first would give.
Swapped(k) == [input EXCEPT ![k] = input[k + 1], ![k + 1] = input[k]]

\* Resolve keeps fragments that do not overlap and are sure enough, in the order of
\* the text; a fragment no other beats is among them, so one that is left out lost
\* to another that is better than it; and all this whatever the detector order.
\* (Not that the winner stays: see the README on fragments that lost to a loser.)
ResolveKeepsTheBest ==
  kind = "spans" =>
    LET kept == S!Resolve(input, MinConf)
        sure == {s \in ToSet(input) : S!Valid(s) /\ s.conf >= MinConf}
    IN /\ \A i, j \in DOMAIN kept : i < j => kept[i].end <= kept[j].start
       /\ ToSet(kept) \subseteq sure
       /\ \A s \in sure \ ToSet(kept) : \E other \in sure : Beats(other, s)
       /\ \A k \in 1..(Len(input) - 1) : S!Resolve(Swapped(k), MinConf) = kept

-----------------------------------------------------------------------------
(* Texts, tokens, windows (doc.go, helpers.go).                             *)

\* The tokens of a text cover it without a gap, and neighbours differ in kind:
\* no rune is lost, a byte that is no rune included (Doc.tokenize).
TokensTile ==
  kind = "text" =>
    LET toks == D!Tokens(input)
    IN /\ FoldLeft(LAMBDA at, t : IF t.start = at THEN t.end ELSE -1, 0, toks) = D!Size(input)
       /\ \A i \in 1..(Len(toks) - 1) : toks[i].kind # toks[i + 1].kind

\* A window is as many runes wide as was asked for, or reaches the end of the
\* text, whatever the widths of the runes (Doc.WindowRunes).
WindowsAreInRunes ==
  kind = "text" =>
    \A i \in 0..Len(input), n \in 1..2 :
      LET off == D!ByteAtRune(input, i)
          window == D!WindowRunes(input, off, off, n, n)
      IN Len(D!Part(input, window[1], window[2])) = (i - Max({0, i - n})) + (Min({Len(input), i + n}) - i)

\* Every group of digits belongs to one number, numbers do not overlap, and
\* none goes over a line break (DigitRuns).
NumbersStandApart ==
  kind = "text" =>
    LET runs == D!DigitRuns(input)
    IN /\ \A i, j \in DOMAIN runs : i < j => runs[i].end <= runs[j].start
       /\ \A i \in DOMAIN runs : ~Contains(D!Part(input, runs[i].start, runs[i].end), "nl")
       /\ \A k \in D!DigitTokens(input) : Cardinality({i \in DOMAIN runs : k \in runs[i].groups}) = 1

\* An anchor counts only when no other number stands between it and the value,
\* though an anchor may have a digit itself (Doc.AnchorBefore).
AnchorsSeeTheirValue ==
  kind = "anchor" =>
    LET anchors == <<<<"x", "x">>, <<"x", "x", "2">>>>
        found == D!AnchorBefore(input, D!Size(input), anchors, 5)
    IN found # <<>> =>
         \E e \in 0..Len(input) : /\ IsSuffix(D!Compact(found), D!Compact(SubSeq(input, 1, e)))
                                  /\ ~D!HasDigit(D!After(input, e))

-----------------------------------------------------------------------------
(* Numbers (detect_numeric.go).                                             *)

\* What each anchor is an anchor of.
Anchored(text, i) ==
  LET x == text[i]
      w == IF i > 1 /\ text[i - 1].t = "word" THEN text[i - 1].w ELSE "plain"
  IN CASE w = "card" -> N!Digits(x) \in 13..19
       [] w = "phone" -> N!PhoneShape(x) /\ ~N!TollFree(x)
       [] w = "snils" -> N!Digits(x) = 11
       [] w = "inn" -> N!Digits(x) \in {10, 12} /\ ~N!FollowedByKPP(text, i)
       [] w = "passport" -> N!PassportShape(x)
       [] w = "driver" -> x.groups \in {<<2, 2, 6>>, <<10>>}
       [] w \in {"subdivision", "index"} -> N!Digits(x) = 6
       [] w = "pin" -> N!Digits(x) \in 2..5
       [] w = "cvv" -> N!Digits(x) \in 3..5
       [] OTHER -> FALSE

Covered(spans, i) == \E k \in DOMAIN spans : i \in spans[k].from..spans[k].to

\* A number of the right shape right after its own anchor is masked, whether
\* its checksum fits or not, and whatever else the sentence speaks of
\* (numericDetector: a checksum only makes it surer).
AnchoredNumbersAreMasked ==
  kind \in {"numbers", "parts"} =>
    \A i \in DOMAIN input : N!IsNum(input[i]) /\ ~N!DottedGroups(input[i]) /\ Anchored(input, i) => Covered(N!Detect(input), i)

\* A number of paperwork in a text that names nothing personal is taken at most
\* for a phone or a SNILS, which have a shape of their own (serviceNumberContext).
PaperworkStaysOpen ==
  kind = "numbers" =>
    LET spans == N!Detect(input)
    IN \A k \in DOMAIN spans :
         /\ \A i \in DOMAIN input : ~N!IsNum(input[i]) => input[i].t = "mark" \/ input[i].w \in {"order", "contract", "kpp", "plain"}
         /\ N!InHead(input, spans[k].from, "service") # {}
         => spans[k].type \in {"PHONE", "SNILS"} \/ spans[k].groups # DOMAIN input[spans[k].to].groups

\* No group of digits is reported twice, though a passport takes several
\* numbers and a date may give away only its tail (numericDetector.Detect).
NumbersAreTakenOnce ==
  kind \in {"numbers", "parts"} =>
    LET spans == N!Detect(input)
    IN \A k, m \in DOMAIN spans : k < m => spans[k].to < spans[m].from

-----------------------------------------------------------------------------
\* Fragments, tokens, windows and groups of digits are cut out of a text in their
\* right places, whatever their order, their overlaps and the widths of the runes
\* (registry.go, doc.go, helpers.go).
TextIsCutRightly ==
  [][Run =>
       /\ ResolveKeepsTheBest
       /\ TokensTile
       /\ WindowsAreInRunes
       /\ NumbersStandApart
       /\ AnchorsSeeTheirValue]_vars

\* Of the dozen matchers that look at a number the one whose word stands before it
\* has it, papers keep theirs, and no digit goes to two (detect_numeric.go).
NumbersAreJudged ==
  [][Run => AnchoredNumbersAreMasked /\ PaperworkStaysOpen /\ NumbersAreTakenOnce]_vars
=============================================================================
