------------------------------ MODULE MaskLaws ------------------------------
(***************************************************************************)
(* What must hold of the masks (Masks), of the substitutes of values       *)
(* (Synthetic) and of records as bytes (Codec).                            *)
(***************************************************************************)
EXTENDS Algorithms, TLC

M == INSTANCE Masks
Y == INSTANCE Synthetic
V == INSTANCE Codec

-----------------------------------------------------------------------------
(* An input is a text in pieces, a fragment with its type or what stands   *)
(* between fragments, of type <<>>.                                        *)

Text == FlattenSeq([i \in DOMAIN input |-> input[i].value])

StartOf(i) == FoldLeft(LAMBDA sum, k : sum + Len(input[k].value), 0, [k \in 1..(i - 1) |-> k])

SpanOf(i) == [start |-> StartOf(i), end |-> StartOf(i) + Len(input[i].value), type |-> input[i].type]

Fragments == {i \in DOMAIN input : input[i].type # <<>>}

SpansOf(some) == LET order == SetToSortSeq(some, <) IN [k \in DOMAIN order |-> SpanOf(order[k])]

All(preset) == [default |-> preset, perType |-> <<>>]

Masked(preset) == M!Apply(Text, SpansOf(Fragments), All(preset), M!NoTokens).text

\* A mask that keeps the length moves nothing, touches nothing outside the
\* fragments, and of a fragment hides every sign or at least two (MASK-FORMAT.md).
MasksHide ==
  kind = "mask" =>
    \A preset \in {p \in M!Presets : M!PreservesLength(p)} :
      LET masked == Masked(preset)
          hidden == {i \in DOMAIN Text : masked[i] # Text[i]}
          inside == UNION {(SpanOf(k).start + 1)..SpanOf(k).end : k \in Fragments}
      IN /\ Len(masked) = Len(Text)
         /\ hidden \subseteq inside
         /\ \A k \in Fragments :
              LET signs == {i \in (SpanOf(k).start + 1)..SpanOf(k).end : M!IsSignificant(Text[i])}
              IN signs \subseteq hidden \/ Cardinality(signs \cap hidden) >= 2

\* Masked in parts that share their numbering, as the messages of a chat are,
\* two fragments read the same only if they were the same: the placeholders of an
\* answer give each value back (Options.Shared).
PlaceholdersTellApart ==
  kind = "mask" =>
    \A preset \in {"token", "synthetic"} :
      LET Part(acc, i) ==
            LET laid == M!Apply(input[i].value, <<[start |-> 0, end |-> Len(input[i].value), type |-> input[i].type]>>,
                                All(preset), acc.state)
            IN [texts |-> Append(acc.texts, laid.text), state |-> laid.state]
          order == SetToSortSeq(Fragments, <)
          texts == FoldLeft(Part, [texts |-> <<>>, state |-> M!NoTokens], order).texts
      IN \A i, j \in DOMAIN order : texts[i] = texts[j] <=> input[order[i]] = input[order[j]]

\* What a rune of a hidden value has become when it comes back.
Returned(r) == CASE r = "quote" -> <<"\\", "quote">> [] r = "nl" -> <<"\\", "n">> [] OTHER -> <<r>>

\* An answer that repeats the masked text gives the text back, in whatever way the
\* model writes the placeholders, though one is the beginning of another and nine
\* have been given before; save that a quote or a new line of a hidden value comes
\* back with the backslash JSON gives it (restorePlaceholders).
RestoredIsOriginal ==
  kind = "mask" =>
    LET other == [preset |-> "token", type |-> <<"A", "A">>, value |-> <<"A">>, text |-> M!Token(<<"A", "A">>, 1)]
        before == [counters |-> (<<"A", "A">> :> 9), given |-> {other}]
        masked == M!Apply(Text, SpansOf(Fragments), All("token"), before)
        given == masked.state.given
        Pairs(g) == M!RestorePairs(g.text, g.value)
        styles == {<<"[", "_", "]">>, <<"[", " ", "]">>, <<"<", "_", ">">>, <<"{", "_", "}">>, <<"_">>}
        Write(r, style) == CASE r = "[" -> IF Len(style) = 3 THEN <<style[1]>> ELSE <<>>
                             [] r = "]" -> IF Len(style) = 3 THEN <<style[3]>> ELSE <<>>
                             [] r = "_" -> <<IF Len(style) = 3 THEN style[2] ELSE "_">>
                             [] OTHER -> <<r>>
        Answer(style) == FlattenSeq([i \in DOMAIN masked.text |-> Write(masked.text[i], style)])
        Back(piece) == IF piece.type = <<>> THEN piece.value ELSE FlattenSeq([i \in DOMAIN piece.value |-> Returned(piece.value[i])])
        text == FlattenSeq([i \in DOMAIN input |-> Back(input[i])])
    IN \A style \in styles : M!Replaced(Answer(style), UNION {Pairs(g) : g \in given}) = text

\* A text of nothing but fragments, sent back masked, is known for a mask: it is
\* not masked over and lost once its record has expired (LooksMasked).
MaskedLooksMasked ==
  (kind = "mask" /\ Fragments # {} /\ \A i \in DOMAIN input \ Fragments : M!Visible(input[i].value) = {}) =>
    \A preset \in {"full", "full_ws", "token"} : M!LooksMasked(Masked(preset), preset)

-----------------------------------------------------------------------------
(* An input of digits is read as a seed.                                    *)

Seed == FoldLeft(LAMBDA n, d : n * 10 + d, 0, input)

\* Values of so many digits, with a sign after every third.
Shaped(n) == FlattenSeq([i \in 1..n |-> IF i % 4 = 3 THEN <<i % 10, 10>> ELSE <<i % 10>>])

Shape(value) == [i \in DOMAIN value |-> IF Y!IsDigit(value[i]) THEN "digit" ELSE value[i]]

\* A substitute is of the shape of the value and passes for one of its type: the
\* checksum that the detectors check fits, a phone keeps its country, a day is
\* one of a calendar (syntheticValue).
SubstitutesPass ==
  kind = "digits" =>
    /\ \A t \in {"CARD", "INN", "SNILS", "PHONE", "DEPT_CODE"}, n \in {6, 10, 11, 12, 16, 19} :
         LET value == Shaped(n)
             new == Y!SyntheticValue(value, t, Seed)
             digits == Y!DigitsOnly(new)
         IN /\ Shape(new) = Shape(value)
            /\ t = "CARD" /\ n >= 12 => Y!Luhn(digits)
            /\ t = "INN" /\ n \in {10, 12} => Y!INNValid(digits)
            /\ t = "SNILS" /\ n = 11 => Y!SNILSValid(digits)
    /\ LET phone == <<Y!Plus, 7, 10>> \o Shaped(10)
           new == Y!SyntheticPhone(phone, Seed)
       IN Shape(new) = Shape(phone) /\ SubSeq(new, 1, 3) = SubSeq(phone, 1, 3)
    /\ LET date == Y!SyntheticDate(3, Seed)
       IN date[1] \in 1..28 /\ date[2] \in 1..12 /\ date[3] \in 1950..2005

-----------------------------------------------------------------------------
(* An input is the names of a text, each with a seed.                       *)

\* An answer that names a substitute, as it is or declined, gives back the name it
\* stands for and no other: the forms of two substitutes do not coincide, and
\* one is not taken for the beginning of another (restorePlaceholders).
NamesComeBack ==
  (kind = "names" /\ Len(input) = 2) =>
    LET Sub(i) == Y!SyntheticFIO(input[i].words, input[i].seed)
        Forms(i) == {Sub(i)} \cup Y!DeclineVariants(Sub(i))
        pairs == UNION {{[from |-> f, to |-> <<i>>] : f \in Forms(i)} : i \in {1, 2}}
    IN Sub(1) # Sub(2) => \A i \in {1, 2} : \A f \in Forms(i) : M!Replaced(f, pairs) = <<i>>

-----------------------------------------------------------------------------
(* An input is the bytes of a record.                                       *)

Blob(bytes) == V!Sealed("k", bytes)

\* A record that can be read is read the same when it is written again, by any
\* copy of the service with the key; cut short anywhere it is refused, and never
\* read as another (codec.decode).
RecordsSurvive ==
  kind = "record" =>
    LET read == V!Decode("k", Blob(input))
        blob == V!Encode("k", read[1])
    IN read # <<>> =>
         /\ V!Decode("k", blob) = read
         /\ V!Decode("another", blob) = <<>>
         /\ \A n \in 0..(Len(blob.bytes) - 1) : V!Decode("k", Blob(SubSeq(blob.bytes, 1, n))) = <<>>

-----------------------------------------------------------------------------
\* What is hidden stays hidden and comes back: a mask shows too little to guess by,
\* tells apart what must be told apart, and gives every value back (as JSON spells
\* it), through placeholders, substitutes the model declines, and a record's bytes
\* (mask.go, synthetic.go, restorePlaceholders, codec.go).
HiddenComesBack ==
  [][Run =>
       /\ MasksHide
       /\ PlaceholdersTellApart
       /\ RestoredIsOriginal
       /\ MaskedLooksMasked
       /\ SubstitutesPass
       /\ NamesComeBack
       /\ RecordsSurvive]_vars
=============================================================================
