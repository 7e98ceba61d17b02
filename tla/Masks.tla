------------------------------- MODULE Masks -------------------------------
(***************************************************************************)
(* internal/mask/mask.go: the masks laid over the fragments of a text, and *)
(* LooksMasked, by which a text sent back after its record has expired is  *)
(* told from one that is yet to be masked.                                 *)
(*                                                                         *)
(* A text is a sequence of runes, a rune stands for its class: "A" and "a" *)
(* are letters, "7" a digit, and then " ", "nl", "-", ".", "[", "]", "_",  *)
(* the quote and the star.  Offsets count runes, since every mask starts and ends at one.    *)
(***************************************************************************)
LOCAL INSTANCE Integers
LOCAL INSTANCE Sequences
LOCAL INSTANCE SequencesExt
LOCAL INSTANCE FiniteSetsExt
LOCAL INSTANCE FiniteSets
LOCAL INSTANCE TLC

Presets == {"full", "full_ws", "partial", "initials", "token", "synthetic"}

PreservesLength(preset) == preset \in {"full", "full_ws", "partial"}

PresetFor(opts, type) ==
  IF type \in DOMAIN opts.perType /\ opts.perType[type] \in Presets THEN opts.perType[type]
  ELSE IF opts.default \in Presets THEN opts.default
  ELSE "full"

IsSpace(r) == r \in {" ", "nl"}
IsLetter(r) == r \in {"A", "a"}
IsDigit(r) == r \in {"0", "1", "2", "3", "4", "5", "6", "7", "8", "9"}
IsSignificant(r) == IsLetter(r) \/ IsDigit(r)

MaskRunes(value, keepSpaces) ==
  [i \in DOMAIN value |-> IF keepSpaces /\ IsSpace(value[i]) THEN value[i] ELSE "*"]

\* Mutant of MaskPartial: short values are left in part as well.
MaskPartialShort(value) ==
  LET significant == {i \in DOMAIN value : IsSignificant(value[i])}
      Rank(i) == Cardinality({j \in significant : j <= i})
  IN [i \in DOMAIN value |->
        IF i \in significant /\ Rank(i) \in 3..(Cardinality(significant) - 2) THEN "*" ELSE value[i]]

\* The first two and the last two signs stay, unless there are fewer than six.
MaskPartial(value) ==
  LET significant == {i \in DOMAIN value : IsSignificant(value[i])}
      Rank(i) == Cardinality({j \in significant : j <= i})
  IN IF Cardinality(significant) < 6 THEN MaskRunes(value, FALSE)
     ELSE [i \in DOMAIN value |->
             IF i \in significant /\ Rank(i) \in 3..(Cardinality(significant) - 2) THEN "*" ELSE value[i]]

\* A name becomes the first letters of its words; a word may start with a dash.
MaskInitials(value) ==
  LET InWord(i) == i \in DOMAIN value /\ (IsLetter(value[i]) \/ value[i] = "-")
      firsts == {i \in DOMAIN value : InWord(i) /\ ~InWord(i - 1)}
      Initial(i) == <<IF value[i] = "a" THEN "A" ELSE value[i], ".">>
      parts == [k \in 1..Cardinality(firsts) |->
                  Initial(CHOOSE i \in firsts : Cardinality({j \in firsts : j <= i}) = k)]
  IN IF firsts = {} THEN MaskRunes(value, FALSE)
     ELSE FoldLeftDomain(LAMBDA text, k : text \o (IF k = 1 THEN <<>> ELSE <<" ">>) \o parts[k], <<>>, parts)

MaskValue(value, preset) ==
  CASE preset = "full_ws" -> MaskRunes(value, TRUE)
    [] preset = "partial" -> MaskPartial(value)
    [] preset = "initials" -> MaskInitials(value)
    [] OTHER -> MaskRunes(value, FALSE)

-----------------------------------------------------------------------------
(* Placeholders and substitutes: a pass, of one text or of several parts,   *)
(* remembers what it gave to a value of a type.                             *)

NoTokens == [counters |-> <<>>, given |-> {}]

\* No more than 19 placeholders of a type.
Itoa(n) == IF n < 10 THEN <<ToString(n)>> ELSE <<"1", ToString(n - 10)>>

\* A type is its name in runes.
Token(type, number) == <<"[">> \o type \o <<"_">> \o Itoa(number) \o <<"]">>

\* The substitutes of a type, as many as there are, in the order of the seeds.
Substitute(type, seed) == Append(type, ToString(seed % 5))

Remembered(state, preset, type, value) ==
  {g \in state.given : g.preset = preset /\ g.type = type /\ g.value = value}

Counter(state, type) == IF type \in DOMAIN state.counters THEN state.counters[type] ELSE 0

\* The state and the text after a value of a type got its placeholder.
Numbered(state, type, value) ==
  LET n == Counter(state, type) + 1
      new == [preset |-> "token", type |-> type, value |-> value, text |-> Token(type, n)]
      known == Remembered(state, "token", type, value)
  IN IF known # {} THEN [state |-> state, text |-> (CHOOSE g \in known : TRUE).text]
     ELSE [state |-> [counters |-> (type :> n) @@ state.counters, given |-> state.given \cup {new}], text |-> new.text]

\* A substitute another value of the text has got is passed over.
Substituted(state, type, value) ==
  LET used == {g.text : g \in {g \in state.given : g.preset = "synthetic"}}
      free == {k \in 0..4 : Substitute(type, Len(value) + k) \notin used}
      new == [preset |-> "synthetic", type |-> type, value |-> value, text |-> Substitute(type, Len(value) + Min(free))]
      known == Remembered(state, "synthetic", type, value)
  IN IF known # {} THEN [state |-> state, text |-> (CHOOSE g \in known : TRUE).text]
     ELSE [state |-> [state EXCEPT !.given = @ \cup {new}], text |-> new.text]

ApplySpan(state, span, value, opts) ==
  LET preset == PresetFor(opts, span.type)
  IN CASE preset = "token" -> Numbered(state, span.type, value)
       [] preset = "synthetic" -> Substituted(state, span.type, value)
       [] OTHER -> [text |-> MaskValue(value, preset), state |-> state]

\* Mutant of Apply: every part numbers for itself.
ApplyAlone(text, spans, opts, shared) ==
  LET Lay(acc, s) ==
        LET laid == ApplySpan(acc.state, s, SubSeq(text, s.start + 1, s.end), opts)
        IN [text |-> acc.text \o SubSeq(text, acc.prev + 1, s.start) \o laid.text, prev |-> s.end, state |-> laid.state]
      all == FoldLeft(Lay, [text |-> <<>>, prev |-> 0, state |-> NoTokens], spans)
  IN [text |-> all.text \o SubSeq(text, all.prev + 1, Len(text)), state |-> all.state]

\* A fragment that is empty, goes back, or leaves the text is passed over.
Apply(text, spans, opts, shared) ==
  LET Lay(acc, s) ==
        IF s.end <= s.start \/ s.start < acc.prev \/ s.end > Len(text) THEN acc
        ELSE LET laid == ApplySpan(acc.state, s, SubSeq(text, s.start + 1, s.end), opts)
             IN [text |-> acc.text \o SubSeq(text, acc.prev + 1, s.start) \o laid.text, prev |-> s.end, state |-> laid.state]
      all == FoldLeft(Lay, [text |-> <<>>, prev |-> 0, state |-> shared], spans)
  IN [text |-> all.text \o SubSeq(text, all.prev + 1, Len(text)), state |-> all.state]

-----------------------------------------------------------------------------
(* The way back (api/proxy.go).  A pair is what to look for in an answer    *)
(* and what to put there.                                                   *)

\* How JSON spells a rune within quotes, for some of those it does not spell as they
\* are (json.Marshal: the controls, <, > and & are spelled in some such way too).
Spelled(r) == CASE r \in {"quote", "\\"} -> <<"\\", r>> [] r = "nl" -> <<"\\", "n">> [] OTHER -> <<r>>

\* A value is put into the answer in the spelling of JSON, though the answer is no
\* JSON any more at that point, and is made JSON of again later.
Quoted(value) == FlattenSeq([i \in DOMAIN value |-> Spelled(value[i])])

\* The ways a model may write a placeholder; a substitute has no brackets to lose.
Variants(token) ==
  LET bare == token # <<>> /\ token[1] = "[" /\ Last(token) = "]"
      inner == IF bare THEN SubSeq(token, 2, Len(token) - 1) ELSE token
  IN {token, <<"[">> \o [i \in DOMAIN inner |-> IF inner[i] = "_" THEN " " ELSE inner[i]] \o <<"]">>,
      <<"<">> \o inner \o <<">">>, <<"{">> \o inner \o <<"}">>, inner}

RestorePairs(token, value) == {[from |-> v, to |-> Quoted(value)] : v \in Variants(token) \ {<<>>}}

\* Mutant of Choice: the shortest of the patterns that fit.
ChoiceOfShortest(fitting) == CHOOSE p \in fitting : \A q \in fitting : Len(p.from) <= Len(q.from)

\* The patterns are tried from the longest.
Choice(fitting) == CHOOSE p \in fitting : \A q \in fitting : Len(q.from) <= Len(p.from)

\* One pass: what was put in is not read again.
Replaced(text, pairs) ==
  LET At(acc, i) ==
        LET fitting == {p \in pairs : IsPrefix(p.from, SubSeq(text, i, Len(text)))}
        IN IF acc.skip > 0 THEN [acc EXCEPT !.skip = @ - 1]
           ELSE IF fitting = {} THEN [acc EXCEPT !.out = Append(@, text[i])]
           ELSE [out |-> acc.out \o Choice(fitting).to, skip |-> Len(Choice(fitting).from) - 1]
  IN FoldLeftDomain(At, [out |-> <<>>, skip |-> 0], text).out

-----------------------------------------------------------------------------
(* What looks masked.  A share is a pair: how many runes of how many.       *)

Visible(text) == {i \in DOMAIN text : ~IsSpace(text[i])}

\* Mutant of StarShare: spaces count.
StarShareOfAll(text) == <<Cardinality({i \in DOMAIN text : text[i] = "*"}), Len(text)>>

StarShare(text) == <<Cardinality({i \in DOMAIN text : text[i] = "*"}), Cardinality(Visible(text))>>

\* Upper case letters and underlines, an underline, digits.
IsToken(s) ==
  LET inner == SubSeq(s, 2, Len(s) - 1)
      lines == {i \in DOMAIN inner : inner[i] = "_"}
  IN /\ Len(s) >= 5 /\ s[1] = "[" /\ Last(s) = "]"
     /\ lines # {}
     /\ LET at == Max(lines)
        IN /\ at > 1 /\ at < Len(inner)
           /\ \A i \in 1..(at - 1) : inner[i] \in {"A", "_"}
           /\ \A i \in (at + 1)..Len(inner) : IsDigit(inner[i])

\* The rune at which the placeholder begun at i ends, or 0.
TokenEnd(text, i) ==
  LET ends == {j \in (i + 1)..Len(text) : text[j] = "]"}
  IN IF text[i] # "[" \/ ends = {} THEN 0
     ELSE IF IsToken(SubSeq(text, i, Min(ends))) THEN Min(ends) ELSE 0

TokenShare(text) ==
  LET held == UNION {i..TokenEnd(text, i) : i \in {i \in DOMAIN text : TokenEnd(text, i) # 0}}
  IN <<Cardinality(held), Cardinality(Visible(text) \cup held)>>

InitialsShare(text) ==
  LET Is(i) == \/ IsLetter(text[i]) /\ i < Len(text) /\ text[i + 1] = "."
               \/ text[i] = "." /\ i > 1 /\ IsLetter(text[i - 1])
  IN <<Cardinality({i \in Visible(text) : Is(i)}), Cardinality(Visible(text))>>

Half(share) == share[2] > 0 /\ 2 * share[1] >= share[2]

LooksMasked(text, preset) ==
  /\ text # <<>>
  /\ Half(CASE preset = "token" -> TokenShare(text)
            [] preset = "initials" -> InitialsShare(text)
            [] OTHER -> StarShare(text))
=============================================================================
