------------------------------- MODULE Subjects -------------------------------
(***************************************************************************)
(* internal/engine/subjects.go: which fragments are of one person.  Two    *)
(* are linked if they stand in one sentence, in one form, or have the same *)
(* value; a person is what is linked, over any number of links.            *)
(*                                                                         *)
(* A text is a sequence of runes, "form" standing for a label with its     *)
(* colon; fragments begin and end at rune offsets.                         *)
(***************************************************************************)
LOCAL INSTANCE Integers
LOCAL INSTANCE Sequences
LOCAL INSTANCE SequencesExt
LOCAL INSTANCE FiniteSets
LOCAL INSTANCE FiniteSetsExt

SentenceStop == {".", "!", "?", ";"}

\* A stop closes the sentence only before a space, a line break or the end.
StopEndsSentence(text, i) == i = Len(text) \/ text[i + 1] \in {" ", "nl"}

SentenceEnds(text) ==
  {i \in DOMAIN text : text[i] = "nl" \/ (text[i] \in SentenceStop /\ StopEndsSentence(text, i))}

\* The number of the sentence, or of the line, that an offset is in.
SentenceIndex(text, off) == Cardinality({i \in SentenceEnds(text) : i <= off})
LineIndex(text, off) == Cardinality({i \in 1..off : text[i] = "nl"})

\* A line of a form begins with a label.
HasFormAnchor(text, line) ==
  \E i \in DOMAIN text : text[i] = "form" /\ LineIndex(text, i - 1) = line /\ (i = 1 \/ text[i - 1] = "nl")

\* A form is lines with labels one after another: it is told by its first line.
FormIndex(text, off) ==
  LET line == LineIndex(text, off)
  IN IF ~HasFormAnchor(text, line) THEN -1
     ELSE Min({k \in 0..line : \A m \in k..line : HasFormAnchor(text, m)})

Lower(r) == IF r = "A" THEN "a" ELSE r

\* In lower case, with one space between words.
NormalizeValue(value) ==
  LET words == {i \in DOMAIN value : value[i] # " "}
      Stays(i) == i \in words \/ (i + 1 \in words /\ \E j \in words : j < i)
  IN FoldLeftDomain(LAMBDA out, i : IF Stays(i) THEN Append(out, Lower(value[i])) ELSE out, <<>>, value)

Pairs(spans, Same(_, _)) ==
  {e \in (DOMAIN spans) \X (DOMAIN spans) : e[1] < e[2] /\ Same(spans[e[1]], spans[e[2]])}

LinkBySentence(text, spans) ==
  Pairs(spans, LAMBDA s, o : SentenceIndex(text, s.start) = SentenceIndex(text, o.start))

LinkByAnchor(text, spans) ==
  Pairs(spans, LAMBDA s, o : FormIndex(text, s.start) >= 0 /\ FormIndex(text, s.start) = FormIndex(text, o.start))

LinkByRepeat(text, spans) ==
  LET Value(s) == NormalizeValue(SubSeq(text, s.start + 1, s.end))
  IN Pairs(spans, LAMBDA s, o : Value(s) # <<>> /\ Value(s) = Value(o))

GroupOf(groups, i) == CHOOSE g \in groups : i \in g

\* Mutant of Union: the second fragment changes sides alone, without its group.
UnionAlone(groups, e) ==
  LET g == GroupOf(groups, e[1])
      h == GroupOf(groups, e[2])
  IN IF g = h THEN groups ELSE (groups \ {g, h}) \cup ({g \cup {e[2]}, h \ {e[2]}} \ {{}})

\* union: the groups of the two become one, whichever is the root of it.
Union(groups, e) ==
  LET g == GroupOf(groups, e[1])
      h == GroupOf(groups, e[2])
  IN (groups \ {g, h}) \cup {g \cup h}

\* The people, in the order of their first fragments.
Components(n, edges) ==
  LET groups == FoldSet(LAMBDA e, gs : Union(gs, e), {{i} : i \in 1..n}, edges)
      Add(people, i) == IF Min(GroupOf(groups, i)) = i THEN Append(people, GroupOf(groups, i)) ELSE people
  IN FoldLeft(Add, <<>>, [i \in 1..n |-> i])

\* A fragment by itself is nobody's.
LinkSubjects(text, spans) ==
  LET edges == LinkBySentence(text, spans) \cup LinkByAnchor(text, spans) \cup LinkByRepeat(text, spans)
  IN IF Len(spans) < 2 THEN [edges |-> {}, subjects |-> <<>>]
     ELSE [edges |-> edges, subjects |-> Components(Len(spans), edges)]
=============================================================================
