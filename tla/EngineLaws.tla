------------------------------ MODULE EngineLaws ------------------------------
(***************************************************************************)
(* What must hold of the engine: of a long text read in chunks, of people  *)
(* told apart, and of what is masked in the end (internal/engine).         *)
(***************************************************************************)
EXTENDS Algorithms

Cuts == INSTANCE Chunks
People == INSTANCE Subjects
Pipe == INSTANCE Engine
Places == INSTANCE Spans

-----------------------------------------------------------------------------
(* Long texts.                                                              *)

\* The bytes of a text of runes.
Bytes(runes) == FlattenSeq([i \in DOMAIN runes |-> IF runes[i] = "ya" THEN <<"L", "C">> ELSE <<runes[i]>>])

\* Chunks are whole runes, they cover the text, and neighbours share enough for
\* a fragment up to the overlap to lie in one of them (splitBounds, alignRune).
ChunksMissNothing ==
  kind = "long" =>
    LET text == Bytes(input)
        bounds == Cuts!SplitBounds(text)
        Holds(lo, hi) == \E k \in DOMAIN bounds : bounds[k][1] <= lo /\ hi <= bounds[k][2]
    IN /\ \A k \in DOMAIN bounds : Cuts!RuneStart(text, bounds[k][1]) /\ Cuts!RuneStart(text, bounds[k][2])
       /\ \A lo, hi \in 0..Len(text) :
            lo < hi /\ hi - lo <= Cuts!ChunkOverlap /\ Cuts!RuneStart(text, lo) /\ Cuts!RuneStart(text, hi) => Holds(lo, hi)

Faults(bounds) == [DOMAIN bounds -> {{}, {"FIO"}, {"chunk"}}]

\* A fragment of a long text is reported once, at its own place, unless each
\* chunk that holds it failed for its type; then the answer is degraded, and
\* names the type if its detector failed (detectChunk, dedupSpans, degradation).
LostPartsAreTold ==
  kind = "long" =>
    LET text == Bytes(input)
        bounds == Cuts!SplitBounds(text)
        Holding(s) == {k \in DOMAIN bounds : bounds[k][1] <= s.start /\ s.end <= bounds[k][2]}
        Fails(fault, k, s) == fault[k] \cap {"chunk", s.type} # {}
        true == UNION {ToSet(Cuts!Found(text, type)) : type \in ToSet(Cuts!Detectors)}
    IN Len(text) > Cuts!ChunkThreshold =>
         \A fault \in Faults(bounds) :
           LET got == Cuts!DetectDoc(text, fault)
           IN /\ IsInjective(got.spans) /\ ToSet(got.spans) \subseteq true
              /\ \A s \in true \ ToSet(got.spans) :
                   /\ got.degraded
                   /\ \A k \in Holding(s) : Fails(fault, k, s) /\ ("chunk" \notin fault[k] => s.type \in got.failed)
-----------------------------------------------------------------------------
(* People (subjects.go).                                                    *)

TypeOf == [r \in {"A", "a", "7", "1"} |-> CASE r \in {"A", "a"} -> "FIO" [] r = "7" -> "CARD" [] r = "1" -> "PIN"]

\* The fragments of a text where every sign but spaces and stops is one.
Seen(text) ==
  LET Fragment(i) == [type |-> TypeOf[text[i]], start |-> i - 1, end |-> i, conf |-> 1]
  IN FoldLeftDomain(LAMBDA seen, i : IF text[i] \in DOMAIN TypeOf THEN Append(seen, Fragment(i)) ELSE seen, <<>>, text)

Together == [contextRules |-> TRUE, rules |-> <<[mask |-> "PIN", requires |-> {"CARD"}], [mask |-> "FIO", requires |-> {"PIN"}]>>]

\* Nothing that ends a sentence between two runes; all lines of theirs labelled;
\* the same rune but for its case.
SameSentence(text, i, j) == \A k \in i..(j - 1) : text[k] # "nl" /\ ~(text[k] = "." /\ text[k + 1] \in {" ", "nl"})
SameForm(text, i, j) ==
  LET line == Max({k \in 1..i : k = 1 \/ text[k - 1] = "nl"})
  IN \A k \in line..j : k = line \/ text[k - 1] = "nl" => text[k] = "form"
SameValue(text, i, j) == People!Lower(text[i]) = People!Lower(text[j])

Linked(text, i, j) == SameSentence(text, i, j) \/ SameForm(text, i, j) \/ SameValue(text, i, j)

\* What is masked only together with a type is masked just when a chain of links
\* leads to a fragment of this type, however long and over whatever other
\* people's fragments (components, applyContextRules).
MaskedOnlyTogether ==
  kind = "people" =>
    LET spans == Seen(input)
        kept == Pipe!ApplyContextRules(spans, People!LinkSubjects(input, spans).subjects, Together)
        links == {e \in (DOMAIN spans) \X (DOMAIN spans) : e[1] < e[2] /\ Linked(input, spans[e[1]].end, spans[e[2]].end)}
        closed == {group \in SUBSET DOMAIN spans : \A e \in links : e[1] \in group <=> e[2] \in group}
        Reaches(i, types) == \A group \in closed : i \in group => \E m \in group : spans[m].type \in types
    IN \A i \in DOMAIN spans :
         spans[i] \in ToSet(kept) <=> \A k \in 1..2 : spans[i].type = Together.rules[k].mask => Reaches(i, Together.rules[k].requires)

-----------------------------------------------------------------------------
(* The whole way of the fragments (engine.go, inspect.go).                  *)

Body == <<"A", "a", " ", "7", "7", ".", " ", "A", "a">>
Systems == [types : {{"FIO", "CARD", "DOB", "PIN"}, {"FIO", "DOB", "ADDRESS"}}, dates : {"anchor_only", "any"}, contextRules : BOOLEAN,
            rules : {Together.rules}, minConf : {2}, preset : {"full"}, inspect : {TRUE}]

\* Masked is what a system wants masked, and all of it but what lost its place to
\* another that is wanted too: what a system does not mask, what its lists know and
\* what is not sure enough takes no place from anything (Engine.Mask).
WantedIsKept ==
  kind = "found" =>
    \A sys \in {s \in Systems : ~s.contextRules} :
      LET kept == ToSet(Pipe!Mask(Body, input, sys).spans)
          wanted == {s \in ToSet(input) : /\ s.type \in sys.types /\ ~s.known /\ s.conf >= sys.minConf
                                           /\ (s.type = "DOB" /\ sys.dates = "anchor_only" => s.anchored)}
      IN /\ kept \subseteq wanted
         /\ \A s \in wanted \ kept : \E o \in wanted : Places!Overlaps(o, s) /\ o # s /\ ~Places!Better(s, o)

\* With the pieces of mask an inspection shows put in the place of the values it
\* shows, the text becomes the masked one: bytes and runes are not mixed up
\* (inspectSpans, runeOffsets).
InspectShowsTheMask ==
  kind = "found" =>
    \A sys \in {s \in Systems : ~s.contextRules} :
      LET out == Pipe!Inspect("POST", Body, "partial", sys, input)
          Here(p) == {k \in DOMAIN out.spans : out.spans[k].startRune < p /\ p <= out.spans[k].endRune}
      IN /\ \A p \in DOMAIN Body : out.masked[p] = IF Here(p) = {} THEN Body[p]
                                                   ELSE LET s == out.spans[Max(Here(p))] IN s.masked[p - s.startRune]
         /\ \A k \in DOMAIN out.spans :
              out.spans[k].value = SubSeq(Body, out.spans[k].startRune + 1, out.spans[k].endRune)

\* The people of an answer are made of its own fragments, each of one person, and
\* a link never joins two; no fragment is told both masked and left out.
AnswerIsOfItsOwn ==
  kind = "found" =>
    \A sys \in {s \in Systems : s.contextRules} :
      LET out == Pipe!Inspect("POST", Body, "", sys, input)
          all == UNION ToSet(out.subjects)
      IN /\ all \in {{}, DOMAIN out.spans} /\ (all = {} => Len(out.spans) < 2)
         /\ \A e \in out.edges : \E k \in DOMAIN out.subjects : {e[1], e[2]} \subseteq out.subjects[k]
         /\ \A k, m \in DOMAIN out.subjects : k # m => out.subjects[k] \cap out.subjects[m] = {}
         /\ ToSet(Pipe!Mask(Body, input, sys).spans) \cap ToSet(out.skipped) = {}

-----------------------------------------------------------------------------
\* Reading a long text in chunks with faults loses nothing in silence, and people
\* are told apart by whole chains of links (engine.go, subjects.go).
PartsMakeAWhole ==
  [][Run => ChunksMissNothing /\ LostPartsAreTold /\ MaskedOnlyTogether]_vars

\* From the fragments found to the text masked, nothing wanted gives way to what
\* is not, and an inspection shows what was done (Engine.Mask, handleInspect).
WhatIsWantedIsMasked ==
  [][Run => WantedIsKept /\ InspectShowsTheMask /\ AnswerIsOfItsOwn]_vars
=============================================================================
