-------------------------------- MODULE Engine --------------------------------
(***************************************************************************)
(* internal/engine/engine.go, Mask: of the fragments the detectors found,  *)
(* those of the types of a system go through its rules, its exclusions and *)
(* the fight for the same place, and what is left is masked; and           *)
(* internal/api/inspect.go, which shows all that.                          *)
(*                                                                         *)
(* A text is a sequence of runes; a letter takes two bytes, all else one.  *)
(* A fragment is of runes, and in the answer of an inspection of bytes.    *)
(***************************************************************************)
LOCAL INSTANCE Integers
LOCAL INSTANCE Sequences
LOCAL INSTANCE SequencesExt
LOCAL INSTANCE FiniteSets
LOCAL INSTANCE FiniteSetsExt
LOCAL INSTANCE Masks
LOCAL INSTANCE Spans
LOCAL INSTANCE Subjects

FilterByTypes(spans, sys) == SelectSeq(spans, LAMBDA s : s.type \in sys.types)

\* Under anchor_only a date needs its anchor.
FilterDatesByMode(spans, sys) ==
  SelectSeq(spans, LAMBDA s : sys.dates # "anchor_only" \/ s.type \notin {"DOB", "ISSUE_DATE"} \/ s.anchored)

SubjectTypes(spans, subject) == {spans[k].type : k \in subject}

\* Somebody a fragment is of has a fragment of one of these types.
SubjectHasAny(spans, subjects, i, requires) ==
  \E k \in DOMAIN subjects : i \in subjects[k] /\ SubjectTypes(spans, subjects[k]) \cap requires # {}

\* What a rule masks only together with something else goes, without it; all
\* rules look at the fragments as they were.
ApplyContextRules(spans, subjects, sys) ==
  LET blocked == {i \in DOMAIN spans : \E k \in DOMAIN sys.rules :
                    spans[i].type = sys.rules[k].mask /\ ~SubjectHasAny(spans, subjects, i, sys.rules[k].requires)}
  IN IF ~sys.contextRules THEN spans
     ELSE FoldLeftDomain(LAMBDA left, i : IF i \in blocked THEN left ELSE Append(left, spans[i]), <<>>, spans)

Answer(text, kept, skipped, links, sys) ==
  LET plain == [k \in DOMAIN kept |-> [kept[k] EXCEPT !.type = <<@>>]]
  IN [spans |-> kept, skipped |-> skipped, text |-> Apply(text, plain, [default |-> sys.preset, perType |-> <<>>], NoTokens).text,
      edges |-> IF sys.contextRules THEN links.edges ELSE {}, subjects |-> IF sys.contextRules THEN links.subjects ELSE <<>>]

\* What the contextual filter (Context) takes away is marked as known.
Excluded(s) == s.known

Typed(found, sys) == FilterDatesByMode(FilterByTypes(found, sys), sys)

\* Mutant of Mask: the fight comes before the types.
MaskLate(text, found, sys) ==
  LET typed == Typed(Resolve(found, sys.minConf), sys)
      linked == ApplyContextRules(typed, LinkSubjects(text, typed).subjects, sys)
      kept == SelectSeq(linked, LAMBDA s : ~Excluded(s))
  IN Answer(text, kept, SelectSeq(linked, LAMBDA s : Excluded(s)), LinkSubjects(text, kept), sys)

\* Mutant of Mask: the people of the answer are those the rules went by.
MaskLinkedOnce(text, found, sys) ==
  LET typed == Typed(found, sys)
      links == LinkSubjects(text, typed)
      linked == ApplyContextRules(typed, links.subjects, sys)
      judged == SelectSeq(linked, LAMBDA s : ~Excluded(s))
      kept == Resolve(judged, sys.minConf)
      lost == SelectSeq(judged, LAMBDA s : Valid(s) /\ s \notin ToSet(kept))
  IN Answer(text, kept, lost \o SelectSeq(linked, LAMBDA s : Excluded(s)), links, sys)

\* What a rule blocked is told nowhere.  The people of the answer are of what is left.
Mask(text, found, sys) ==
  LET typed == Typed(found, sys)
      linked == ApplyContextRules(typed, LinkSubjects(text, typed).subjects, sys)
      judged == SelectSeq(linked, LAMBDA s : ~Excluded(s))
      kept == Resolve(judged, sys.minConf)
      lost == SelectSeq(judged, LAMBDA s : Valid(s) /\ s \notin ToSet(kept))
  IN Answer(text, kept, lost \o SelectSeq(linked, LAMBDA s : Excluded(s)), LinkSubjects(text, kept), sys)

-----------------------------------------------------------------------------
(* What an inspection shows.                                                *)

Width(r) == IF IsLetter(r) THEN 2 ELSE 1
ByteOffset(text, i) == FoldLeft(LAMBDA sum, r : sum + Width(r), 0, SubSeq(text, 1, i))

Starts(text) == {ByteOffset(text, i) : i \in 0..(Len(text) - 1)}

\* Mutant of RuneOffsets: the end of the text is still its last rune.
RuneOffsetsInside(text) ==
  LET starts == Starts(text)
  IN [off \in 0..ByteOffset(text, Len(text)) |-> Cardinality({b \in starts : b <= off}) - 1]

\* The number of the rune a byte is in; the end of the text is after the last.
RuneOffsets(text) ==
  LET starts == Starts(text)
      size == ByteOffset(text, Len(text))
  IN [off \in 0..size |-> IF off = size THEN Len(text) ELSE Cardinality({b \in starts : b <= off}) - 1]

\* The piece of the mask in the place of a fragment, if the mask is as long as the text.
InspectSpans(text, masked, spans) ==
  LET runeAt == RuneOffsets(text)
      Shown(s) ==
        LET start == ByteOffset(text, s.start)
            end == ByteOffset(text, s.end)
            fits == Len(masked) = Len(text) /\ runeAt[end] <= Len(masked)
        IN [type |-> s.type, start |-> start, end |-> end, startRune |-> runeAt[start], endRune |-> runeAt[end],
            value |-> SubSeq(text, s.start + 1, s.end),
            masked |-> IF fits THEN SubSeq(masked, runeAt[start] + 1, runeAt[end]) ELSE <<>>]
  IN [k \in DOMAIN spans |-> Shown(spans[k])]

InspectSkipped(text, skipped) ==
  LET Inside(s) == s.start >= 0 /\ s.end <= Len(text) /\ s.start < s.end
  IN SelectSeq(skipped, Inside)

\* handleInspect: the text of a system that may inspect, under a preset for once.
Inspect(method, text, preset, sys, found) ==
  LET once == [sys EXCEPT !.preset = IF preset = "" THEN @ ELSE preset]
      res == Mask(text, found, once)
  IN CASE method # "POST" -> [status |-> 405]
       [] method = "POST" /\ text = <<>> -> [status |-> 422]
       [] method = "POST" /\ text # <<>> /\ ~sys.inspect -> [status |-> 403]
       [] method = "POST" /\ text # <<>> /\ sys.inspect /\ preset # "" /\ preset \notin Presets -> [status |-> 422]
       [] OTHER -> [status |-> 200, preset |-> once.preset, masked |-> res.text, spans |-> InspectSpans(text, res.text, res.spans),
                    skipped |-> InspectSkipped(text, res.skipped), edges |-> res.edges, subjects |-> res.subjects]
=============================================================================
