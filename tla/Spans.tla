------------------------------- MODULE Spans -------------------------------
(***************************************************************************)
(* internal/pii/types.go and registry.go: the fragments of personal data   *)
(* the detectors report, their order, and Resolve, which keeps of those    *)
(* that overlap the longest, of equal ones the one of the higher type, and *)
(* of equal types the surer.                                               *)
(***************************************************************************)
LOCAL INSTANCE Integers
LOCAL INSTANCE Sequences
LOCAL INSTANCE SequencesExt

\* The part of typePriority a small instance needs, a number for every type.
Priority == [CARD |-> 100, INN |-> 90, PHONE |-> 85, DOB |-> 60, BIRTH_PLACE |-> 46,
             ADDRESS |-> 45, FIO |-> 35, PIN |-> 14, custom |-> 0]

Length(s) == s.end - s.start
Valid(s) == s.start >= 0 /\ s.end > s.start
Overlaps(s, o) == s.start < o.end /\ o.start < s.end

Earlier(s, o) ==
  \/ s.start < o.start
  \/ s.start = o.start /\ Length(s) > Length(o)
  \/ s.start = o.start /\ Length(s) = Length(o) /\ s.conf > o.conf

\* A stable sort.
SortSpans(spans) ==
  LET InOrder(i, j) == Earlier(spans[i], spans[j]) \/ (~Earlier(spans[j], spans[i]) /\ i < j)
      order == SetToSortSeq(DOMAIN spans, InOrder)
  IN [k \in DOMAIN spans |-> spans[order[k]]]

\* Mutant of Better: priority before length.
BetterByType(a, b) == Priority[a.type] > Priority[b.type]

Better(a, b) ==
  IF Length(a) # Length(b) THEN Length(a) > Length(b)
  ELSE IF Priority[a.type] # Priority[b.type] THEN Priority[a.type] > Priority[b.type]
  ELSE a.conf > b.conf

\* The detectors in turn; the one that panics is left out, and its types reported.
DetectWith(detectors, Detects(_), panics) ==
  [spans |-> SortSpans(FlattenSeq([i \in DOMAIN detectors |-> IF detectors[i] \in panics THEN <<>> ELSE Detects(detectors[i])])),
   failed |-> ToSet(detectors) \cap panics]

\* What is kept once one more fragment has been looked at.
Considered(kept, s, minConf) ==
  LET conflicts == {i \in DOMAIN kept : Overlaps(kept[i], s)}
      first == CHOOSE i \in conflicts : \A j \in conflicts : i <= j
  IN IF ~Valid(s) \/ s.conf < minConf THEN kept
     ELSE IF conflicts = {} THEN Append(kept, s)
     ELSE IF Better(s, kept[first]) THEN [kept EXCEPT ![first] = s]
     ELSE kept

\* Mutant of Kept: the fragments are taken in the order the detectors gave them.
KeptAsFound(spans, minConf) == FoldLeft(LAMBDA kept, s : Considered(kept, s, minConf), <<>>, spans)

Kept(spans, minConf) == FoldLeft(LAMBDA kept, s : Considered(kept, s, minConf), <<>>, SortSpans(spans))

Resolve(spans, minConf) == SortSpans(Kept(spans, minConf))
=============================================================================
