-------------------------------- MODULE Chunks --------------------------------
(***************************************************************************)
(* internal/engine/engine.go, detectDoc: a long text is cut into chunks    *)
(* that overlap, each is read by itself, and what they found is put        *)
(* together.  A detector, or all of a chunk, may fail: it is left out and  *)
(* the answer says so.                                                     *)
(*                                                                         *)
(* A text is the sequence of its bytes: "a", " ", "nl", or a rune of two   *)
(* bytes, "L" and "C".  A detector finds every place of its pattern.       *)
(***************************************************************************)
LOCAL INSTANCE Integers
LOCAL INSTANCE Sequences
LOCAL INSTANCE SequencesExt
LOCAL INSTANCE FiniteSetsExt
LOCAL INSTANCE Spans

\* 32 KiB, 512 and 64 KiB in the code.
ChunkTarget == 4
ChunkOverlap == 3
ChunkThreshold == 6

Detectors == <<"CARD", "FIO">>
Pattern == [CARD |-> <<"a", "a">>, FIO |-> <<"L", "C", "a">>]

\* A rune starts at an offset, or the text ends there.
RuneStart(text, off) == off >= Len(text) \/ text[off + 1] # "C"

\* Mutant of AlignRune: an offset is taken as it is.
AlignRuneNot(text, off) == off

AlignRune(text, off) == Max({o \in 0..off : o = 0 \/ RuneStart(text, o)})

\* The last line break of the second half, else the last space, else the end.
PreferredBreak(text, start, end) ==
  LET after(b) == {i \in (start + (ChunkTarget \div 2) + 1)..end : text[i] = b}
  IN AlignRune(text, IF after("nl") # {} THEN Max(after("nl")) ELSE IF after(" ") # {} THEN Max(after(" ")) ELSE end)

SplitBounds(text) ==
  LET Cut(acc, k) ==
        LET end == acc.start + ChunkTarget
            break == PreferredBreak(text, acc.start, end)
        IN IF acc.start >= Len(text) THEN acc
           ELSE IF end >= Len(text) THEN [start |-> Len(text), bounds |-> Append(acc.bounds, <<acc.start, Len(text)>>)]
           ELSE [start |-> break,
                 bounds |-> Append(acc.bounds, <<acc.start, AlignRune(text, Min({break + ChunkOverlap, Len(text)}))>>)]
  IN FoldLeft(Cut, [start |-> 0, bounds |-> <<>>], [k \in 1..Len(text) |-> k]).bounds

\* What a detector finds in a text.
Found(text, type) ==
  LET at == {i \in 1..Len(text) : IsPrefix(Pattern[type], SubSeq(text, i, Len(text)))}
      Span(i) == [type |-> type, start |-> i - 1, end |-> i - 1 + Len(Pattern[type]), conf |-> 1]
  IN SetToSortSeq({Span(i) : i \in at}, LAMBDA s, o : s.start < o.start)

Detect(text, fault) == DetectWith(Detectors, LAMBDA type : Found(text, type), fault)

\* Mutant of DetectChunk: the offsets of the chunk are reported.
DetectChunkUnmoved(text, bound, fault) ==
  LET found == Detect(SubSeq(text, bound[1] + 1, bound[2]), fault)
  IN IF "chunk" \in fault THEN [spans |-> <<>>, failed |-> {}, degraded |-> TRUE]
     ELSE [spans |-> found.spans, failed |-> found.failed, degraded |-> found.failed # {}]

\* fault: the detectors that panic, and "chunk" if the reading of it does.
DetectChunk(text, bound, fault) ==
  LET found == Detect(SubSeq(text, bound[1] + 1, bound[2]), fault)
      Moved(s) == [s EXCEPT !.start = @ + bound[1], !.end = @ + bound[1]]
  IN IF "chunk" \in fault THEN [spans |-> <<>>, failed |-> {}, degraded |-> TRUE]
     ELSE [spans |-> [i \in DOMAIN found.spans |-> Moved(found.spans[i])], failed |-> found.failed, degraded |-> found.failed # {}]

\* Of those alike in place and priority the first one.
DedupSpans(parts) ==
  LET Key(s) == <<s.start, s.end, Priority[s.type]>>
      Add(out, s) == IF \E i \in DOMAIN out : Key(out[i]) = Key(s) THEN out ELSE Append(out, s)
  IN SortSpans(FoldLeft(Add, <<>>, FlattenSeq(parts)))

\* The chunks are read by workers, in any order; each writes a place of its own,
\* and the faults are gathered under a lock.  fault[k] is that of the chunk k; a
\* short text has one chunk, whose reading fails by detectors only.
DetectDoc(text, fault) ==
  LET bounds == SplitBounds(text)
      read == [k \in DOMAIN bounds |-> DetectChunk(text, bounds[k], fault[k])]
      whole == Detect(text, fault[1])
  IN IF Len(text) <= ChunkThreshold
     THEN [spans |-> whole.spans, failed |-> whole.failed, degraded |-> whole.failed # {}]
     ELSE [spans |-> DedupSpans([k \in DOMAIN read |-> read[k].spans]),
           failed |-> UNION {read[k].failed : k \in DOMAIN read},
           degraded |-> \E k \in DOMAIN read : read[k].degraded]
=============================================================================
