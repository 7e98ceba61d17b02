-------------------------------- MODULE Codec --------------------------------
(***************************************************************************)
(* internal/store/codec.go: a record of the store as bytes: its version,   *)
(* the mask, the system, the time it expires, the fragments, the text.     *)
(*                                                                         *)
(* A byte carries Base numbers instead of 128 and, from Base on, says that *)
(* the number goes on; a number has at most MaxBytes of them instead of    *)
(* ten.  The bytes are sealed with a key: with another they do not open.   *)
(***************************************************************************)
LOCAL INSTANCE Integers
LOCAL INSTANCE Sequences
LOCAL INSTANCE SequencesExt
LOCAL INSTANCE FiniteSetsExt

Base == 4
MaxBytes == 2
MaxOffset == 3    \* math.MaxInt32
MaxExpiry == 6    \* math.MaxInt64
RecordVersion == 1

\* binary.Uvarint: the number and how many bytes it took, none when it does not
\* end or is too long.
Uvarint(buf) ==
  LET ends == {i \in DOMAIN buf : buf[i] < Base}
      n == Min(ends)
  IN IF ends = {} \/ n > MaxBytes THEN [value |-> 0, n |-> 0]
     ELSE [value |-> FoldRight(LAMBDA b, sum : sum * Base + (b % Base), SubSeq(buf, 1, n), 0), n |-> n]

AppendUvarint(n) == IF n < Base THEN <<n>> ELSE <<Base + (n % Base), n \div Base>>

\* A reader: what is left, what was read last, and whether something went wrong.
Reader(buf) == [buf |-> buf, got |-> 0, err |-> FALSE]
Failed(r, got) == [r EXCEPT !.err = TRUE, !.got = got]

ByteAt(r) == IF r.buf = <<>> THEN Failed(r, 0) ELSE [r EXCEPT !.buf = Tail(@), !.got = r.buf[1]]

Uint(r) ==
  LET u == Uvarint(r.buf)
  IN IF r.err \/ u.n = 0 THEN Failed(r, 0) ELSE [r EXCEPT !.buf = SubSeq(@, u.n + 1, Len(@)), !.got = u.value]

\* Mutant of Str: as much as there is.
StrAsFar(r) ==
  LET len == Uint(r)
      n == Min({len.got, Len(len.buf)})
  IN IF len.err THEN Failed(len, <<>>) ELSE [len EXCEPT !.buf = SubSeq(@, n + 1, Len(@)), !.got = SubSeq(len.buf, 1, n)]

Str(r) ==
  LET len == Uint(r)
  IN IF len.err \/ len.got > Len(len.buf) THEN Failed(len, <<>>)
     ELSE [len EXCEPT !.buf = SubSeq(@, len.got + 1, Len(@)), !.got = SubSeq(len.buf, 1, len.got)]

UintToOffset(v) == IF v > MaxOffset THEN 0 ELSE v

\* As many fragments as are announced, and no more than there are bytes.
DecodeSpans(r) ==
  LET count == Uint(r)
      Read(acc, k) ==
        LET type == Str(acc.r)
            start == Uint(type)
            end == Uint(start)
        IN IF acc.r.err THEN acc
           ELSE [r |-> end, spans |-> Append(acc.spans, [type |-> type.got, start |-> UintToOffset(start.got), end |-> UintToOffset(end.got)])]
  IN IF count.err THEN [r |-> count, spans |-> <<>>]
     ELSE IF count.got > Len(count.buf) THEN [r |-> Failed(count, 0), spans |-> <<>>]
     ELSE FoldLeft(Read, [r |-> count, spans |-> <<>>], [k \in 1..count.got |-> k])

Sealed(key, bytes) == [key |-> key, bytes |-> bytes]
Open(key, blob) == IF blob.key = key THEN <<blob.bytes>> ELSE <<>>

\* The record, or none.  What is left over is not looked at.
Decode(key, blob) ==
  LET plain == Open(key, blob)
      version == ByteAt(Reader(plain[1]))
      mask == Str(version)
      system == Str(mask)
      expires == Uint(system)
      list == DecodeSpans(expires)
      original == Str(list.r)
  IN IF plain = <<>> THEN <<>>
     ELSE IF version.got # RecordVersion \/ original.err \/ expires.got > MaxExpiry THEN <<>>
     ELSE <<[original |-> original.got, mask |-> mask.got, system |-> system.got, spans |-> list.spans, expires |-> expires.got]>>

AppendString(s) == AppendUvarint(Len(s)) \o s

Encode(key, e) ==
  LET Span(sp) == AppendString(sp.type) \o AppendUvarint(sp.start) \o AppendUvarint(sp.end)
  IN Sealed(key, <<RecordVersion>> \o AppendString(e.mask) \o AppendString(e.system) \o AppendUvarint(e.expires)
                 \o AppendUvarint(Len(e.spans)) \o FlattenSeq([i \in DOMAIN e.spans |-> Span(e.spans[i])])
                 \o AppendString(e.original))
=============================================================================
