------------------------------- MODULE LogLaws -------------------------------
(***************************************************************************)
(* What must hold of what the journal writes (internal/logging).           *)
(***************************************************************************)
EXTENDS Algorithms

Log == INSTANCE Redaction

\* A value is a sequence of runes; the input is made of pieces of one.
Value == FlattenSeq(input)

Slice(i, j) == SubSeq(Value, i, j)
Stretches(Is(_)) == {p \in (DOMAIN Value) \X (DOMAIN Value) : p[1] <= p[2] /\ \A k \in p[1]..p[2] : Is(Value[k])}

\* A group of digits with its separators, as far as it goes.
DigitGroups ==
  {p \in Stretches(LAMBDA r : Log!IsDigit(r) \/ Log!IsSep(r)) :
     /\ Log!IsDigit(Value[p[1]]) /\ ~\E k \in 1..(p[1] - 1) : Log!IsDigit(Value[k]) /\ \A m \in k..p[1] : Log!IsDigit(Value[m]) \/ Log!IsSep(Value[m])
     /\ p[2] = Len(Value) \/ ~(Log!IsDigit(Value[p[2] + 1]) \/ Log!IsSep(Value[p[2] + 1]))}

\* Four short groups with dots between and after.
IsAddress(p) ==
  LET ends == {k \in p[1]..p[2] : Log!IsDigit(Value[k]) /\ (k = p[2] \/ ~Log!IsDigit(Value[k + 1]))}
  IN /\ \A k \in p[1]..p[2] : Value[k] \in {"7", "."}
     /\ Cardinality(ends) = 4
     /\ \A k \in p[1]..(p[2] - 3) : ~(\A m \in k..(k + 3) : Log!IsDigit(Value[m]))

HasNumber ==
  \E p \in DigitGroups : ~IsAddress(p) /\ Len(SelectSeq(Slice(p[1], p[2]), Log!IsDigit)) >= 6

\* Letter, at, dot and letter, with no digit right before the at.
HasMail ==
  \E a, d, l \in DOMAIN Value :
    /\ Value[a] = "@" /\ a < d /\ Value[d] = "." /\ d < l /\ Log!IsLetter(Value[l])
    /\ \E k \in 1..(a - 1) : Log!IsLetter(Value[k]) /\ \A m \in (k + 1)..(a - 1) : Log!IsSep(Value[m])

Words(Is(_)) == {p \in Stretches(Log!IsLetter) : /\ p[1] = 1 \/ ~Log!IsLetter(Value[p[1] - 1])
                                                 /\ p[2] = Len(Value) \/ ~Log!IsLetter(Value[p[2] + 1])
                                                 /\ Is(p)}
NameWords == Words(LAMBDA p : p[2] - p[1] >= 2 /\ Value[p[1]] = "C" /\ \A k \in (p[1] + 1)..p[2] : Value[k] = "c")
UpperWords == Words(LAMBDA p : p[2] - p[1] >= 3 /\ \A k \in p[1]..p[2] : Value[k] = "U")

HasName == Cardinality(NameWords) >= 2

\* Nothing but words in capitals, one space apart.
IsHolder == Cardinality(UpperWords) >= 2 /\ \A k \in DOMAIN Value : Value[k] = "U" \/ (Value[k] = " " /\ k > 1)

\* A value with six digits that only separators part, an address of mail, or two
\* names, is kept out of the journal wherever in the value it stands; and what has
\* none of these is written, an address of the network with no space after it among them
\* (scanner).
SecretsAreSeen ==
  kind = "log" /\ Log!Bytes(Value) \in 6..512 =>
    /\ HasNumber \/ HasMail \/ HasName \/ IsHolder => Log!Suspect(Value)
    /\ Log!Suspect(Value) => HasNumber \/ HasMail \/ HasName \/ Cardinality(UpperWords) >= 2

Given == SelectSeq(input, LAMBDA x : x.how = "with")
Own == SelectSeq(input, LAMBDA x : x.how = "record")
FieldsOf(xs) == [i \in DOMAIN xs |-> xs[i].field]
Contexts == [id : {<<>>, <<"u", "7">>, <<"7", "7", "7", "7", "7", "7">>}, system : {<<>>, <<"u">>}]
Messages == {<<"u">>, <<"7", "7", "7", "7", "7", "7">>}
Written(message, ctx) == Log!Handle(FieldsOf(Given), FieldsOf(Own), message, ctx)

\* No field the handler writes holds a suspect string under a key that is not the
\* service's own, nor an identifier that looks like a number of a document,
\* whether the field came with the record, with the logger or with the request,
\* and however deep it lay (guard.Handle, WithAttrs).
NothingSuspectIsWritten ==
  kind = "fields" =>
    \A message \in Messages, ctx \in Contexts :
      LET out == Written(message, ctx)
      IN /\ ~Log!Suspect(out.message)
         /\ \A i \in DOMAIN out.fields :
              LET f == out.fields[i]
                  last == f.path[Len(f.path)]
              IN IF last \in Log!IDFields /\ f.value.kind = "string" THEN Log!IDPlausible(f.value.text)
                 ELSE ToSet(f.path) \cap (Log!Trusted \cup Log!IDFields) = {} => ~Log!SuspectValue(f.value)

\* Every record has its event and its duration, and the request and the system when
\* they are known, and no key twice unless the caller gave it twice (addRequired).
RecordsAreWhole ==
  kind = "fields" =>
    \A message \in Messages, ctx \in Contexts :
      LET Count(fields, key) == Cardinality({i \in DOMAIN fields : fields[i].path = <<key>>})
          out == Written(message, ctx).fields
          in == FieldsOf(input)
      IN \A key \in {"event", "duration", "request_id", "system"} :
           Count(out, key) = Max({Count(in, key),
                                  IF (key = "request_id" /\ ctx.id = <<>>) \/ (key = "system" /\ ctx.system = <<>>) THEN 0 ELSE 1})

-----------------------------------------------------------------------------
\* The journal holds nobody's data, wherever in a record they stand, and every
\* record is whole (scan.go, redact.go).
JournalIsClean ==
  [][Run => SecretsAreSeen /\ NothingSuspectIsWritten /\ RecordsAreWhole]_vars
=============================================================================
