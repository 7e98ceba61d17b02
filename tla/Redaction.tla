----------------------------- MODULE Redaction -----------------------------
(***************************************************************************)
(* internal/logging/scan.go and redact.go: what the journal takes for      *)
(* personal data, and the handler that stands before the output, cleans    *)
(* the fields of a record and adds the required ones.                      *)
(*                                                                         *)
(* A value is a sequence of runes by class: "7" a digit; ".", " " and "-"  *)
(* separators; "C" and "c" Cyrillic letters, capital and small; "U" and    *)
(* "u" Latin ones; "@" and ":" others; "big" as many small letters as a    *)
(* value may have bytes.                                                   *)
(***************************************************************************)
LOCAL INSTANCE Integers
LOCAL INSTANCE Sequences
LOCAL INSTANCE SequencesExt
LOCAL INSTANCE FiniteSetsExt

MinSuspectLen == 6
MaxValueBytes == 512
DigitRunLimit == 6
DigitGroupLimit == 6
NameWordsLimit == 2
NameWordLen == 3
UpperWordLen == 4
UpperNameLen == 9
MaxGroupDepth == 4
IDDigitLimit == 6

IsDigit(r) == r = "7"
IsSep(r) == r \in {".", " ", "-"}
IsLetter(r) == r \in {"C", "c", "U", "u", "big"}
IsLower(r) == r \in {"c", "u", "big"}

Bytes(s) == FoldLeft(LAMBDA n, r : n + (CASE r \in {"C", "c"} -> 2 [] r = "big" -> MaxValueBytes [] OTHER -> 1), 0, s)

-----------------------------------------------------------------------------
(* scanner: one pass over a value.  reason is what it was found to be.      *)

Fresh == [digitRun |-> 0, groupDigits |-> 0, groupRuns |-> 0, groupMaxRun |-> 0, onlyDots |-> TRUE,
          word |-> "", wordLen |-> 0, capWords |-> 0, upperRun |-> 0, hasLower |-> FALSE,
          lastLetter |-> FALSE, atSeen |-> FALSE, dotAfterAt |-> FALSE, reason |-> ""]

\* Words like parts of a name are counted over the whole value, those all in
\* capitals only one right after another.
EndWord(sc, term) ==
  LET keep == term \in {" ", "end"}
      name == sc.word = "cap" /\ sc.wordLen >= NameWordLen
      upper == sc.word = "upper" /\ sc.wordLen >= UpperWordLen
  IN [sc EXCEPT !.word = "", !.wordLen = 0,
                !.capWords = IF name THEN @ + 1 ELSE @,
                !.upperRun = IF ~keep \/ (sc.wordLen > 0 /\ ~upper) THEN 0 ELSE IF upper THEN @ + 1 ELSE @,
                !.reason = IF name /\ sc.capWords + 1 >= NameWordsLimit THEN "person_name" ELSE @]

\* An address of a network is four short groups with only dots.
IPLike(sc) == sc.onlyDots /\ sc.groupRuns = 4 /\ sc.groupMaxRun <= 3

CloseGroup(sc) ==
  [sc EXCEPT !.groupDigits = 0, !.groupRuns = 0, !.groupMaxRun = 0, !.onlyDots = TRUE,
             !.reason = IF sc.groupDigits >= DigitGroupLimit /\ ~IPLike(sc) THEN "digit_group" ELSE @]

AddLetter(sc, r) ==
  [sc EXCEPT !.hasLower = @ \/ IsLower(r),
             !.wordLen = @ + 1,
             !.word = IF sc.wordLen = 0 THEN (CASE r = "C" -> "cap" [] r = "U" -> "upper" [] OTHER -> "other")
                      ELSE IF (@ = "cap" /\ r # "c") \/ (@ = "upper" /\ r # "U") THEN "other" ELSE @]

FeedDigit(sc, r) ==
  LET ended == EndWord(sc, r)
      run == ended.digitRun + 1
  IN IF ended.reason # "" THEN ended
     ELSE [ended EXCEPT !.lastLetter = FALSE, !.digitRun = run, !.groupDigits = @ + 1,
                        !.groupRuns = IF run = 1 THEN @ + 1 ELSE @,
                        !.groupMaxRun = IF run > @ THEN run ELSE @,
                        !.reason = IF run >= DigitRunLimit THEN "digit_run" ELSE @]

\* Mutant of FeedSep: a separator parts two groups of digits.
FeedSepClosing(sc, r) == EndWord(CloseGroup([sc EXCEPT !.digitRun = 0, !.dotAfterAt = @ \/ (r = "." /\ sc.atSeen)]), r)

FeedSep(sc, r) ==
  EndWord([sc EXCEPT !.digitRun = 0,
                     !.onlyDots = @ /\ (sc.groupDigits > 0 => r = "."),
                     !.dotAfterAt = @ \/ (r = "." /\ sc.atSeen)], r)

\* A letter after a dot after an at: an address of mail.
FeedLetter(sc, r) ==
  LET closed == CloseGroup([sc EXCEPT !.digitRun = 0])
  IN IF sc.dotAfterAt THEN [sc EXCEPT !.reason = "email"]
     ELSE IF closed.reason # "" THEN closed
     ELSE AddLetter([closed EXCEPT !.lastLetter = TRUE], r)

FeedOther(sc, r) ==
  LET closed == CloseGroup([sc EXCEPT !.digitRun = 0])
      ended == EndWord([closed EXCEPT !.atSeen = @ \/ (r = "@" /\ closed.lastLetter)], r)
  IN IF closed.reason # "" THEN closed
     ELSE IF ended.reason # "" THEN ended
     ELSE [ended EXCEPT !.lastLetter = FALSE]

Feed(sc, r) ==
  IF sc.reason # "" THEN sc
  ELSE CASE IsDigit(r) -> FeedDigit(sc, r)
         [] IsSep(r) -> FeedSep(sc, r)
         [] IsLetter(r) -> FeedLetter(sc, r)
         [] ~IsDigit(r) /\ ~IsSep(r) /\ ~IsLetter(r) -> FeedOther(sc, r)

Finish(sc, n) ==
  LET ended == EndWord(sc, "end")
      closed == CloseGroup(ended)
  IN CASE sc.reason # "" -> sc.reason
       [] sc.reason = "" /\ ended.reason # "" -> ended.reason
       [] sc.reason = "" /\ ended.reason = "" /\ closed.reason # "" -> closed.reason
       [] sc.reason = "" /\ ended.reason = "" /\ closed.reason = "" ->
            IF closed.upperRun >= NameWordsLimit /\ ~closed.hasLower /\ n >= UpperNameLen THEN "upper_name" ELSE ""

\* inspectString: why a value is not written, "" if it is.
InspectString(s) ==
  IF Bytes(s) < MinSuspectLen THEN ""
  ELSE IF Bytes(s) > MaxValueBytes THEN "too_long"
  ELSE Finish(FoldLeft(Feed, Fresh, s), Bytes(s))

-----------------------------------------------------------------------------
(* guard: the fields of a record.  A field is the keys of the groups it is  *)
(* in and its own, and a value: a string, a list of them, or a value that   *)
(* is not looked at.                                                        *)

Trusted == {"event", "system", "duration", "reason"}
IDFields == {"request_id", "payload_id"}

Text(s) == [kind |-> "string", text |-> s]
Marked(reason) == [kind |-> "marked", reason |-> reason]
HashOf(s) == [kind |-> "hash", of |-> s]

Suspect(s) == InspectString(s) # ""

\* idPlausible: letters, or few digits, and no character an identifier has not.
IDPlausible(s) ==
  /\ Bytes(s) < MaxValueBytes
  /\ \A i \in DOMAIN s : s[i] \in {"7", "U", "u", ".", "-", ":"}
  /\ (\E i \in DOMAIN s : s[i] \in {"U", "u"}) \/ Len(SelectSeq(s, IsDigit)) < IDDigitLimit

\* safeID, cleanID, LogID: an identifier that is none is known again by its hash.
SafeID(s) == IF IDPlausible(s) THEN Text(s) ELSE HashOf(s)

\* Where the way down to a field ends: at a key that settles it, at a group too deep,
\* or at the field itself.
Depth(f) ==
  Min({k \in DOMAIN f.path : \/ f.path[k] \in Trusted \cup IDFields
                             \/ k = Len(f.path) \/ k > MaxGroupDepth})

\* anyToString: a list is judged by its elements, one after another.
SuspectValue(v) ==
  CASE v.kind = "string" -> Suspect(v.text)
    [] v.kind = "list" -> \E i \in DOMAIN v.items : Suspect(v.items[i])
    [] OTHER -> FALSE

Reason(v) == InspectString(IF v.kind = "string" THEN v.text ELSE SelectSeq(v.items, Suspect)[1])

\* Mutant of SuspectField: only the strings of the record itself are looked at.
SuspectFieldFlat(f) == Len(f.path) = 1 /\ f.path[1] \notin Trusted \cup IDFields /\ SuspectValue(f.value)

\* suspect, suspectGroup: must the record be built anew.
SuspectField(f) ==
  LET k == Depth(f)
      own == k = Len(f.path)
  IN CASE f.path[k] \in IDFields -> own /\ f.value.kind = "string" /\ ~IDPlausible(f.value.text)
       [] f.path[k] \in Trusted -> FALSE
       [] f.path[k] \notin Trusted \cup IDFields -> ~own \/ SuspectValue(f.value)

\* clean, cleanGroup, cleanID.
Clean(f) ==
  LET k == Depth(f)
      own == k = Len(f.path)
  IN CASE f.path[k] \in IDFields -> IF own /\ f.value.kind = "string" THEN [f EXCEPT !.value = SafeID(f.value.text)] ELSE f
       [] f.path[k] \in Trusted -> f
       [] f.path[k] \notin Trusted \cup IDFields ->
            IF ~own THEN [path |-> SubSeq(f.path, 1, k), value |-> Marked("too_deep")]
            ELSE IF SuspectValue(f.value) THEN [f EXCEPT !.value = Marked(Reason(f.value))] ELSE f

Map(F(_), fields) == [i \in DOMAIN fields |-> F(fields[i])]
HasKey(fields, key) == \E i \in DOMAIN fields : fields[i].path = <<key>>
Field(key, value) == [path |-> <<key>>, value |-> value]

\* Mutant of Required: what With gave is not known to be there.
RequiredOfRecord(given, own, ctx) ==
  LET Add(key, there, value) == IF there \/ HasKey(own, key) THEN <<>> ELSE <<Field(key, value)>>
  IN Add("request_id", ctx.id = <<>>, SafeID(ctx.id)) \o Add("system", ctx.system = <<>>, Text(ctx.system))
     \o Add("event", FALSE, Text(<<"u">>)) \o Add("duration", FALSE, Text(<<"7">>))

\* addRequired: what the record must have and does not, from the context of the request.
Required(given, own, ctx) ==
  LET Add(key, there, value) == IF there \/ HasKey(given \o own, key) THEN <<>> ELSE <<Field(key, value)>>
  IN Add("request_id", ctx.id = <<>>, SafeID(ctx.id)) \o Add("system", ctx.system = <<>>, Text(ctx.system))
     \o Add("event", FALSE, Text(<<"u">>)) \o Add("duration", FALSE, Text(<<"7">>))

\* Handle: given are the fields of With, cleaned then; a record with nothing suspect
\* is passed on as it is.  (No group is open around the record: nothing in the
\* service calls WithGroup.  The fields would be of that group, the required too.)
Handle(given, own, message, ctx) ==
  LET dirty == \E i \in DOMAIN own : SuspectField(own[i])
      told == IF Suspect(message) THEN <<Field("redacted", Marked(InspectString(message)))>> ELSE <<>>
      written == IF dirty \/ told # <<>> THEN Map(Clean, own) ELSE own
  IN [message |-> IF told = <<>> THEN message ELSE <<>>,
      fields |-> Map(Clean, given) \o written \o told \o Required(given, own, ctx)]
=============================================================================
