---------------------------- MODULE CustomTypes -----------------------------
(***************************************************************************)
(* internal/pii/detect_custom.go: the types of personal data the settings  *)
(* add.  An expression is a record of what the code asks of it: whether it *)
(* compiles, how many groups it has, whether it matches nothing at all.    *)
(* What it matches in a text is given, with what the code asks of each     *)
(* match: the part in the group, the anchor, the checksum.                 *)
(***************************************************************************)
LOCAL INSTANCE Integers
LOCAL INSTANCE Sequences
LOCAL INSTANCE SequencesExt

Validators == {"", "none", "luhn", "inn", "snils"}

Expressions ==
  [ok |-> [compiles |-> TRUE, groups |-> 1, matchesEmpty |-> FALSE],
   broken |-> [compiles |-> FALSE, groups |-> 0, matchesEmpty |-> FALSE],
   lookahead |-> [compiles |-> FALSE, groups |-> 0, matchesEmpty |-> FALSE],
   star |-> [compiles |-> TRUE, groups |-> 0, matchesEmpty |-> TRUE]]

Compiles(rule) ==
  /\ rule.name # "" /\ rule.pattern # ""
  /\ rule.group >= 0
  /\ Expressions[rule.pattern].compiles
  /\ ~Expressions[rule.pattern].matchesEmpty
  /\ rule.group <= Expressions[rule.pattern].groups
  /\ rule.validator \in Validators

CustomConfidence(validated, anchored) ==
  CASE validated /\ anchored -> "high"
    [] validated # anchored -> "anchored"
    [] OTHER -> "medium"

Confidences == [medium |-> 60, anchored |-> 75, high |-> 90]

\* Where a match stands: the group of the rule, which may have taken no part.
Bounds(rule, match) == IF rule.group = 0 THEN match.all ELSE match.part

SpanFor(rule, match) ==
  LET at == Bounds(rule, match)
      passed == rule.validator \notin {"", "none"} /\ match.sums
  IN IF at = <<>> \/ match.overLine \/ (rule.requireAnchor /\ ~match.anchored) THEN <<>>
     ELSE <<[start |-> at[1], end |-> at[2], type |-> rule.name, conf |-> Confidences[CustomConfidence(passed, match.anchored)]]>>

Collect(rule, matches, limit) ==
  FlattenSeq([i \in 1..(IF Len(matches) < limit THEN Len(matches) ELSE limit) |-> SpanFor(rule, matches[i])])

TypeOrder == [PASSNO |-> 1, BADGE |-> 2]

\* Mutant of Before: equal ones as the rules stand in the file.
BeforeByPlace(a, b) ==
  \/ a.start < b.start
  \/ a.start = b.start /\ a.end > b.end
  \/ a.start = b.start /\ a.end = b.end /\ a.conf > b.conf

Before(a, b) ==
  \/ a.start < b.start
  \/ a.start = b.start /\ a.end > b.end
  \/ a.start = b.start /\ a.end = b.end /\ a.conf > b.conf
  \/ a.start = b.start /\ a.end = b.end /\ a.conf = b.conf /\ TypeOrder[a.type] < TypeOrder[b.type]

SortCustomSpans(spans) ==
  LET InOrder(i, j) == Before(spans[i], spans[j]) \/ (~Before(spans[j], spans[i]) /\ i < j)
      order == SetToSortSeq(DOMAIN spans, InOrder)
  IN [k \in DOMAIN spans |-> spans[order[k]]]

\* The rules in turn, each with what is left of the limit of a document.
DetectCustom(rules, matches, limit) ==
  LET Apply(found, r) == IF Len(found) >= limit THEN found
                         ELSE found \o Collect(r, SelectSeq(matches, LAMBDA m : m.rule = r.name), limit - Len(found))
  IN SortCustomSpans(FoldLeft(Apply, <<>>, rules))
=============================================================================
