SPECIFICATION Spec
CONSTANTS
  t1 = t1
  t2 = t2
  t3 = t3
  plain = plain
  name = name
  escaped = escaped
  Turns = {t1, t2, t3}
  Values = {plain, name}
  Strings = {plain, escaped}
  Quote <- AsJSON
  MaxParts = 2
  NoValue = NoValue
SYMMETRY Alike
INVARIANTS
  OwnValuesComeBack
  HistoryComesBack
CHECK_DEADLOCK FALSE
