SPECIFICATION Spec
CONSTANTS
  a = a
  b = b
  id1 = id1
  p1 = p1
  p2 = p2
  t = t
  tm = tm
  tp = tp
  u = u
  um = um
  star = star
  r1 = r1
  r2 = r2
  r3 = r3
  Requests = {r1, r2, r3}
  Replicas = {p1}
  Ids = {id1}
  Systems = {a, b}
  Texts <- MCTexts
  Rules = {star}
  Engine <- MCEngine
  Partial <- MCPartial
  MaskLike <- MCMaskLike
  Policies <- MCPolicies
  Calls <- AllCalls
  NoRecord = NoRecord
  Corrupt = Corrupt
  NoText = NoText
  NoCall = NoCall
  NoAnswer = NoAnswer
SYMMETRY Alike
INVARIANTS
  DemaskIsExact
  OpenTextIsAccountedFor
PROPERTIES
  KeepsLedger
CHECK_DEADLOCK FALSE
