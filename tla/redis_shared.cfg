SPECIFICATION Spec
CONSTANTS
  r1 = r1
  r2 = r2
  c1 = c1
  c2 = c2
  c3 = c3
  i1 = i1
  i2 = i2
  t1 = t1
  t2 = t2
  Absent = Absent
  Unreadable = Unreadable
  Unparsed = Unparsed
  Done = Done
  Failed = Failed
  Nothing = Nothing
  Replicas = {r1, r2}
  Callers = {c1, c2}
  ReplicaOf <- Placement
  Ids = {i1, i2}
  Texts = {t1, t2}
  Puttable <- AnyText
  Failures = {}
PROPERTIES
  KeepsShared
