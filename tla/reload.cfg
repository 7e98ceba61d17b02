SPECIFICATION FairSpec
CONSTANTS
  Admins = {a1}
  Watcher = Watcher
  Requests = {r1}
  Parts = {types, systems}
  None = None
  MaxTurns = 2
INVARIANTS
  TypeOK
  SettledWhole
  QuietRequestsAgree
PROPERTIES
  EditsKeepTheirWord
  ChangesComeIntoForce
CHECK_DEADLOCK FALSE
