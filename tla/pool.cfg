SPECIFICATION FairSpec
CONSTANTS
  NoConn = NoConn
  Callers = {c1, c2, c3}
  Conns = {k1, k2, k3}
  PoolSize = 2
INVARIANTS
  OneUserPerConnection
  PlacesAccountedFor
  IdleInStep
PROPERTIES
  CallsReturn
