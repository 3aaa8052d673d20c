CONSTANTS
  NoConn = NoConn
  Conns = {c1}
  PoolSize = 4
SPECIFICATION Spec
INVARIANT
  StoppedCleanly
