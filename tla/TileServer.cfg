CONSTANTS
  NoConn = NoConn
  Conns = {c1, c2}
  PoolSize = 4
SPECIFICATION FairSpec
INVARIANTS
  OpenIsServed
  RegistryExact
  OneReply
  AtMostOneEscapes
PROPERTIES
  OnlyStopCutsReplies
  FailedIsReleased
  SignalEndsThreads
