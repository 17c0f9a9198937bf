SPECIFICATION FairSpec
CONSTANTS
  MaxConnections = 3
  MaxPackets = 1
INVARIANTS
  TypeOK
  AsyncNeverWaits
  NoDanglingAtRest
  MenuReadsWholePackets
PROPERTIES
  StateOrder
  ConnectingEnds
  LossNoticed
