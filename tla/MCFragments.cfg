SPECIFICATION Spec
CONSTANTS
  d1 = d1
  d2 = d2
  None = None
  Datagrams = {d1, d2}
  Frags <- MCFrags
  Sockets = {"port"}
  Port <- MCPort
  QUEUE_SIZE = 3
  MAX_PARTIAL_PACKETS = 1
INVARIANT CompleteIsAssembled
CHECK_DEADLOCK FALSE
