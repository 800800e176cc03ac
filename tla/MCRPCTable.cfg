SPECIFICATION Spec
CONSTANTS
  Callers = {c1, c2}
  None = None
  Packet = Packet
  QueueLen = 1
  num_buckets = 2
  MaxNonce = 11
  MaxPackets = 2
  OneAtATime = FALSE
INVARIANT TokenIsFound
CHECK_DEADLOCK FALSE
