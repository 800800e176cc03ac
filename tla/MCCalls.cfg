SPECIFICATION MCSpec
CONSTANTS
  Callers = {c1, c2}
  None = None
  Packet = Packet
  QueueLen = 1
  num_buckets = 2
  MaxNonce = 11
  MaxPackets = 2
  OneAtATime = TRUE
  Setters = {setter}
  MaxTime = 3
  MaxCalls = 3
INVARIANTS  ReplyReachesCaller
PROPERTIES AlwaysSignalled 
CHECK_DEADLOCK FALSE
