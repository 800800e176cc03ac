SPECIFICATION MCSpec
CONSTANTS
  Apps = {a1, a2, a3}
  MaxIds = 1
  MaxMsgs = 2
  None = None
  Nobody = Nobody
  Receivers = {1, 2, 3}
  Sizes = {1, 2, 4}
  MaxBytes = 6
  MinPackets = 3
  SmallLimit = 3
  MaxPackets = 7
  d1 = d1
  d4 = d4
  Datagrams = {d1, d2, d3, d4}
  Frags <- MCFrags
  Sockets = {"port"}
  Port <- MCPort
  QUEUE_SIZE = 3
  MAX_PARTIAL_PACKETS = 1
  Clients = {1, 2}
  Viewports = {v1, v2, v3}
  MaxDeeds = 5
SYMMETRY Symmetry
INVARIANTS  InUseIsOutstanding  WithinLimits NoIdlePacket
            BuffersAccounted LeaseIsExclusive CanvasesAreLive
 
CHECK_DEADLOCK FALSE
