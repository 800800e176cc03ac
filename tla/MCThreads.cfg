SPECIFICATION MCSpec
CONSTANTS
  Threads = {t1, t2, t3, t4}
  Root = t1
  MaxVCPUs = 2
  z1 = z1
  z2 = z2
  bad = bad
  Guests = {t2, t3, t4}
  Addresses = {z1, z2, bad}
  Unmapped = {bad}
  SpecLists <- DistinctSpecs
  WakeCounts <- Counts
  Words = 2
  None = None
  MaxTime = 2
SYMMETRY Symmetry
INVARIANTS Conservation FreeIsAnnounced TableConsistent AlarmCovers
PROPERTIES PauseHolds ZutexABI
CHECK_DEADLOCK FALSE
