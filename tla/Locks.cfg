SPECIFICATION MCSpec
CONSTANTS
  Users = {t1, t2, t3}
  Nobody = Nobody
  MaxSignals = 2
INVARIANTS NoSleepPastSignal MutualExclusion NoLostWake
PROPERTIES TimeoutMeansEmpty SignalIsTaken Progress ZutexABI
