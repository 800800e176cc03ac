SPECIFICATION FairSpec
CONSTANTS
    Threads = {t1, t2}
    Events = {"a", "m"}
    AutoReset = {"a"}
    WaitLists <- Lists
    MaxSeq = 3
INVARIANTS NoLostSignal OneReleasePerSignal
 
CHECK_DEADLOCK FALSE
