\* Four goroutines; a Lock may follow a Lock once before the Unlock.
SPECIFICATION FairSpec
CONSTANTS
    Thread = {t1, t2, t3, t4}
    NoThread = NoThread
    MaxDepth = 2
INVARIANTS
    NeverUnlocksUnlocked
PROPERTIES
    ImplementsMutex
    LockReturns
