SPECIFICATION CapSpec
CONSTANT Max = 4
INVARIANT CapTypeOK
INVARIANT SleeperIsNotified
PROPERTY IsAtomicCounter
