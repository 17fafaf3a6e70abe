SPECIFICATION FairSpec
CONSTANTS
    Producers = {p1, p2}
    Consumers = {c1, c2, c3}
    Quitters = {q1, q2}
    NoThread = NoThread
    MaxSpurious = 2
INVARIANTS
    TypeOK
    FifoExactlyOnce
    NoLostWakeup
    NobodySleepsAfterQuit
PROPERTIES
    ImplementsFifo
    QueuedIsPopped
    QuitEndsConsumers
