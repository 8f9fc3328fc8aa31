\* One slot between two producers and two consumers: both sides sleep, depend
\* on each other's notifications, and have a thread that can steal the item or
\* the slot another one was woken for; one spurious wakeup may disturb them.
CONSTANTS
    Producers = {p1, p2}
    Consumers = {c1, c2}
    Closer = closer
    Free = free
    Capacity = 1
    ItemsPerProducer = 2
    MaxSpurious = 1
SPECIFICATION FairSpec
INVARIANTS
    TypeOK
    AcceptedExactlyOnce
    DrainedIsFinal
    NoLostWakeup
    CloseWakesEveryone
PROPERTIES
    ImplementsFifo
    AcceptedIsTaken
    ProducersReturn
    CloseReturnsEveryone
