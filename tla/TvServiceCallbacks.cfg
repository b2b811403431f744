\* Three clients that register, leave or die in any interleaving with a send
\* loop that never rests.
SPECIFICATION FairSpec
CONSTANTS
    Clients = {c1, c2, c3}
INVARIANTS
    TypeOK
    NeverEvicted
    UndisturbedDelivery
    MissedEventFillsHole
PROPERTIES
    EveryClientReached
    ImplementsRegistry
CHECK_DEADLOCK FALSE
