\* Two clients that come, command, leave and die in any order.
SPECIFICATION FairSpec
CONSTANTS
    Clients = {c1, c2}
INVARIANTS
    TypeOK
    CrashWindows
PROPERTIES
    EventsReturn
    CommandsAnswered
    ReleasesReturn
CHECK_DEADLOCK FALSE
