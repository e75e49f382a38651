\* A supervisor that reconnects, is disconnected and fails while a client waits
\* for a data stream, under scheduler fairness.
SPECIFICATION FairSpec
CONSTANTS
    Sandboxes = {sb1}
    Supervisors = {s1, s2}
    Openers = {o1}
    Relays = {}
    KeepaliveTicks = 1
    NULL = NULL
INVARIANTS
    RegisteredIsServed
    LiveIsRegistered
PROPERTIES
    
    DeadSupervisorDropped
    SupersededReturns
CHECK_DEADLOCK FALSE
