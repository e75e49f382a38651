\* One client, one data stream: the stream handed over too late.
SPECIFICATION Spec
CONSTANTS
    Sandboxes = {sb1}
    Supervisors = {s1}
    Openers = {o1}
    Relays = {r1}
    KeepaliveTicks = 1
    NULL = NULL
INVARIANTS
    NoOrphanStream
CHECK_DEADLOCK FALSE
