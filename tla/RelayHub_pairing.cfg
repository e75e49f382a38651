\* Two sandboxes, two clients and two data streams over one control stream.
SPECIFICATION Spec
CONSTANTS
    Sandboxes = {sb1, sb2}
    Supervisors = {s1}
    Openers = {o1, o2}
    Relays = {r1, r2}
    KeepaliveTicks = 1
    NULL = NULL
SYMMETRY Symmetry
INVARIANTS
    TypeOK
    StreamMatchesRequest
    OneClaimPerChannel
    NoPendingLeak
PROPERTIES
    ImplementsBroker
CHECK_DEADLOCK FALSE
