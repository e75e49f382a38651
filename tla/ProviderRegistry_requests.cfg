\* Two requests on the records of a provider; attach, detach and a reader on the
\* attachment list of a sandbox.
SPECIFICATION Spec
CONSTANTS
    p1 = p1
    p2 = p2
    Providers = {p1, p2}
    Keys = {k1, k2}
    Strategies = {"oauth2-refresh-token"}
    Requests = {t1, t2}
    Readers = {r1}
    Maps = {1, 2, 3, 4}
    Arrays = {1, 2, 3}
    MaxCap = 2
    Lists <- SomeLists
    Casts <- SomeCasts
    NIL = NIL
    NULL = NULL
SYMMETRY Symmetry
INVARIANTS
    TypeOK
    SettingsAreKept
    SettingsAreDurable
    
    
    ListIsStable
