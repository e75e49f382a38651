\* Two PUTs, a global policy set between their steps, registration and deletion;
\* every write of state.json may fail; restarts.
SPECIFICATION Spec
CONSTANTS
    Names = {n1}
    Rules = {r1}
    Globals = {g1}
    Clash <- AllClash
    Providers = {}
    Profiles = {}
    Proposals = {}
    Calls = {c1, c2}
    MaxPolicyRevisions = 2
    RegisteredBases <- FullBase
    FlushResults = {TRUE, FALSE}
    BROKEN = BROKEN
    NULL = NULL
SYMMETRY Symmetry
INVARIANTS
    
    RefusalKeepsBase
