\* One PUT or approval while the provider, its profile, the proposal and the
\* sandbox change; a body may hold composed rules.
SPECIFICATION Spec
CONSTANTS
    Names = {n1}
    Rules = {r1, r2}
    Globals = {}
    Clash <- AllClash
    Providers = {p1}
    Profiles = {t1}
    Proposals = {i1}
    Calls = {c1}
    MaxPolicyRevisions = 1
    RegisteredBases <- TextBase
    FlushResults = {TRUE}
    BROKEN = BROKEN
    NULL = NULL
SYMMETRY Symmetry
INVARIANTS
    TypeOK
    
    
