\* A follower, two appends, deletions of the sandbox, a ring of two lines.
SPECIFICATION FairSpec
CONSTANTS
    Names = {n1}
    Posts = {q1, q2}
    Followers = {f1}
    Buffers = {1, 2, 3, 4}
    max = 2
    MaxTime = 3
    Batches <- SomeBatches
    Queries <- SomeQueries
    NULL = NULL
INVARIANTS
    TypeOK
    SentInOrder
    NoSilentGap
    BlockedIsEnlisted
    PurgedIsNotSent
PROPERTIES
    EventuallySent
CHECK_DEADLOCK FALSE
