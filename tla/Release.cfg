SPECIFICATION Spec
CONSTANTS
    Dispatches = {d1, d2}
    Sites = {"java", "node"}
    FirstVersion <- MCFirstVersion
    MaxCommits = 4
INVARIANTS
    TypeOK
    TaggedTreeAgrees
    BumpCommitHasItsTag
PROPERTY
    OneBumpAtATime
CHECK_DEADLOCK FALSE
