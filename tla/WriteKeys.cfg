SPECIFICATION FairSpec
CONSTANTS
    p1 = p1
    p2 = p2
    f1 = f1
    f2 = f2
    Writers = {p1, p2}
    Flushers = {f1, f2}
    Roots = {"r"}
    Pieces = {"d", "p", "u", "a", "b", "__footer__"}
    Datasets <- MCDatasets
    Whos <- MCWhos
    Columns <- MCColumns
    Jobs <- MCJobs
    MaxKeys = 4
INVARIANTS
    TypeOK
    KeysRecoverable
PROPERTIES
    CachedKeyKept
    CallsReturn
CHECK_DEADLOCK FALSE
