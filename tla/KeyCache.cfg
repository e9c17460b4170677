SPECIFICATION DekFairSpec
CONSTANTS
    d1 = d1
    u1 = u1
    u2 = u2
    r1 = r1
    r2 = r2
    Deks = {d1}
    Users = {u1, u2}
    Readers = {r1, r2}
    Ttl = 2
INVARIANTS
    DekTypeOK
    RecordedBeforeDestroyed
PROPERTIES
    SealedForGood
    EventuallySealed
