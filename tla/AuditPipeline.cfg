SPECIFICATION FairSpec
CONSTANTS
    p1 = p1
    p2 = p2
    Pushers = {p1, p2}
    MaxEvents = 2
    Capacity = 2
    BatchSize = 2
    MaxRetries = 1
INVARIANTS
    TypeOK
    Conservation
    DeliveryOrder
PROPERTIES
    Drained
