SPECIFICATION FairSpec
CONSTANTS
    Payloads <- MCPayloads
    Permits = 2
    NoObject = NoObject
    MaxBatches <- MCMaxBatches
    BatchCap = 2
INVARIANTS
    TypeOK
    ExitTellsTruth
PROPERTIES
    ExitEnds
