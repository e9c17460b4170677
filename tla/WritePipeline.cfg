SPECIFICATION FairSpec
CONSTANTS
    Payloads <- MCPayloads
    NumChunks <- MCNumChunks
    ChannelCap <- MCChannelCap
    Permits <- MCPermits
    NoObject = NoObject
INVARIANTS
    TypeOK
    Safe
    HonestErrors
PROPERTIES
    ImplementsAtomicPut
    Settles
