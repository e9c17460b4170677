SPECIFICATION Spec
CONSTANTS
    None = None
    Columns <- MCColumns
    Text <- MCText
    Tags = {"pii", "PII"}
    Lower <- MCLower
    Keys <- MCKeys
    Contains <- MCContains
    ContainsWord <- MCContainsWord
    Roles <- MCRoles
    Purposes = {"audit", "other"}
    Filters = {"f", "g", "unparsed"}
    FilterColumn <- MCFilterColumn
    PolicySets <- MCPolicySets
    Contracts <- MCContracts
    Requests <- MCRequests
    RowGroups <- MCRowGroups
    MaxCalls = 2
INVARIANTS
    TypeOK
    UnmaskedIsGranted
    FiltersAccumulate
    EncryptionAgrees
    
