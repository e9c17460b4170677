SPECIFICATION Spec
CONSTANTS
    None = None
    Columns <- MCColumns
    Text <- MCText
    Tags = {"pii"}
    Lower <- MCLower
    Keys = {"ssn"}
    Contains <- MCContains
    ContainsWord <- MCContains
    Roles = {"reader"}
    Purposes = {"p"}
    Filters = {"f", "g"}
    FilterColumn <- MCFilterColumn
    Contracts <- MCContracts
    Batches <- MCBatches
    Policies <- MCPolicies
    Requests <- MCRequests
    MaxFiles = 2
INVARIANTS
    TypeOK
    EachFileGoverned
    LintedFilesFit
    AuditCoversAccess
