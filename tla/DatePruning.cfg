SPECIFICATION Spec
CONSTANTS
    Null = Null
    Columns <- MCColumns
    Type <- MCType
    Half = 8
    Base = 4
    Digit = 2
    Files <- MCFiles
    Queries <- MCQueries
INVARIANT NoMatchingDateLost
