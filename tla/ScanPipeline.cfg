SPECIFICATION PipeFairSpec
CONSTANTS
    NumFiles = 6
    Shapes <- MCShapes
    OpenAhead = 2
    StreamCap = 2
    OutCap = 1
INVARIANTS
    PipeTypeOK
    BoundedOpenFiles
PROPERTIES
    ImplementsScanResult
    ScanEnds
