SPECIFICATION Spec
CONSTANTS
    k1 = k1
    d1 = d1
    d2 = d2
    NoRoot = NoRoot
    NoMessage = NoMessage
    Keys <- MCKeys
    Data <- MCData
    BlockMsg <- MCBlockMsg
    AttMsg <- MCAttMsg
    Half <- MCHalf
    FileBlocks <- MCFileBlocks
    FileAtts <- MCFileAtts
INVARIANTS
    ExportIsComplete
