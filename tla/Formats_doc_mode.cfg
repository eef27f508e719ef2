CONSTANTS
    Base = 2  Bits = 1  Mark = 1  Block = 5  LenBytes = 3
    Weight <- ByteWeights
    MaxPiece = 6  MaxMsg = 7
    Dial = {d1, d2, d3}  Ext <- OneSource
    \* a page is full, and the last one, when two Links are bonded
    PageMax = 2  MaxChanges = 4  MaxLoss = 2
    MaxDials = 2  Sources = 1  DeviceCounts = {0, 1, 2, 3}
    Label = {heat, plain, long, twin1, twin2, clash1, clash2}
    Builtin = {heat}  Long = {long}  OwnLabel = {plain, long}
    Twins = {twin1, twin2}  Clash = {clash1, clash2}
    Sensor = {t1, t2}  MaxSources = 2
    HmacBlock = 4  HashLen = 3  CtrLimit = 6  Lengths = {0, 1, 3, 4, 5}  MaxOut = 15
    absent = absent  bare = bare
    NaN = NaN
    none = none
SPECIFICATION FormatsSpec
SYMMETRY Symmetry
PROPERTIES UnknownModeIsNoOp
\* A configuration is built once, a key is derived once.
CHECK_DEADLOCK FALSE
