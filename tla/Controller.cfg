CONSTANTS
    d1 = d1  d2 = d2
    v1 = v1  v2 = v2
    s1 = s1  s2 = s2  s3 = s3
    c1 = c1  c2 = c2
    none = none
    Epoch = {0, 7, 263}
    Frames <- MCFrames
    MTU = 250
SPECIFICATION ControllerSpec
SYMMETRY Symmetry
INVARIANTS
    PullsTellTheTruth
    KeysAgree
PROPERTIES
    SessionsKeepApart
    HeadsAreCurrent
    PairingIsTimely
    NumbersSurviveBoots
    FramesAreReadWhole
\* A handshake ends when its windows and attempts are used up.
CHECK_DEADLOCK FALSE
