CONSTANTS
    d1 = d1  d2 = d2  d3 = d3  c1 = c1
    v1 = v1  v2 = v2
    none = none
SPECIFICATION Spec
PROPERTIES
    DialsAreServed
    RadioRecovers
    TruthArrives
    PairingRecovers
\* A handshake ends when its windows and attempts are used up.
CHECK_DEADLOCK FALSE
