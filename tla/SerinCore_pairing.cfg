\* Pairing, commits, forgetting, faults and power loss, up to a full table.
SPECIFICATION Spec
CONSTANTS
    m1 = m1  m2 = m2  m3 = m3
    i1 = i1  i2 = i2
    d1 = d1  d2 = d2
    Mac = {m1, m2, m3}
    Id = {i1, i2}
    DialEph = {d1}
    MaxDials = 2
    MaxLinks = 0
    NoKey = NoKey
    FailedKey = FailedKey
    NoCandidate = NoCandidate
    MaxWindows = 2
    MaxBoots = 2
    MaxFaults = 2
SYMMETRY Symmetry
INVARIANTS
    TypeOK
    DurableTable
    OneSlotPerDial
    PairingCoherent
    RadioMatchesBonds
PROPERTIES
    AckedKeyIsDurable
    PinnedUntilForgotten
    ForgetIsFinal
    SlotOrderKept
