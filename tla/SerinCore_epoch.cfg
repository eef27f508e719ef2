\* Echoes of every boot over several reboots.
SPECIFICATION Spec
CONSTANTS
    m1 = m1  m2 = m2  m3 = m3
    i1 = i1  i2 = i2
    d1 = d1  d2 = d2
    Mac = {m1, m2}
    Id = {i1}
    DialEph = {d1}
    MaxDials = 2
    MaxLinks = 1
    NoKey = NoKey
    FailedKey = FailedKey
    NoCandidate = NoCandidate
    MaxWindows = 1
    MaxBoots = 4
    MaxFaults = 2
SYMMETRY Symmetry
PROPERTIES
    ReplayGuard
