\* max_links below SL2_MAX_DIALS, repeated requests with another ephemeral.
SPECIFICATION Spec
CONSTANTS
    m1 = m1  m2 = m2  m3 = m3
    i1 = i1  i2 = i2
    d1 = d1  d2 = d2
    Mac = {m1, m2}
    Id = {i1, i2}
    DialEph = {d1, d2}
    MaxDials = 2
    MaxLinks = 1
    NoKey = NoKey
    FailedKey = FailedKey
    NoCandidate = NoCandidate
    MaxWindows = 2
    MaxBoots = 2
    MaxFaults = 1
SYMMETRY Symmetry
PROPERTIES
    OnlyCandidatesCommit
