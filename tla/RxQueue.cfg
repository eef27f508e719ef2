\* A ring of two slots whose positions wrap at four, over nine frames.
SPECIFICATION Spec
CONSTANTS
    Slots = 2
    Word = 4
    MaxFrames = 9
INVARIANTS
    TypeOK
    SlotHasOneUser
    NeverOverfull
PROPERTIES
    ImplementsFifo
CHECK_DEADLOCK FALSE
