CONSTANTS
    Dials = {d1, d2}
    Values = {v1, v2}
    none = none
    RadioBonded = {d1}  MaxAttempts = 3  CheckEvery = 2
    Budgets <- RadioBudgets
    Ext = {e1}
    MaxDials = 2  RowSlots = {1, 2}  RowRepeat = 1  StaleAfter = 2
    Field = {}  Debounce = 1  EchoHold = 2  MaxCmds = 3  MaxEvents = 2
    Firmware = {"1.0"}  blank = blank  LiveFor = 1  Renewal = 2  Wrap = 8
    LinkDials = {d1, d2, d3}  LinkSlots = 3  MaxTime = 3
    Lists <- ForgetLists
    MaxBoots = 3
SPECIFICATION Spec
SYMMETRY Symmetry
INVARIANTS
    RadioIsLookedAfter
    SelectionIsShown
    RowsShowTheirDial
    LastCommandCounts
PROPERTIES
    SelectionHolds
    ForgetsHitTheirLink
    GatesEndure
