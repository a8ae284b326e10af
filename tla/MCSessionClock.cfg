\* Expected violation: after the wall clock is set back, a working user's session expires with no request lost.
CONSTANTS
    t1 = t1
    t2 = t2
    Tabs <- MCTabs
    IdleTimeout = 6
    ResetFreq = 3
    MaxLost = 0
    MaxInFlight = 2
    ClockBackBy = 3
    MaxClockSteps = 1
    Containerized = TRUE
    PlatformCurrency = "EUR"
SPECIFICATION Spec
SYMMETRY TabSymmetry
VIEW SessionView
PROPERTY KeepaliveRefined
