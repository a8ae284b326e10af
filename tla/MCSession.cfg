\* Two tabs, one lost request allowed: the tabs together refine the abstract SessionKeepalive promise.
CONSTANTS
    t1 = t1
    t2 = t2
    Tabs <- MCTabs
    IdleTimeout = 6
    ResetFreq = 3
    MaxLost = 1
    MaxInFlight = 2
    ClockBackBy = 3
    MaxClockSteps = 0
    Containerized = TRUE
    PlatformCurrency = "EUR"
SPECIFICATION Spec
SYMMETRY TabSymmetry
VIEW SessionView
INVARIANT TypeOK
PROPERTY KeepaliveRefined
