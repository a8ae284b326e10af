\* Two tabs, one lost request, the wall clock set back once by one unit: the tabs still refine SessionKeepalive with Grace shortened by the setback.
CONSTANTS
    t1 = t1
    t2 = t2
    Tabs <- MCTabs
    IdleTimeout = 6
    ResetFreq = 3
    MaxLost = 1
    MaxInFlight = 2
    ClockBackBy = 1
    MaxClockSteps = 1
    Containerized = TRUE
    PlatformCurrency = "EUR"
SPECIFICATION Spec
SYMMETRY TabSymmetry
VIEW SessionView
PROPERTY KeepaliveRefinedClockBack
