\* Expected violation: without lost requests, ESP can still expire the session before the idle watcher fires.
CONSTANTS
    t1 = t1
    t2 = t2
    Tabs <- MCTabs
    IdleTimeout = 6
    ResetFreq = 3
    MaxLost = 0
    MaxInFlight = 2
    ClockBackBy = 3
    MaxClockSteps = 0
    Containerized = TRUE
    PlatformCurrency = "EUR"
SPECIFICATION Spec
SYMMETRY TabSymmetry
VIEW SessionView
PROPERTY IdleBeforeServerExpiry
