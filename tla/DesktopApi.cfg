SPECIFICATION DesktopFairSpec
CONSTANTS
    Names = {"a"}
    MaxRuns = 3
    MaxEnrolls = 2
    Cut = Cut
INVARIANTS ClientIsLive 
PROPERTY StopTakesEffect
CHECK_DEADLOCK FALSE
