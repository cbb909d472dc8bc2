SPECIFICATION Spec
CONSTANTS
    s1 = s1  s2 = s2
    Servers = {s1, s2}
    Prefs = {"auto"}
    MaxKeys = 2
    MaxLeaf = 2
SYMMETRY Symmetry
INVARIANTS SuccessIsPaired RefusalIsHarmless RunReadsOneIdentity
CHECK_DEADLOCK FALSE
