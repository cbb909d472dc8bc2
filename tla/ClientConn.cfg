SPECIFICATION Spec
CONSTANTS
    n1 = n1  n2 = n2  cmd = cmd
    Names = {n1, n2}
    Conf <- MCOne
    Commands = {cmd}
    Main = Main
    MissThreshold = 1
    MaxSessions = 2
    MaxSeq = 2
    MaxOpens = 1
    MaxUp = 2
    MaxDown = 2
    NoName = NoName
INVARIANTS NeverUndercounts EntryIsGranted  WaiterIsPending
CHECK_DEADLOCK FALSE
