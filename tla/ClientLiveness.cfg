SPECIFICATION FairSpec
CONSTANTS
    n1 = n1  n2 = n2  cmd = cmd
    Names = {n1}
    Conf <- MCOne
    Commands = {cmd}
    Main = Main
    MissThreshold = 1
    MaxSessions = 2
    MaxSeq = 1
    MaxOpens = 0
    MaxUp = 3
    MaxDown = 2
    NoName = NoName
PROPERTIES StopsOnCancel SilenceIsNoticed
CHECK_DEADLOCK FALSE
