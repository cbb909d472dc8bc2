SPECIFICATION ConfigSpec
CONSTANTS
    FileValues <- MCFile
    EnvValues <- MCEnv
    ClientValues <- MCClient
    ClientEnv <- MCClientEnv
    Tunnels <- MCTunnels
    Literals = {"10.0.0.1", "127.0.0.1", "0.0.0.0"}
    BadAddrs = {"0.0.0.0"}
    MaxSettings = 3
    Unset = Unset
    Bad = Bad
INVARIANTS ListenersPrivate RefusedOnlyForMismatch GrantedAsWritten SavedReadsTheSame
CHECK_DEADLOCK FALSE
