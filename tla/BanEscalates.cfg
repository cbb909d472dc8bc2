SPECIFICATION Spec
CONSTANTS
    Burst = 5
    MaxFails = 40
    MaxPending = 6
PROPERTY BanEscalates
