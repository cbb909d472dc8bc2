SPECIFICATION Spec
CONSTANTS
    t1 = t1  t2 = t2  i1 = i1  i2 = i2  h1 = h1  h2 = h2
    Tokens = {t1, t2}
    Ids = {i1}
    Handlers = {h1, h2}
    MaxCommands = 3
    MaxSerial = 2
    MaxRevoked = 1
    NoToken = NoToken
    NoId = NoId
    NoHandler = NoHandler
SYMMETRY Symmetry
INVARIANT OneCertPerToken
CHECK_DEADLOCK FALSE
