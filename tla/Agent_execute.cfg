SPECIFICATION LifeSpec
CONSTANTS
    Calls = {c1, c2, c3}
    Ids = {t1}
    NoId = NoId
    MaxTasks = 2
    MaxTries = 2
    MaxToken = 2
    MaxAnon = 2
    Conns = {k1, k2}
    NoConn = NoConn
    ConnTries = 2
    Threshold = 2
    MaxSends = 1
    Rounds = {r1}
    MaxRounds = 1
INVARIANTS LifeOK UpIsClosed
PROPERTIES NewestMasterOnly RequestsEnd ImplementsSlots
