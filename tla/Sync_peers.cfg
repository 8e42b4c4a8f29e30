SPECIFICATION TablesSpec
CONSTANTS
    Masters = {m1, m2}
    Tasks = {t1}
    Nodes = {n1, n2}
    None = None
    MaxWriters = 2
    MaxNet = 1
    MaxStarts = 1
    Requests = {q1, q2, q3}
    IdemKeys = {k1, k2}
    NoTask = NoTask
    MaxKeys = 1
    Chats = {c1, c2}
    Quotas = {0, 1, 2}
    Sessions = {s1}
    Laptops = {l1}
    Residents = {h1, h2}
    Chiefs = {b1, b2}
    Hosts = {a1, a2}
    Caches = {i1}
    NoNode = NoNode
    MaxKvCache = 2
    MaxKvTime = 2
    Transfers = {j1}
    Segments = 3
    MaxAttempts = 2
    MaxDegradations = 1
    JobCount = 2
SYMMETRY Symmetric
CONSTRAINTS UpBeforeFirstTask OneMasterWrites
INVARIANTS TablesOK OnlyOwnerRuns CrashNodeAvoided CopyWasImported OneTaskPerKey ChatCountIsExact ResultIsUnbroken VerdictIsTrue
