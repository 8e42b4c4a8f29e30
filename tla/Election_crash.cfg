SPECIFICATION CrashSpec
CONSTANTS
    m1 = m1
    m2 = m2
    m3 = m3
    None = None
    Masters = {m1, m2}
    Rank <- FirstOutranks
    Known <- AllOthers
    Durable = TRUE
    Lossy = TRUE
    MayCrash = {m1, m2}
    MaxTerm = 2
    CacheIds = {i1, i2}
    Keys = {k1}
    KvNone = KvNone
    Sizes = {1, 2}
    MaxBytes = 3
    TensorSize = 1
    Exports = {x1, x2}
    KvKeys = {k1}
    Partitions = {p1, p2}
    KvVersions = 2
    Unreadable = Unreadable
    Puts = {q1}
    Gets = {q2}
    d1 = d1
    d2 = d2
    Shards = {s1}
    OtherPaths = {f1}
    Data = {d1, d2}
    NoData = NoData
    Torn = Torn
    SizeMap <- MCSize
    VolLimit = 3
    Replicas = 3
    Users = {root, u1}
    RootUser = root
    Tokens = {t1, t2, t3}
    Calls = {c1}
    MaxEvents = 4
    Transcripts = {t1, t2}
    Clients = {c1, c2}
    MaxMessages = 1
CONSTRAINTS FewLostPuts OneIsActive
INVARIANTS FilesOK OneLeaderPerTerm LeaderOutranksVoters RevokedStaysOut LossIsVisible AnsweredTranscriptKept CounterIsExact QuorumReadIsLatest
CHECK_DEADLOCK FALSE
