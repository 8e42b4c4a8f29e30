SPECIFICATION GroupSpec
CONSTANTS
    m1 = m1
    m2 = m2
    m3 = m3
    None = None
    Masters = {m1, m2, m3}
    Rank <- SameRank
    Known <- AllOthers
    Durable = FALSE
    Lossy = FALSE
    MayCrash = {}
    MaxTerm = 1
    Members = {n1, n2}
    AutoApproved = {n2}
    MaxPending = 0
    FaultThreshold = 2
    Heads = {m1, m2}
    Filed = {m1}
    Guards = {a1}
    Confirms = {f1, f2}
    MaxConfirms = 1
    MaxEpoch = 2
    MaxPosts = 1
    MaxSaves = 1
INVARIANTS GroupOK OneLeaderPerTerm
PROPERTIES LeaderGetsKnown BansAreNotShakenOff BansAreReviewed EpochSpreads AgentsCatchUp
CHECK_DEADLOCK FALSE
