SPECIFICATION Spec
CONSTANTS
    m1 = m1
    m2 = m2
    m3 = m3
    None = None
    Masters = {m1, m2, m3}
    Rank <- SameRank
    Known <- AllOthers
    Durable = TRUE
    Lossy = FALSE
    MayCrash = {}
    MaxTerm = 2
SYMMETRY Symmetric
INVARIANT OneLeaderPerTerm
CHECK_DEADLOCK FALSE
