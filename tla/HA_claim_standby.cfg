SPECIFICATION HASpec
CONSTANTS
    m1 = m1
    m2 = m2
    m3 = m3
    None = None
    Masters = {m1, m2}
    Rank <- SameRank
    Known <- AllOthers
    Durable = TRUE
    Lossy = FALSE
    MayCrash = {}
    Agents = {a1}
    MaxTerm = 2
INVARIANT StandbyRefuses
CHECK_DEADLOCK FALSE
