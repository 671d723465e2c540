SPECIFICATION MCFairSpec
CONSTANTS
    k1 = k1  k2 = k2  k3 = k3  k4 = k4  zero = zero  one = one  two = two  wide = wide
    Key = {k1, k2, k3, k4}
    NoKey = NoKey
    Val = {zero, one, two, wide}
    Torn = Torn
    NoEntry = NoEntry
    Hash <- KeyHash
    Size <- ValSize
    Delta <- IncOf
    MathInitial = zero
    HashSize = 2
    StartTime = 3
    Configs <- AllConfigs
INVARIANTS SlotsAccounted BlocksExact ScanScheduled
PROPERTIES   SweepEventually
