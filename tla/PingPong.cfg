SPECIFICATION PingPongFairSpec
CONSTANTS
    Words = {w1, w2}
    MaxStore = 5
INVARIANTS
    WholeUnlessLapped
    NeverStale
PROPERTY
    LatestDelivered
