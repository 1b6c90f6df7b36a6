CONSTANTS
    s1 = s1
    s2 = s2
    Shot = {s1, s2}
    NoShot = NoShot
    MaxRequests = 3
    MaxParallel = 2
    Command <- EveryKind
    Plans <- TwoPlans
    FirstPlan <- BothInPlay
    FirstFiles <- FirstLocked
SPECIFICATION FairSpec
INVARIANTS
    TypeOK
    NothingWaitsNeedlessly
    OneVideoAtATime
PROPERTIES
    OneAtATimeInOrder
    NothingAfterTheEnd
    CommandsAreAnswered
    VideosSettle
CHECK_DEADLOCK FALSE
