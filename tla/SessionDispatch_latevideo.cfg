CONSTANTS
    s1 = s1
    s2 = s2
    Shot = {s1}
    NoShot = NoShot
    MaxRequests = 3
    MaxParallel = 2
    Command <- LateVideo
    Plans <- OnePlan
    FirstPlan <- OneInPlay
    FirstFiles <- FirstLocked
SPECIFICATION Spec
PROPERTIES
    PaidIsKept
CHECK_DEADLOCK FALSE
