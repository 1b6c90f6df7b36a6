CONSTANTS
    d1 = d1
    d2 = d2
    p1 = p1
    p2 = p2
    None = None
    Candidates = 2
    Directions = {d1, d2}
    Details = {p1}
    FirstBrief <- AtFirst
    MaxAttempts = 2
    MaxRevision = 2
    MaxGenerations = 3
    MaxChanges = 1
    MaxCrashes = 1
SPECIFICATION FairSpec
INVARIANTS
    TypeOK
    PaidOnceUnlessConsented
    AnswersAreKept
    MadeForItsHash
PROPERTIES
    AnsweredIsAttached
CHECK_DEADLOCK FALSE
