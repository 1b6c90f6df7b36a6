CONSTANTS
    d1 = d1
    d2 = d2
    p1 = p1
    p2 = p2
    None = None
    Candidates = 2
    Directions = {d1, d2}
    Details = {p1}
    FirstBrief <- AtFirst
    MaxAttempts = 2
    MaxRevision = 1
    MaxGenerations = 2
    MaxChanges = 1
    MaxCrashes = 0
SPECIFICATION Spec
INVARIANTS
    SomeDirectionGenerates
CHECK_DEADLOCK FALSE
