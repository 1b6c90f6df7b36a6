\* Interruptions on top of each other.
CONSTANTS
    d1 = d1
    d2 = d2
    c1 = c1
    c2 = c2
    Direction = {d1}
    Default = d1
    Unplanned = Unplanned
    None = None
    Candidate = {c1, c2}
    Clips = 1
    MaxGenerations = 2
    MaxVideos = 1
SPECIFICATION Spec
INVARIANTS
    EveryBoundaryLoads
CONSTRAINT NoOlderCopy
