\* A video answered after the director has locked another.
CONSTANTS
    d1 = d1
    d2 = d2
    c1 = c1
    c2 = c2
    Direction = {d1, d2}
    Default = d1
    Unplanned = Unplanned
    None = None
    Candidate = {c1}
    Clips = 1
    MaxGenerations = 1
    MaxVideos = 2
SPECIFICATION Spec
INVARIANTS
    NextVideoIsNew
CONSTRAINT StillKept
