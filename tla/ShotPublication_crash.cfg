\* Two candidates; two generations of keyframes and one of videos in two
\* directions, three and two in one; interruptions and failed writes come at
\* any time.
CONSTANTS
    d1 = d1
    d2 = d2
    c1 = c1
    c2 = c2
    Direction = {d1, d2}
    Default = d1
    Unplanned = Unplanned
    None = None
    Candidate = {c1, c2}
    Clips = 1
    MaxGenerations = 3
    MaxVideos = 2
SPECIFICATION Spec
INVARIANTS
    TypeOK
    OneMixtureIsRecovered
    CopyIsCurrent
PROPERTIES
    ImplementsApproval
SYMMETRY AlikeCandidates
CONSTRAINTS
    MoreInOneDirection
    StillKept
