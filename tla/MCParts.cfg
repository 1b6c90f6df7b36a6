\* Each part at the size that shows its hazards; see the README.
CONSTANTS
    \* ShotVideo: two takes, a request after another, one stop
    Takes = 2
    h1 = h1
    Works = {h1, h2}
    MaxTasks = 2
    MaxSubmissions = 2
    MaxVideoRevision = 1
    MaxAsks = 2
    MaxStops = 1
    Nil = Nil
    \* PaidDocument: a model charged per call and an agent
    api = api
    agent = agent
    NoDoc = NoDoc
    Models = {api, agent}
    PaidModels = {api}
    Inputs = {i1}
    MaxDocRevision = 2
    MaxTries = 2
    MaxTexts = 3
    MaxDocAsks = 3
    MaxDocStops = 1
    \* ShotPlan: two scenes, of which one is changed or goes
    s1 = s1
    s2 = s2
    NoPlan = NoPlan
    Scenes = {s1, s2}
    BootScene = s1
    MaxNumber = 2
    Given <- MCGiven
    MaxPlans = 3
    MaxAdded = 3
    MaxChanges = 1
    MaxPlanStops = 1
    \* SpokenTakes: a built-in provider and a plugin, two characters
    p = p
    q = q
    a = a
    b = b
    NoSpeech = NoSpeech
    Speakers = {p, q}
    BuiltIn = {p}
    Characters = {a, b}
    Lines = {l1}
    MaxSpoken = 1
    MaxClips = 2
    MaxSpeechAsks = 3
    MaxSpeechStops = 1
    \* MediaCollection: the least recent window a project may have
    NoMedia = NoMedia
    MaxMade <- MCMaxMade
    RecentTakes = 1
    MaxMediaStops = 1
    Exposed <- MCExposed
    \* AgentDesk: two commands, a request to connect, a project opened twice
    KeptAsks = 1
    MaxToolCalls = 2
    MaxConnects = 1
    MaxSessions = 2
    \* AgentGrants: one agent at a time, two authorizations, one stop
    MaxClients = 1
    MaxGrants = 1
    MaxPending = 1
    MaxRegistrations = 2
    MaxAuthorizations = 2
    MaxTurns = 1
    MaxGrantStops = 1
    \* LiveRegistries: two threads and runtimes of one provider, two jobs
    Nobody = Nobody
    Callers = {c1, c2}
    LiveRuntimes = {r1, r2}
    CallJobs = {j1, j2}
    Partitions = {key}
    Ceilings = {1, 2}
    Objects = {o1, o2, o3}
    SweepAt = 1
    \* ShotPublication: a generation of two takes, a video request of two
    \* clips, writes that fail and interruptions at any time
    d1 = d1
    Direction = {d1}
    Default = d1
    Candidate = {k1, k2}
    Clips = 2
    MaxGenerations = 1
    MaxVideos = 1
    Unplanned = Unplanned
    None = None
    \* PackageExport: four exports, of which two packages are taken away
    MaxExports = 4
    MaxTaken = 2
    NoPackage = NoPackage
    \* PaidImages: MiniMax and a plugin, two images, two auditions, one fault
    g1 = g1
    g2 = g2
    Generators = {g1, g2}
    MiniMax = g1
    Looks = 2
    MaxImages = 2
    MaxPictures = 3
    MaxImageTries = 2
    MaxImageAsks = 2
    MaxImageEdits = 1
    MaxImageFaults = 1
    NoImage = NoImage
    \* ProcessCalls: a pipe with room for half a request, an answer too long
    CallKinds = {"plugin", "tool", "agent", "command"}
    PipeRoom = 1
    MaxRequest = 2
    MaxSaid = 3
    MaxAnswer = 2
    \* ProjectFiles: two threads in a new directory, two who create a project
    FileThreads = {t1, t2}
    FilesOfDir = {f1, f2}
    MaxWritten = 2
    Creators = {p1, p2}
SPECIFICATION PartsSpec
INVARIANTS
    PartsTypeOK
    VideoIsPaidOnceAndFollowed
    DocumentIsPaidOnceAndKept
    AnIdIsOneShot
    PlayIsWritten
    SpeechIsPaidOnceAndKept
    LockedIsWhole
    SentOnTheWord
    GrantsAreTheDirectors
    ImagesArePaidOnceAndKept
    CallsEndWholeAndStopped
PROPERTIES
    PinnedIsNeverLetGo
    LimitsHold
    VideosAreKept
    PackageIsKept
    ImplementsDurableFiles
\* Requests, stops and sessions are bounded, and nobody must ask again.
CHECK_DEADLOCK FALSE
