\* One take, and a task whose watching ends though it has not failed.
CONSTANTS
    Takes = 1
    Works = {h1}
    MaxTasks = 2
    MaxSubmissions = 2
    MaxVideoRevision = 1
    MaxAsks = 2
    MaxStops = 0
    Nil = Nil
SPECIFICATION VideoSpec
INVARIANT PaidIsNeverSubmittedAgain
CHECK_DEADLOCK FALSE
