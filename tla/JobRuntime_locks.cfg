\* One job and two runtimes of its provider; the locks come free.
CONSTANTS
    r1 = r1
    r2 = r2
    p1 = p1
    j1 = j1
    k1 = k1
    k2 = k2
    Runtime = {r1, r2}
    Provider = {p1}
    Job = {j1}
    Key = {k1}
    JobOf <- MCJobOf
    ProviderOf <- MCProviderOf
    Ceiling <- MCCeiling
    MaxAttempts = 1
    MaxReconciled = 0
    NoRuntime = NoRuntime
SPECIFICATION FairSpec
PROPERTIES
    LocksComeFree
