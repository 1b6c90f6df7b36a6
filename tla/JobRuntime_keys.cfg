\* One job, two keys of it, two runtimes of one provider.
CONSTANTS
    r1 = r1
    r2 = r2
    p1 = p1
    j1 = j1
    k1 = k1
    k2 = k2
    Runtime = {r1, r2}
    Provider = {p1}
    Job = {j1}
    Key = {k1, k2}
    JobOf <- MCJobOf
    ProviderOf <- MCProviderOf
    Ceiling <- MCCeiling
    MaxAttempts = 2
    MaxReconciled = 0
    NoRuntime = NoRuntime
SPECIFICATION Spec
INVARIANTS
    TypeOK
    PaidWorkIsRecorded
    AcknowledgedForever
    SnapshotIsFresh
    NoDanglingMapping
    TxnPremises
PROPERTIES
    ImplementsLedger
SYMMETRY RuntimesAndKeys
