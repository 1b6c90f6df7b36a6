\* One operation of a plugin.
CONSTANTS
    CallKinds = {"plugin"}
    PipeRoom = 1
    MaxRequest = 1
    MaxSaid = 1
    MaxAnswer = 1
SPECIFICATION ProcessFairSpec
PROPERTY EveryCallEnds
\* A call ends.
CHECK_DEADLOCK FALSE
