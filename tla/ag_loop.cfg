\* A fast probe over two slow rounds and several fast ones.
SPECIFICATION Spec
CONSTANTS
    Interval = 2
    SlowLane = FALSE
    FastEvery = 2
    SlowEvery = 4
    StartDelay = 1
    ResendMax = 2
    MaxLate = 1
    MaxSpurious = 1
    StartTime = 2
    EndTime = 8
INVARIANTS ImportsLiveData UnsentIsAnswered ProbeRunsInTime
PROPERTY ResendsLastPacket
CHECK_DEADLOCK FALSE
