\* A worker really stops: its last state has no successor.
CONSTANTS
    MaxMessages = 2
    MaxSignals = 2
    MaxFailures = 1
SPECIFICATION FairSpec
INVARIANTS TypeOK OneCauseOnlyInPut EnvelopesAccounted ClosedWhenUnused
PROPERTY EndsUnlessSelfDeadlocked
CHECK_DEADLOCK FALSE
