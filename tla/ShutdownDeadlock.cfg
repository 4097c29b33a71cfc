\* A worker really stops: its last state has no successor.
CONSTANTS
    MaxMessages = 1
    MaxSignals = 1
    MaxFailures = 0
SPECIFICATION FairSpec
PROPERTY EndsAfterSigterm
CHECK_DEADLOCK FALSE
