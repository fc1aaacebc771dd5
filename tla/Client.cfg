CONSTANTS
    SendBuf = 3
    RecvBuf = 3
    RecvMax = 2
    MaxKeys = 3
SPECIFICATION Spec
INVARIANTS ScreenFollows LinesAreMessages NoCommandStuck
CHECK_DEADLOCK FALSE
CONSTRAINT OneMishap
