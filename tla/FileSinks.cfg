SPECIFICATION SinksSpec
CONSTANTS
    MaxSize = 3
    MaxFiles = 2
    Sizes = {1, 2, 4}
    RotatingLogs = 5
    Kinds = {"daily", "hourly"}
    Period = 2
    Rotations = {0, 1}
    MaxFilesArgs = {0, 1, 2}
    TruncateArgs = {FALSE, TRUE}
    Earlier = {1, 2}
    StartTick = 4
    MaxTick = 9
    Delay = 1
    MaxStarts = 2
    MaxLogs = 4
    NoItem = NoItem
CHECK_DEADLOCK FALSE
INVARIANT  KeptInOrder LastFilesRetained OldFilesDeleted ClosedOnlyWhileDue
PROPERTY LosesOnlyTheOldest
