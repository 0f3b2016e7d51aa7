SPECIFICATION Spec
CONSTANTS
    NoItem = NoItem
    Kinds = {"daily"}
    Period = 2
    Rotations = {1}
    MaxFilesArgs = {2}
    TruncateArgs = {FALSE}
    Earlier = {}
    StartTick = 4
    MaxTick = 9
    Delay = 0
    MaxStarts = 1
    MaxLogs = 4
CHECK_DEADLOCK FALSE
INVARIANT RetainsLastFiles
