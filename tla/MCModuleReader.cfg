SPECIFICATION Spec
CONSTANTS
    Jobs <- MCJobs
    Limits <- MCLimits
    Radix = 128
    MaxBytes = 3
    LastMax = 1
    Weight <- MCWeight
INVARIANTS EveryByteIsAccountedFor NumbersAreExact StaysInside WrittenFilesAreRead
CHECK_DEADLOCK FALSE
