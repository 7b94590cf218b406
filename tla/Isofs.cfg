SPECIFICATION AllSpec
CONSTANTS
    t1 = t1
    t2 = t2
    i1 = i1
    i2 = i2
    Zero = Zero
    None = None
    Free = Free
    Closed = Closed
    Threads <- TwoThreads
    Iobs <- TwoIobs
    Handlers = {1, 2}
    Files <- Small
    Bytes = 1
    MaxLen = 1
    MaxPos = 1
    Truncated = FALSE
INVARIANTS HandlesOwned LseekAnswers DirectoryWalked
PROPERTY ReadsByteRanges
CONSTRAINT Guarded
CHECK_DEADLOCK FALSE
