SPECIFICATION AllSpec
CONSTANTS
    Tools = {"ipl", "tables", "format", "copy", "install", "ids", "dcman"}
    Boards = {1, 4}
    Area = 7
    Mirrors = {1, 2}
    FirstData = 3
    Wrap = 8
    Ipls = {2, 3}
    Blocks <- BlocksOfIpl
    Bads <- BadsOfArea
    Total = 5
    Fit = 2
    MaxErrors = 2
    BadAtCopy <- BadsOfFlash
    Models = {0, 1, 3}
    Files = 1
    Drivers = 2
    Fatfs = 1
    Fatfmt = 1
    Updater = 2
    Tried = {3, 5}
    Batch = 8
    Callers = {"x", "y"}
    Nobody = "none"
CONSTRAINT Bounded
INVARIANTS LoaderRight PartitionsRight NandCopied Installed IdsRight
CHECK_DEADLOCK FALSE
