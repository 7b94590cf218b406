SPECIFICATION AllSpec
CONSTANTS
    r1 = r1
    cso2 = cso2
    cso3 = cso3
    iso2 = iso2
    fd1 = fd1
    fd2 = fd2
    NoFd = NoFd
    NoImage = NoImage
    Free = Free
    Readers <- OneReader
    UmdReaders = {}
    Images <- OneImage
    Cso <- OneImage
    Length <- Lengths
    Stored = {1}
    IndexSize = 2
    BufSize = 2
    Switching = FALSE
    MaxTry = 2
    MaxLength = 3
    Fds <- OneFd
    Parts = {"disc"}
INVARIANT BufPosIsPosition
CHECK_DEADLOCK FALSE
