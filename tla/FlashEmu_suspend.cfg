SPECIFICATION CallsSpec
CONSTANTS
    c1 = c1
    c2 = c2
    c3 = c3
    a1 = a1
    lib = lib
    cfg = cfg
    f1 = f1
    f2 = f2
    NoFd = NoFd
    NoFile = NoFile
    AppFile = AppFile
    Free = Free
    Deleted = Deleted
    Clients <- TwoClients
    Apps = {}
    NSlots = 2
    Fds <- TwoFds
    Names <- OneName
    HasFallback = {}
    OpenFlags = {"RDONLY", "RDWR"}
    Requests = {"open", "read", "write", "close", "lseek", "path", "ioctl"}
    MaxSize = 1
    Reboots = TRUE
    MaxSuspends = 1
CONSTRAINT Guarded
VIEW View
SYMMETRY Symmetry
INVARIANTS TypeOK SuspendClosesAll
PROPERTY PositionKept
