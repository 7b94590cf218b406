SPECIFICATION CallsSpec
CONSTANTS
    c1 = c1
    c2 = c2
    c3 = c3
    a1 = a1
    lib = lib
    cfg = cfg
    f1 = f1
    f2 = f2
    NoFd = NoFd
    NoFile = NoFile
    AppFile = AppFile
    Free = Free
    Deleted = Deleted
    Clients <- TwoClients
    Apps <- OneApp
    NSlots = 2
    Fds <- TwoFds
    Names <- OneName
    HasFallback <- OneName
    OpenFlags = {"RDONLY", "CREAT_TRUNC"}
    Requests = {"open", "read", "write", "close"}
    MaxSize = 1
    Reboots = FALSE
    MaxSuspends = 0
CONSTRAINT Guarded
VIEW View
SYMMETRY Symmetry
INVARIANTS SlotsBacked HandlesOwnSlots
PROPERTY ShortenedOnRequest
CHECK_DEADLOCK FALSE
