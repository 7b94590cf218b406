SPECIFICATION ProgressSpec
CONSTANTS
    c1 = c1
    c2 = c2
    c3 = c3
    a1 = a1
    lib = lib
    cfg = cfg
    f1 = f1
    f2 = f2
    NoFd = NoFd
    NoFile = NoFile
    AppFile = AppFile
    Free = Free
    Deleted = Deleted
    Clients <- TwoClients
    Apps <- OneApp
    NSlots = 2
    Fds <- OneFd
    Names <- OneName
    HasFallback = {}
    OpenFlags = {"RDONLY"}
    Requests = {"open", "read", "close"}
    MaxSize = 0
    Reboots = FALSE
    MaxSuspends = 0
PROPERTIES FlashRequestsReturn RebootEndsEveryWait
CHECK_DEADLOCK FALSE
