SPECIFICATION FairSpec
CONSTANTS
    t1 = t1
    t2 = t2
    t3 = t3
    i1 = i1
    i2 = i2
    f1 = f1
    iso1 = iso1
    NoFd = NoFd
    Free = Free
    NoImage = NoImage
    Closed = Closed
PROPERTIES DiscRequestsEnd GalaxyAnswers
CHECK_DEADLOCK FALSE
