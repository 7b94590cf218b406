SPECIFICATION AllSpec
CONSTANTS
    Isos <- MCIsos
    NoIso = "none"
    Sizes <- MCSizes
    Broken = {"b"}
    Anonymous = {}
    Versions = {1}
    MaxFiles = 2
    HeaderLength = 1
    SfoLength = 2
    ReadSizes = {1}
    Positions = {0}
    MaxHandles = 1
    Kinds = {"file"}
    Removable = {}
    Order <- MCOrder
    Video = "video"
    Dotted = {"d"}
    CacheSize = 2
    MaxCloses = 2
    Mounting = TRUE
    Images <- VIsos
    Files <- VSizes
    Unreadable = {"broken"}
    Unnamed = {"anonymous"}
    Dates = {1}
    Slots = 2
    Header = 2
    Sfo = 2
    Lengths = {3, 9}
    Seeks = {0, 4}
    Descriptors = 2
    Deletable = {1}
INVARIANTS NamesRefer MountKept ListsEvery CacheTrue VirtualFilesRight
