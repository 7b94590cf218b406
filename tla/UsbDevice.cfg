SPECIFICATION AllSpec
CONSTANTS
    Volumes = {0, 1, 2, 3}
    FileSizes = {1, 3, 4}
    PerCluster = 8
    PerFat = 3
    Reserved = 2
    FatLength = 2
    RootLength = 2
    VfatSize = 18
    Lengths = {1, 3, 5, 6}
    Isos = {"p", "pa"}
    NoIso = "none"
    Prefixes <- OnePrefix
    Listings <- TwoListings
    Speeds = 1
    Disc = 2
    Buttons = {"up", "right", "select"}
    MaxMoves = 2
    VideoNames = {"p", "q", "r"}
    VideoTypes = {"video", "audio", "none"}
    VideoCells = 2
    VideoTimes = 4
    Parts = {"device", "seek", "stream", "menu", "videos", "boot", "card", "plugins", "config", "chain"}
CONSTRAINT Bounded
INVARIANTS
    DevicesRight VolumeServed MenuObeyed VideosListed BootRead PluginsStarted
