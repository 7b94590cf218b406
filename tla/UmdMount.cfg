SPECIFICATION AllSpec
CONSTANTS
    Isos = {a, b}
    Types = {video, audio}
    NoFile = NoFile
    Orig = Orig
    Hook = Hook
    Bytes = 2
    MaxSize = 5
    Readers = {r1, r2}
    Mount = Mount
    Closer = Closer
    Fds = {1, 2}
    MaxTry = 2
    Free = Free
    Sectors = 3
    Layouts <- Indexes
    SectorBytes = 3
    BufSize = 4
    IndexSize = 2
    Never = Never
    Images = {"i", "j"}
    Long = {"j"}
    Callers = {"x", "y"}
    Callback = 7
    Descriptors = 2
    Modules = {"m", "f"}
    Formatter = "f"
    Libraries <- Renumbering
    ExportTables <- Exporting
    ImportTables <- Importing
    Wrapped <- TakenFor
    Loaders = {t1, t2}
    Titles <- Executables
    Apitypes = {16, 82, 288, 289, 320, 324}
    Together <- Few
    Parts = {"drive", "galaxy", "cso", "title", "noumd", "hooks", "exec", "link", "old"}
INVARIANTS OriginalsKept MountedServed RequestsServed ImageServes TitleStarted ModuleStarted
CONSTRAINT AllGuarded
CHECK_DEADLOCK FALSE
