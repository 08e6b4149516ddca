SPECIFICATION Spec
CONSTANTS
    \* ChatTurns
    Turns <- SomeTurns
    MaxTurns = 4
    \* ChatBackend
    Frames <- SomeFrames
    Requests <- SomeRequests
    MaxFrames = 3
    \* Market
    Catalogues <- SomeCatalogues
    Extends <- SomeExtends
    Chats <- SomeChats
    MaxTokens = {8, 2000}
    Overs = {0, 9}
    Shapes <- SomeShapes
    Caps = {20, 400000, 4000000}
    Gaps <- SomeGaps
    Channels <- SomeChannels
    Premiums = {0, 100, 140, 300}
    Markup = 120
    MaxEdits = 1
    \* ImageBackend
    Order <- SomeOrder
    Made <- SomeMade
    Longer <- SomeLonger
    Alike <- SomeAlike
    Encoder <- SomeEncoder
    Decoder <- SomeDecoder
    About <- SomeAbout
    Boxes <- SomeBoxes
    Settings <- SomeSettings
    MaxBoxMoves = 1
    MaxPictures = 2
    \* Statistics
    Kinds = {"answer", "rejected"}
    MaxJobs = 3
    MaxHours = 5
    DayLength = 2
    ChartDays = 3
    MaxPerHour = 1
    MaxReports = 3
    MaxGitHub = 2
    Installs = {i1}
    \* ConnectedTools
    Tools = {"codex", "claude-code", "opencode", "pi", "crush", "goose", "zed"}
    MaxEdited = 4
    MaxTokensIssued = 2
    \* Wallet
    Wallets = {wallet1, wallet2}
    Payouts = {payout1}
    Screens = {s1, s2}
    Scanners = {c1, c2}
    Bonds = {1}
    MaxBlock = 2
    Span = 1
    MaxSwitches = 2
    MaxReads = 2
    \* PeerBook
    w1 = w1
    w2 = w2
    Workers = {w1, w2}
    Menus <- SomeMenus
    Nets <- SomeNets
    Typed = {w1}
    Asked <- SomeModels
    Tasks = {t1}
    Silent = 0
    MaxMoves = 3
    \* Node
    Relays = {r1}
    Strangers = {p1}
    Interfaces = {lan, wan, any}
    Declared = {lan}
    Afar = {wan, r1}
    Blank = {any}
    Keys = {k1}
    Ttl = 2
    neighbour = neighbour
    Neighbours <- SomeNeighbours
    MaxShifts = 5
INVARIANTS WordsInOrder AnswerAsGenerated StreamedIsAnswer BillsAreAccepted PictureAsAsked
INVARIANTS ChartsAddUp ShownIsTheWallets ScanMissesNothing NoDearerThanOffered FoundWhereItIs
PROPERTY DisconnectUndoes
CHECK_DEADLOCK FALSE
