\* The tables and bans of a server, its users, watches channels and messages, and its history.
SPECIFICATION PSpec
CONSTANTS
    Width = 3
    Def <- MCDef
    Label <- MCLabel
    Bucket <- MCBucket
    Matches <- MCMatches
    Client <- MCClient
    File <- MCFile
    LP64 = TRUE
    KUser = {"u1", "u2"}
    Ban = {"k1", "k12", "d1"}
    Kind <- MCKind
    Form <- MCForm
    Whom <- MCWhom
    Spared <- MCSpared
    Hold = 1
    MaxNow = 2
    MaxCmds = 4
    Server = {1, 2, 3}
    Peers <- MCPeers
    Uplink <- MCUplink
    Services = 1
    Mask = {"g1", "gall", "v", "q"}
    Sort <- MCSort
    Matching <- MCMatching
    Person = {"c"}
    Home <- MCHome
    Hits <- MCHits
    Sits <- MCHits
    Auto <- MCAuto
    Immune = {}
    Begin = {{"v", "q"}}
    Secs = 1
    MaxTime = 1
    MaxOps = 2
    MaxCuts = 1
    Nickname = {"n1", "n2", "n3"}
    Watcher = {"c1", "c2", "c3"}
    MyClients = {"c1", "c2"}
    NoName = "none"
    MAXWATCH = 2
    MaxWatchOps = 6
    Channel = {"#c", "#d"}
    Guest = {"a", "b", "r", "services"}
    Local = {"a", "b"}
    Traits <- MCTraits
    Mode = {"i", "A", "r", "f"}
    Banmask = {"*a", "*"}
    Bans <- MCBanned
    MAXBANS = 1
    MaxChansPerUser = 1
    LIMIT = 1
    OperCanAlwaysJoin = TRUE
    OperKickProtection = TRUE
    RestrictedChans = FALSE
    new_cmodes = {"n"}
    MSGS = 2
    PER = 2
    Scene <- MCScene
    Talker = {"a", "b", "r", "srv"}
    Mine = {"a", "b"}
    Alias = {"srv"}
    Excused = {"srv"}
    Forum = {"#a"}
    Hash <- MCHash
    Text = {"plain", "ctcp", "spam", "dcc", "banned"}
    MAXTARGETS = 2
    TARGET_DELAY = 2
    FLUDNUM = 1
    FLUDTIME = 1
    FLUDBLOCK = 2
    DRONETIME = 1
    DRONECOUNT = 1
    Birth = 10
    Steps = {1, 2}
    Talking <- MCTalking
    Ip = {"x", "y"}
    ByXor <- MCXor
    BySum <- MCSum
    CheckClonesLimit = 2
    CheckClonesPeriod = 1
    CheckClonesDelay = 2
    MaxVisits = 7
    Nick_ = {"x", "y", "z"}
    Bearer = {"1", "2"}
    HashOf <- MCHashOf
    NICKNAMEHISTORYLENGTH = 2
    Unborn = "none"
    MaxChanges = 7
INVARIANTS BansRight KLinesRight NetLinesRight WatchRight RoomRight TalkRight
INVARIANTS ThrottleHeld PastRight
CHECK_DEADLOCK FALSE
