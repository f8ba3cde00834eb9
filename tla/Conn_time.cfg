\* Two connections with the clock running, no rehash, users and links.
SPECIFICATION Spec
CONSTANTS
    Conn = {c1, c2}
    Addr = {"h1"}
    Port = {"p"}
    Line <- MCLine
    Kind <- MCKind
    LineClass <- MCLineClass
    LineHost <- MCLineHost
    Named = {"C"}
    Exempt = {}
    Class <- MCClass
    Class0 = 0
    PerHost <- MCPerHost
    Config <- MCUsers
    MaxGen = 0
    Adns = FALSE
    ReverseLookup = TRUE
    CheckIdentd = TRUE
    ConnectTimeout = 1
    Ping = 1
    MaxIdle = 2
    NoPort = NoPort
    NoClass = NoClass
INVARIANTS QueriesLive
PROPERTIES AuthReleased SilentGone
