\* Two connections, a neighbour and two rehashes with files that lack lines, a class and the port.
SPECIFICATION Spec
CONSTANTS
    Conn = {c1, c2}
    Addr = {"h1"}
    Port = {"p"}
    Line <- MCLine
    Kind <- MCKind
    LineClass <- MCLineClass
    LineHost <- MCLineHost
    Named = {"C"}
    Exempt = {}
    Class <- MCClass
    Class0 = 0
    PerHost <- MCPerHost
    Config <- MCConfig
    MaxGen = 2
    Adns = FALSE
    ReverseLookup = TRUE
    CheckIdentd = TRUE
    ConnectTimeout = 1
    Ping = 1
    MaxIdle = 0
    NoPort = NoPort
    NoClass = NoClass
SYMMETRY SymmetryConn
INVARIANTS CountsExact NoDangling NoLeak LinesHeld
