\* A user who floods with an overlong line and becomes an operator or exempt, and
\* a connection that becomes a server.
SPECIFICATION FairSpec
CONSTANTS
    Conn <- MCConn
    Script <- MCScript
    BlockSize = 3
    InitBlocks = 2
    UsualMax = 3
    ReadBuf = 6
    ReadMax = 5
    NoLine = 2
    BufSize = 3
    Flood = 4
    Burst = 3
    Cost = 2
    Free = 5
    Exempted = {"u"}
    Idle = 0
INVARIANTS InputRight
PROPERTIES Serves
CHECK_DEADLOCK FALSE
