\* A client and a conf item look their address and name up.
SPECIFICATION FairSpec
CONSTANTS
    Client = {"c"}
    Ip <- MCIp
    Conf = {"f"}
    Host <- MCHost
    Name = {"x", "y", "w"}
    Addr = {"1", "2"}
    Zone <- MCZone
    HashName <- MCHashName
    HashNum <- MCHashNum
    Id = {1, 2, 3}
    Entry = {1, 2, 3}
    Retries = 2
    Timeout = 1
    TTL = 2
    MaxCached = 1
    MaxAddrs = 3
    MaxAsk = 3
    MaxBad = 1
INVARIANTS LookupsRight
PROPERTIES Answers
CHECK_DEADLOCK FALSE
