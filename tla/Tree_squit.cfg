\* An operator's SQUIT crosses the SQUIT of a server that moves.
SPECIFICATION TSpec
CONSTANTS
    Site = {1, 2, 3}
    Slot = {1, 2, 3}
    Ends <- MCEnds
    NLines <- MCNLines
    HLines <- MCNLines
    Moody = {}
    MaxClock = 2
    MaxDials = 3
    MaxTroubles = 1
INVARIANTS NoGhostServer
CHECK_DEADLOCK FALSE
