\* Links break and come again: members of a channel, its topic, what is told of it, and the tree of servers.
SPECIFICATION SSpec
CONSTANTS
  Server = {1, 2, 3}
  User = {"u1", "u2", "u3"}
  Home <- LineHome
  Via <- LineVia
  Modes = {"m", "n"}
  Sticky = {}
  NewModes = {"n"}
  MaxTS = 1
  MaxArg = 1
  HalfOps = FALSE
  Start <- StartOpen
  Actors = {"u2"}
  Opers = {}
  Victims = {"u2"}
  Acts = {"join", "part", "quit", "kill"}
  MaxOps = 2
  MaxCuts = 1
  Host = {1, 2, 3, 9}
  Joint <- MCJoint
  Behind_ <- MCBehind
  ServicesServer = 9
  Sides <- MCSides
  Words = {"s", "t"}
  NoTopic = "none"
  MaxAge = 2
  MaxSets = 2
  MaxLosses = 1
  Here = {"f", "g"}
  There = {"r"}
  Founder = "f"
  Letter = {"m", "K"}
  Limits = {1, 2}
  Keys = {1}
  Msgs = {2}
  Offered <- MCOffered
  MaxSaid = 2
  MaxDone = 6
  Site = {1, 2, 3}
  Slot = {1, 2, 3}
  Ends <- MCEnds
  NLines <- MCNLines
  HLines <- MCHLines
  Moody = {1}
  MaxClock = 2
  MaxDials = 3
  MaxTroubles = 1
INVARIANTS KnownReachable TopicsRight AsTold TreeRight
CHECK_DEADLOCK FALSE
