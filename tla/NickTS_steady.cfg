\* Three linked servers, and two commands cross; three servers that meet; or modes of users.
SPECIFICATION MSpec
CONSTANTS
  Server = {1, 2, 3}
  Client = {"u1", "u2", "u3"}
  Home <- LineHome
  Via <- LineVia
  UserHost <- Strangers
  Services = {}
  Nick = {"a", "b", "c"}
  NoNick = "-"
  Nobody = "nobody"
  MaxTS = 2
  Present = {"u1", "u2"}
  Start <- StartAny
  Linked = TRUE
  Acts = {"nick", "change", "quit", "kill"}
  MaxOps = 2
  Node = {1, 2, 3}
  Near <- MCNear
  Towards <- MCTowards
  User = {"u", "v"}
  Seat <- MCSeat
  Letter = {"i", "r", "R", "y"}
  OperFlags = {"y"}
  SilMask = {"*v", "*"}
  Speaks <- MCSpeaks
  MAXSILES = 1
  Doing <- MCDoing
  MaxBreaks = 1
INVARIANTS NickUnique NoDangling CrossingAgrees NetjoinAgrees UsersRight
PROPERTIES Settles
CHECK_DEADLOCK FALSE
