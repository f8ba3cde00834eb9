\* Two servers meet while their clients join, leave, kick and set modes.
SPECIFICATION FairSpec
CONSTANTS
  Server = {1, 2}
  User = {"u1", "v1", "u2"}
  Home <- PairHome
  Via <- PairVia
  Modes = {"n", "O"}
  Sticky = {"O"}
  NewModes = {"n"}
  MaxTS = 2
  MaxArg = 1
  HalfOps = FALSE
  Start <- StartBare
  Actors = {"u1", "u2"}
  Opers = {"u1"}
  Victims = {}
  Acts = {"join", "part", "kick", "quit", "op", "deop", "status", "cmode"}
  MaxOps = 2
  MaxCuts = 1
INVARIANTS OpNotDeopped MembersKnown NamesAgree
PROPERTIES NoGhost
CHECK_DEADLOCK FALSE
