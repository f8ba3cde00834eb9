\* Three servers in a line, one client each, whose channels all have ops.
SPECIFICATION FairSpec
CONSTANTS
  Server = {1, 2, 3}
  User = {"u1", "u2", "u3"}
  Home <- LineHome
  Via <- LineVia
  Modes = {"m", "n"}
  Sticky = {}
  NewModes = {"n"}
  MaxTS = 3
  MaxArg = 1
  HalfOps = TRUE
  Start <- StartOpped
  Actors = {"u3"}
  Opers = {}
  Victims = {}
  Acts = {"op"}
  MaxOps = 1
  MaxCuts = 0
INVARIANTS Agreement
PROPERTIES YoungerGainsNothing Converges
CHECK_DEADLOCK FALSE
