\* Whom a flood limit that came with a netjoin blocks.
SPECIFICATION ToSpec
CONSTANTS
  Here = {"f", "g"}
  There = {"r"}
  Founder = "f"
  Letter = {"m", "K"}
  Limits = {1, 2}
  Keys = {1}
  Msgs = {2}
  Offered <- MCOffered
  MaxSaid = 2
  MaxDone = 5
INVARIANTS FloodersBlocked
CHECK_DEADLOCK FALSE
