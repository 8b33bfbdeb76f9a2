SPECIFICATION FairSpec
CONSTANTS
  Clients <- TwoPids
  NoClient = noclient
  ArraySize = 2
  Behind = 0
  Sizes = {2}
  Patient = {1, 3}
  Commands = {"plain"}
  MaxCommands = 2
  Mortal = {}
  SigInt = FALSE
PROPERTY Connected
CHECK_DEADLOCK FALSE
