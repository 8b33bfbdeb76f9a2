SPECIFICATION FairSpec
CONSTANTS
  Clients <- TwoPids
  NoClient = noclient
  ArraySize = 2
  Behind = 0
  Sizes = {0, 1, 2}
  Patient = {1}
  Commands = {"plain", "silent", "bare", "killServer"}
  MaxCommands = 2
  Mortal = {1, 3}
  SigInt = TRUE
INVARIANT TypeOK
INVARIANT TurnTaking
INVARIANT SlotOwner
INVARIANT CommandAccounting
PROPERTY QueueMoves
PROPERTY Answered
CHECK_DEADLOCK FALSE
