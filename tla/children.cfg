SPECIFICATION FairSpec
CONSTANTS
  Arrays <- TwoArrays
  Parities <- AllParities
  MaxDelay = 11
INVARIANT TypeOK
INVARIANT FinalResult
INVARIANT Reaped
INVARIANT ResultsByParity
PROPERTY Goodbye
CHECK_DEADLOCK FALSE
