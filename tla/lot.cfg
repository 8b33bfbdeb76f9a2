SPECIFICATION FairSpec
CONSTANTS
  Owners = {o1}
  Attendants = {a1}
  Exits = {x1}
  Main = main
  Nobody = nobody
  Capacity <- OneEach
  MaxArrivals = 4
  SigInt = TRUE
INVARIANT TypeOK
INVARIANT SpotsBalance
INVARIANT NoForgottenVehicle
INVARIANT OneVisitor
INVARIANT NoOrphanedWait
PROPERTY Closes
