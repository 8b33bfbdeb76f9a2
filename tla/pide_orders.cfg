SPECIFICATION Spec
CONSTANTS
  o1 = o1
  o2 = o2
  Cooks = {c1, c2}
  Couriers = {d1, d2}
  Main = main
  Completion = completion
  NoOne = noone
  Orders = {o1, o2}
  NoOrder = noorder
  Plans <- OneOrTwoBatches
  Apparatus = 1
  OvenCapacity = 2
  BagCapacity = 2
INVARIANT TypeOK
INVARIANT OvenAccounting
INVARIANT OrderCustody
INVARIANT CooksApart
INVARIANT CountersAgree
SYMMETRY Staff
PROPERTY ResetAfterService
