SPECIFICATION FairSpec
CONSTANTS
  o1 = o1
  o2 = o2
  Cooks = {c1}
  Couriers = {d1, d2}
  Main = main
  Completion = completion
  NoOne = noone
  Orders = {o1, o2}
  NoOrder = noorder
  Plans <- OneBatch
  Apparatus = 1
  OvenCapacity = 2
  BagCapacity = 2
PROPERTY AllServed
PROPERTY NotBothAsleep
