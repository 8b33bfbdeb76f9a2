SPECIFICATION UndisturbedSpec
CONSTANTS
  o1 = o1
  o2 = o2
  Cooks = {c1, c2, c3}
  Couriers = {d1}
  Main = main
  Completion = completion
  NoOne = noone
  Orders = {o1, o2}
  NoOrder = noorder
  Plans <- OneBatch
  Apparatus = 1
  OvenCapacity = 2
  BagCapacity = 1
PROPERTY AllServed
CHECK_DEADLOCK FALSE
