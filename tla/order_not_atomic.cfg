\* The insert of an order fails after its reservation was committed.
SPECIFICATION Spec
CONSTANTS
  shirt = shirt
  shoes = shoes
  there = there
  back = back
  first = first
  second = second
  NoOrder = NoOrder
  Options = {shirt, shoes}
  Orders = {there, back}
  Items <- Crossing
  InitialStock <- Shelf
  Adjustments <- Delivery
  Connections = 2
  Schedulers = {first, second}
  Payers = {there}
  Scanned = {there}
  Faults = {"insert"}
INVARIANTS
  ReservedForAnOrder
CHECK_DEADLOCK FALSE
