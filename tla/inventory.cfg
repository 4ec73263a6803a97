\* Two orders reserve the same two options in opposite orders, from a pool of
\* two connections, while the administrator adds a piece; both may be paid,
\* fail and lapse, and two runs of the scheduler overlap.
SPECIFICATION FairSpec
CONSTANTS
  shirt = shirt
  shoes = shoes
  there = there
  back = back
  first = first
  second = second
  NoOrder = NoOrder
  Options = {shirt, shoes}
  Orders = {there, back}
  Items <- Crossing
  InitialStock <- Shelf
  Adjustments <- Delivery
  Connections = 2
  Schedulers = {first, second}
  Payers = {there}
  Scanned = {there}
  Faults = {"insert"}
INVARIANTS
  TypeOK
  
PROPERTIES
  RequestsEnd
  
CHECK_DEADLOCK FALSE
