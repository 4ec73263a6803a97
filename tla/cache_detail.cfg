\* Pages of two products are asked for.
SPECIFICATION ShopSpec
CONSTANTS
  shirt = shirt
  shoes = shoes
  both = both
  again = again
  visitor = visitor
  other = other
  Options = {shirt, shoes}
  ProductOf <- Catalogue
  OnSale = {1, 2}
  InitialStock <- Shelf
  Levels <- Stocks
  MaxChanges = 1
  Orders = {both, again}
  Items <- Baskets
  Clients = {visitor, other}
  RequestsOf <- Pages
  MaxRange = 2
  KeepDays = 3
  DefaultRange = 1
  TicksPerDay = 1
  Ttl <- Jittered
  MaxDeliveries = 0
  LastTick = 3
  Faults = {}
INVARIANTS
  AnswersTheRequest
CHECK_DEADLOCK FALSE
