\* Two orders are sold in four days, a day is kept for three and queries reach
\* back two at most; the page of a product shows a shirt that may be sold out
\* meanwhile.  A tick is a day, and two instances, one of which drew a time to
\* live that lasts into a second day, share the cache.
SPECIFICATION ShopSpec
CONSTANTS
  shirt = shirt
  shoes = shoes
  both = both
  again = again
  visitor = visitor
  other = other
  Options = {shirt, shoes}
  ProductOf <- Catalogue
  OnSale = {1, 2}
  InitialStock <- Shelf
  Levels <- Stocks
  MaxChanges = 1
  Orders = {both, again}
  Items <- Baskets
  Clients = {visitor, other}
  RequestsOf <- Visits
  MaxRange = 2
  KeepDays = 3
  DefaultRange = 1
  TicksPerDay = 1
  Ttl <- Jittered
  MaxDeliveries = 1
  LastTick = 3
  Faults = {"cut"}
INVARIANTS
  ShopTypeOK
  KeysExpire
  AnswersTheRequest
  
CHECK_DEADLOCK FALSE
