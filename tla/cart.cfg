\* Three additions and two removals of one row, in any overlap; the stock may
\* be enough for all, for some, or for none.
SPECIFICATION Spec
CONSTANTS
  one = one
  more = more
  two = two
  drop = drop
  undo = undo
  Additions = {one, more, two}
  Removals = {drop, undo}
  Quantity <- Quantities
  Stocks = {0, 2, 4}
INVARIANTS
  TypeOK
  HoldsWhatWasAdded
  CountsWhenSequential
  
CHECK_DEADLOCK FALSE
