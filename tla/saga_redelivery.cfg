\* One payment of one order under the failures the handlers do not
\* compensate, with one redelivery.
SPECIFICATION Spec
CONSTANTS
  o1 = o1
  o2 = o2
  u1 = u1
  p1 = p1
  p2 = p2
  half = half
  free = free
  NoCoupon = NoCoupon
  NoOrder = NoOrder
  Orders = {o1}
  Users = {u1}
  Options = {p1}
  Coupons = {half}
  UserOf <- OneUser
  Items <- OneItem
  TotalAmount <- Totals
  DiscountRate <- HalfOff
  InitialOptions <- Stocked
  InitialBalance <- Rich
  InitialUserCoupons <- AllIssued
  Faults = {"request", "stock", "publish", "swallowed"}
  MaxAttempts = 1
  MaxRedeliveries = 1
INVARIANTS
  
  PaidImpliesDeducted
  
CHECK_DEADLOCK FALSE
