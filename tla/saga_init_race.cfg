\* A payment whose stock success is recorded before the init handler ran.
SPECIFICATION FairSpec
CONSTANTS
  o1 = o1
  o2 = o2
  u1 = u1
  p1 = p1
  p2 = p2
  half = half
  free = free
  NoCoupon = NoCoupon
  NoOrder = NoOrder
  Orders = {o1}
  Users = {u1}
  Options = {p1}
  Coupons = {half}
  UserOf <- OneUser
  Items <- OneItem
  TotalAmount <- Totals
  DiscountRate <- HalfOff
  InitialOptions <- Stocked
  InitialBalance <- Rich
  InitialUserCoupons <- AllIssued
  Faults = {}
  MaxAttempts = 1
  MaxRedeliveries = 0
PROPERTIES
  AggregatorDecides
CHECK_DEADLOCK FALSE
