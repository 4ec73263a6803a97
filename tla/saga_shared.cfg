\* Two orders of one user, the same option, the same coupon.
SPECIFICATION Spec
CONSTANTS
  o1 = o1
  o2 = o2
  u1 = u1
  p1 = p1
  p2 = p2
  half = half
  free = free
  NoCoupon = NoCoupon
  NoOrder = NoOrder
  Orders = {o1, o2}
  Users = {u1}
  Options = {p1}
  Coupons = {half}
  UserOf <- OneUser
  Items <- OneItem
  TotalAmount <- Totals
  DiscountRate <- HalfOff
  InitialOptions <- Stocked
  InitialBalance <- Rich
  InitialUserCoupons <- AllIssued
  Faults = {"balance"}
  MaxAttempts = 1
  MaxRedeliveries = 0
SYMMETRY AnyOrder
INVARIANTS
  StockSettled
  CouponSettled
CHECK_DEADLOCK FALSE
