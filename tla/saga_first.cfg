\* The first payment of one order with two items, with either coupon or
\* none; the coupon and the balance operations may fail.
SPECIFICATION FairSpec
CONSTANTS
  o1 = o1
  o2 = o2
  u1 = u1
  p1 = p1
  p2 = p2
  half = half
  free = free
  NoCoupon = NoCoupon
  NoOrder = NoOrder
  Orders = {o1}
  Users = {u1}
  Options = {p1, p2}
  Coupons = {half, free}
  UserOf <- OneUser
  Items <- TwoItems
  TotalAmount <- Totals
  DiscountRate <- HalfOff
  InitialOptions <- Stocked
  InitialBalance <- Rich
  InitialUserCoupons <- AllIssued
  Faults = {"coupon", "balance"}
  MaxAttempts = 1
  MaxRedeliveries = 0
INVARIANTS
  TypeOK
  
  StockSettled
  CouponSettled
  PaidIsExported
PROPERTIES
  PaymentDecided
  UnfailedPaymentCompletes
  
CHECK_DEADLOCK FALSE
