\* Two users ask for the only copy of a coupon, two orders of one of them use
\* it, the recording of the use may fail, a message is redelivered, and
\* either payment may fail in another service at any time.
SPECIFICATION FairSpec
CONSTANTS
  buyer = buyer
  rival = rival
  first = first
  second = second
  coupon = coupon
  NoOrder = NoOrder
  Users = {buyer, rival}
  Coupons = {coupon}
  Orders = {first, second}
  UserOf <- OwnerOf
  CouponOf <- NamedCoupon
  Total <- OneEach
  Faults = {"record", "publish"}
  MaxRedeliveries = 1
INVARIANTS
  TypeOK
  IssuedCountsHolders
  DiscountHasRow
PROPERTIES
  SaleRefined
  
CHECK_DEADLOCK FALSE
