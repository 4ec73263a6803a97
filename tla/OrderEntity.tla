---------------------------- MODULE OrderEntity ----------------------------
(***************************************************************************)
(* The order row of MySQL as the saga's consumers see it: the transitions  *)
(* of the Order entity (src/src/order/domain/entities/order.entity.ts) as  *)
(* functions from a row to the row that is written back.                   *)
(*                                                                         *)
(* A row carries its status and the coupon applied to it.  discountAmount  *)
(* and finalAmount are functions of the applied coupon: applyCoupon is the *)
(* only code that sets them, and sets all three columns together.  paidAt  *)
(* is non-null exactly when the status is PAID and is left out.            *)
(***************************************************************************)
EXTENDS Integers

CONSTANTS
  Coupons,        \* coupon ids
  NoCoupon,       \* the null couponId
  DiscountRate    \* discount rate of each coupon, in percent

ASSUME CouponAssumption ==
  /\ NoCoupon \notin Coupons
  /\ DiscountRate \in [Coupons -> 0..100]

MaybeCoupon == Coupons \cup {NoCoupon}

OrderStatus == {"PENDING", "PAYMENT_PROCESSING", "PAID", "CANCELLED", "EXPIRED"}

Row == [status : OrderStatus, coupon : MaybeCoupon]

\* What createPendingOrder writes.
PendingRow == [status |-> "PENDING", coupon |-> NoCoupon]

Cancellable(row) == row.status \in {"PAID", "PAYMENT_PROCESSING"}

CanPay(row, isExpired) == row.status = "PENDING" /\ ~isExpired

\* beginPaymentProcessing, of a row that CanPay
BeginPaymentProcessing(row) == [row EXCEPT !.status = "PAYMENT_PROCESSING"]

\* completePayment throws on every other status
CanComplete(row) == row.status = "PAYMENT_PROCESSING"

CompletePayment(row) == [row EXCEPT !.status = "PAID"]

\* cancelPayment, of a Cancellable row: the coupon and its discount stay
CancelPayment(row) == [row EXCEPT !.status = "PENDING"]

ApplyCoupon(row, c) == [row EXCEPT !.coupon = c]

\* The discount is rounded down to a whole amount.
FinalAmount(total, row) ==
  IF row.coupon = NoCoupon
  THEN total
  ELSE total - (total * DiscountRate[row.coupon]) \div 100
=============================================================================
