---------------------------- MODULE SagaOutcomes ----------------------------
(***************************************************************************)
(* What a payment leaves behind once its messages are handled, and how it  *)
(* gets there.  The properties say in their antecedents which attempts and *)
(* which failures they speak of; what happens outside them is told in the  *)
(* README.                                                                 *)
(***************************************************************************)
EXTENDS OrderSaga, FiniteSetsExt

\* No request is in and no message of the order is left.
Quiet(o) == task["client"][o].pc = "idle" /\ \A g \in Groups : queue[g][o] = <<>>

\* No order was tried a second time and no message came twice.
FirstPayments == redeliveries = 0 /\ \A o \in Orders : attempts[o] <= 1

QuantityOf(o, p) ==
  MapThenSumSet(LAMBDA i : Items[o][i].quantity,
                {i \in DOMAIN Items[o] : Items[o][i].option = p})

Sold(p) ==
  MapThenSumSet(LAMBDA o : QuantityOf(o, p),
                {o \in Orders : Cancellable(orders[o])})

\* createOrder reserved every item of the orders that wait for their payment.
ASSUME ReservationAssumption ==
  /\ IsFiniteSet(Orders)
  /\ \A p \in Options :
       MapThenSumSet(LAMBDA o : QuantityOf(o, p), Orders) <= InitialOptions[p].reserved

\* The user-coupon hash and the row of the coupon c point at o.
HoldsCoupon(o, c) ==
  userCoupons[UserOf[o]][c] = o /\ couponRows[UserOf[o]][c] = o
-----------------------------------------------------------------------------
\* NFR-012 for the balance: after a first payment the order is PAID with
\* exactly its final amount deducted, or nothing was deducted.
MoneySettled ==
  \A o \in Orders :
    FirstPayments /\ Quiet(o) =>
      IF orders[o].status = "PAID"
      THEN logs[o] = <<FinalAmount(TotalAmount[o], orders[o])>>
      ELSE logs[o] = <<>>

\* NFR-012 for the stock: when first payments only were made and nothing is
\* in flight, the stock of every option is down by what the orders paid for
\* (or stuck in payment) contain, and by nothing else; a failed payment has
\* its reservation back.
StockSettled ==
  FirstPayments /\ (\A o \in Orders : Quiet(o)) =>
    \A p \in Options :
      options[p] = [stock    |-> InitialOptions[p].stock - Sold(p),
                    reserved |-> InitialOptions[p].reserved - Sold(p)]

\* NFR-012 and BR-008 for the coupon: after a first payment a PAID order
\* holds the coupon of its discount in Redis and in MySQL, and an order that
\* failed holds none.
CouponSettled ==
  \A o \in Orders :
    FirstPayments /\ Quiet(o) =>
      /\ orders[o].status = "PENDING" =>
           \A c \in Coupons : /\ userCoupons[UserOf[o]][c] # o
                              /\ couponRows[UserOf[o]][c] # o
      /\ orders[o].status = "PAID" /\ orders[o].coupon # NoCoupon =>
           HoldsCoupon(o, orders[o].coupon)

\* RF-019, RF-020: an order whose payment completed is exported, and counted
\* in the ranking exactly once.
PaidIsExported ==
  \A o \in Orders :
    FirstPayments /\ Quiet(o) =>
      /\ exported[o] <=> orders[o].status = "PAID"
      /\ sales[o] = IF orders[o].status = "PAID" THEN 1 ELSE 0
-----------------------------------------------------------------------------
\* The aggregator's promise, when no success is recorded before the init
\* handler ran: an order in payment is decided.
PaymentDecided ==
  [](\A o \in Orders :
       queue["order-order-processing-init"][o] # <<>> => store[o] = NoState)
  => \A o \in Orders : orders[o].status = "PAYMENT_PROCESSING"
                         ~> orders[o].status # "PAYMENT_PROCESSING"

\* The same without the condition, as the architecture document has it.
AggregatorDecides ==
  \A o \in Orders : orders[o].status = "PAYMENT_PROCESSING"
                      ~> orders[o].status # "PAYMENT_PROCESSING"

\* On the same condition, a payment of which no step reports a failure
\* completes: no message gets lost between the consumers.
UnfailedPaymentCompletes ==
  [](\A o \in Orders :
       /\ queue["order-order-processing-init"][o] # <<>> => store[o] = NoState
       /\ \A g \in OrderFailGroups : queue[g][o] = <<>>)
  => \A o \in Orders : orders[o].status = "PAYMENT_PROCESSING"
                         ~> orders[o].status = "PAID"
-----------------------------------------------------------------------------
(***************************************************************************)
(* First payments implement the abstract payment.                          *)
(***************************************************************************)
Phase(status) ==
  CASE status = "PAYMENT_PROCESSING" -> "inPayment"
    [] status = "PAID" -> "paid"
    [] OTHER -> "open"

Lifecycle == INSTANCE PaymentLifecycle WITH
  phase <- [o \in Orders |-> Phase(orders[o].status)],
  taken <- [o \in Orders |-> logs[o] # <<>>]

\* The steps of the saga are steps of the abstract payment or stutter.
PaymentRefined == Lifecycle!Spec
=============================================================================
