----------------------------- MODULE OrderSaga -----------------------------
(***************************************************************************)
(* The payment of an order: the HTTP request that starts it and the Kafka  *)
(* consumer groups that carry it out as a choreographed saga over MySQL    *)
(* rows, Redis hashes and per-order FIFO topics.                           *)
(*                                                                         *)
(* One action is one step of a handler between two awaits that touch       *)
(* shared state: a database read, a database write (or transaction), a     *)
(* Redis command or script, a publish.  What a handler read is kept in     *)
(* task, its local state, and is written back later, as in the code.       *)
(***************************************************************************)
EXTENDS CoordinatorStore, ProductOptionEntity, Sequences

CONSTANTS
  Orders, NoOrder,
  Users,
  Options,            \* product options
  UserOf,             \* who placed each order
  Items,              \* order items, in the order the handlers visit them
  TotalAmount,        \* totalAmount of each order
  InitialOptions,     \* stock and reservations when the orders exist
  InitialBalance,     \* user balances
  InitialUserCoupons, \* user-coupon hashes in Redis
  Faults,             \* which operations may fail for reasons outside the model
  MaxAttempts,        \* bound: accepted payment requests per order
  MaxRedeliveries     \* bound: redeliveries of messages, in total

\* request: an instance dies in a payment request; stock, coupon, balance:
\* the database or Redis refuses the operation; publish: so does Kafka, in a
\* handler that catches it; swallowed: an exception leaves a handler
FaultKinds == {"request", "stock", "coupon", "balance", "publish", "swallowed"}

Item == [option : Options, quantity : Nat \ {0}]

\* A user-coupon hash: absent, a hash without an issued coupon's fields
\* (only usedAt and orderId, both empty), issued and unused, or used by an
\* order.
UserCoupon == {"absent", "phantom", "unused"} \cup Orders

ASSUME SagaAssumption ==
  /\ NoOrder \notin Orders
  /\ Orders \cap {"absent", "phantom", "unused"} = {}
  /\ UserOf \in [Orders -> Users]
  /\ Items \in [Orders -> Seq(Item)]
  /\ TotalAmount \in [Orders -> Nat]
  /\ InitialOptions \in [Options -> Option]
  /\ \A p \in Options : ValidStock(InitialOptions[p])
  /\ InitialBalance \in [Users -> Nat]
  /\ InitialUserCoupons \in [Users -> [Coupons -> {"absent", "unused"}]]
  /\ Faults \subseteq FaultKinds
  /\ MaxAttempts \in Nat
  /\ MaxRedeliveries \in Nat

VARIABLES
  orders,       \* orders table
  expired,      \* has the clock passed the order's expiredAt?
  options,      \* product_options table
  userCoupons,  \* Redis: data:user-coupon:{couponId}:{userId}
  couponRows,   \* user_coupons table: the order of the row (user, coupon)
  balance,      \* users table
  logs,         \* user_balance_change_log: amounts deducted with ref_id = order
  store,        \* Redis: order:processing:state:{orderId}
  queue,        \* queue[g][o]: messages of order o that group g has not committed
  task,         \* task[g][o]: local state of g's handler for order o
  attempts,     \* payment requests that passed beginPaymentProcessing
  redeliveries, \* messages delivered again so far
  exported,     \* Redis: data:order:processed:{orderId}
  sales         \* times the order was added to the sales ranking

rowVars     == <<orders, expired>>
couponVars  == <<userCoupons, couponRows>>
balanceVars == <<balance, logs>>
sinkVars    == <<exported, sales>>
dataVars    == <<rowVars, options, couponVars, balanceVars, store, sinkVars>>
vars        == <<dataVars, queue, task, attempts, redeliveries>>
-----------------------------------------------------------------------------
(***************************************************************************)
(* Topics and consumer groups.  Messages are keyed by orderId, so a group  *)
(* sees the messages of one order in the order they were published; two    *)
(* orders are independent.  order.processed has no key, but its two        *)
(* handlers commute with themselves.                                       *)
(***************************************************************************)
Subscribers(topic) ==
  CASE topic = "order.processing" ->
         {"order-order-processing-init", "product-order-processing",
          "coupon-order-processing"}
    [] topic = "order.processing.stock.success" ->
         {"order-order-processing-stock-success"}
    [] topic = "order.processing.coupon.success" ->
         {"order-order-processing-coupon-success"}
    [] topic = "order.processing.success" -> {"order-processing-success"}
    [] topic = "order.processing.fail" ->
         {"order-order-processing-fail", "product-order-processing-fail",
          "coupon-order-processing-fail"}
    [] topic = "order.payment" -> {"user-order-payment"}
    [] topic = "order.payment.success" -> {"order-payment-success"}
    [] topic = "order.payment.fail" ->
         {"order-payment-fail", "product-order-payment-fail",
          "coupon-order-payment-fail"}
    [] topic = "order.processed" ->
         {"external-platform-redis-group", "product-order-processed"}

OrderFailGroups   == {"order-order-processing-fail", "order-payment-fail"}
ProductFailGroups == {"product-order-processing-fail", "product-order-payment-fail"}
CouponFailGroups  == {"coupon-order-processing-fail", "coupon-order-payment-fail"}
MarkGroups == {"order-order-processing-stock-success",
               "order-order-processing-coupon-success"}

Groups ==
  {"order-order-processing-init", "product-order-processing",
   "coupon-order-processing", "order-processing-success",
   "user-order-payment", "order-payment-success",
   "external-platform-redis-group", "product-order-processed"}
  \cup MarkGroups \cup OrderFailGroups \cup ProductFailGroups \cup CouponFailGroups

\* The payment request under its Redis lock runs beside the consumer groups.
Workers == Groups \cup {"client"}

\* The fields some handler reads.  amount: finalAmount, in order.payment;
\* by: failedBy, in order.processing.fail.
Message == [coupon : MaybeCoupon, applied : MaybeCoupon, amount : Int,
            by : {"none", "ConfirmStockByOrder", "UseUserCouponByOrder"}]

Msg(c) == [coupon |-> c, applied |-> NoCoupon, amount |-> 0, by |-> "none"]

\* The queues after m is published to a topic.
Published(topic, o, m) ==
  [g \in Groups |-> IF g \in Subscribers(topic)
                    THEN [queue[g] EXCEPT ![o] = Append(@, m)]
                    ELSE queue[g]]
-----------------------------------------------------------------------------
(***************************************************************************)
(* Handlers' local state: where the handler is, the row it read and the    *)
(* number of items it has done.                                            *)
(***************************************************************************)
PC == {"idle", "update", "publish", "create", "cancelCheck", "cancel",
       "delete", "get", "clear"}

Task == [pc : PC, row : Row, done : Nat]

Idle == [pc |-> "idle", row |-> PendingRow, done |-> 0]

Holding(p, row) == [pc |-> p, row |-> row, done |-> 0]

Doing(p, n) == [pc |-> p, row |-> PendingRow, done |-> n]

Goto(g, o, t) == task' = [task EXCEPT ![g][o] = t]

\* Group g is at p with the first message of order o in its hands.
At(g, o, p) == queue[g][o] # <<>> /\ task[g][o].pc = p

Received(g, o) == Head(queue[g][o])

\* The handler returned.  Its offset is committed, or the consumer is lost
\* before that and the message will be delivered again.  q: the queues
\* after the last publish of the handler.
Return(g, o, q) ==
  /\ Goto(g, o, Idle)
  /\ \/ queue' = [q EXCEPT ![g][o] = Tail(@)] /\ UNCHANGED redeliveries
     \/ /\ redeliveries < MaxRedeliveries
        /\ redeliveries' = redeliveries + 1
        /\ queue' = q

\* The handler goes on to p: nothing is committed.
Continue(g, o, p) ==
  /\ Goto(g, o, [task[g][o] EXCEPT !.pc = p])
  /\ UNCHANGED <<queue, redeliveries>>
-----------------------------------------------------------------------------
(***************************************************************************)
(* The payment request.  The lock payment:order:{orderId} lets one request *)
(* at a time in; the request that is in is task["client"][o].              *)
(***************************************************************************)
\* getOrder and beginPaymentProcessing on the entity
BeginPayment(o) ==
  /\ task["client"][o].pc = "idle"
  /\ attempts[o] < MaxAttempts
  /\ CanPay(orders[o], expired[o])
  /\ attempts' = [attempts EXCEPT ![o] = @ + 1]
  /\ Goto("client", o, Holding("update", BeginPaymentProcessing(orders[o])))
  /\ UNCHANGED <<dataVars, queue, redeliveries>>

\* updateOrder
MarkProcessing(o) ==
  /\ task["client"][o].pc = "update"
  /\ orders' = [orders EXCEPT ![o] = task["client"][o].row]
  /\ Goto("client", o, [Idle EXCEPT !.pc = "publish"])
  /\ UNCHANGED <<expired, options, couponVars, balanceVars, store, sinkVars,
                 queue, attempts, redeliveries>>

\* publishOrderProcessing, for the coupon the user chose
PublishProcessing(o) ==
  /\ task["client"][o].pc = "publish"
  /\ \E c \in MaybeCoupon :
       queue' = Published("order.processing", o, Msg(c))
  /\ Goto("client", o, Idle)
  /\ UNCHANGED <<dataVars, attempts, redeliveries>>

\* The request dies between two steps: an error response, or the instance
\* stops.  Nothing takes it up again.
RequestFails(o) ==
  /\ "request" \in Faults
  /\ task["client"][o].pc # "idle"
  /\ Goto("client", o, Idle)
  /\ UNCHANGED <<dataVars, queue, attempts, redeliveries>>
-----------------------------------------------------------------------------
(***************************************************************************)
(* Aggregation: the init handler and the two handlers that record a        *)
(* success and publish order.processing.success when both are there.       *)
(***************************************************************************)
InitCoordinator(o) ==
  LET g == "order-order-processing-init" IN
  /\ At(g, o, "idle")
  /\ store' = [store EXCEPT ![o] = InitState(Received(g, o).coupon)]
  /\ Return(g, o, queue)
  /\ UNCHANGED <<rowVars, options, couponVars, balanceVars, sinkVars, attempts>>

\* The hash after the HSETs of group g's script call.
Marked(g, o) ==
  IF g = "order-order-processing-stock-success"
  THEN MarkedStock(store[o])
  ELSE MarkedCoupon(store[o], Received(g, o).applied)

\* markOkAndCheck: one script, atomic
MarkOk(g, o) ==
  /\ At(g, o, "idle")
  /\ store' = [store EXCEPT ![o] = Emit(Marked(g, o))]
  /\ IF Ready(Marked(g, o)) THEN Continue(g, o, "get") ELSE Return(g, o, queue)
  /\ UNCHANGED <<rowVars, options, couponVars, balanceVars, sinkVars, attempts>>

\* get and publishOrderProcessingSuccess.  A hash without the identifying
\* fields gives a message without orderId that no handler accepts, and a
\* clear of another key.
PublishReady(g, o) ==
  /\ At(g, o, "get")
  /\ IF store[o].inited
     THEN /\ queue' = Published("order.processing.success", o,
                        [Msg(store[o].coupon) EXCEPT !.applied = store[o].applied])
          /\ Goto(g, o, [Idle EXCEPT !.pc = "clear"])
          /\ UNCHANGED redeliveries
     ELSE Return(g, o, queue)
  /\ UNCHANGED <<dataVars, attempts>>

ClearStore(g, o) ==
  /\ At(g, o, "clear")
  /\ store' = [store EXCEPT ![o] = NoState]
  /\ Return(g, o, queue)
  /\ UNCHANGED <<rowVars, options, couponVars, balanceVars, sinkVars, attempts>>
-----------------------------------------------------------------------------
(***************************************************************************)
(* product: confirmPaymentStock for each item, each in a transaction of    *)
(* its own that locks the option's row.                                    *)
(***************************************************************************)
CurrentItem(g, o) == Items[o][task[g][o].done + 1]

ItemsLeft(g, o) == task[g][o].done < Len(Items[o])

\* The transaction of one item, by op, commits.
ItemDone(g, o, op(_, _)) ==
  LET item == CurrentItem(g, o)
      new  == op(options[item.option], item.quantity) IN
  /\ ItemsLeft(g, o)
  /\ ValidStock(new)
  /\ options' = [options EXCEPT ![item.option] = new]
  /\ Goto(g, o, Doing("update", task[g][o].done + 1))

ConfirmStock(o) ==
  LET g == "product-order-processing" IN
  /\ At(g, o, "idle") \/ At(g, o, "update")
  /\ ItemDone(g, o, DecreaseStock)
  /\ UNCHANGED <<rowVars, couponVars, balanceVars, store, sinkVars,
                 queue, attempts, redeliveries>>

StockConfirmed(o) ==
  LET g == "product-order-processing" IN
  /\ At(g, o, "idle") \/ At(g, o, "update")
  /\ ~ItemsLeft(g, o)
  /\ Return(g, o, Published("order.processing.stock.success", o,
                            Msg(Received(g, o).coupon)))
  /\ UNCHANGED <<dataVars, attempts>>

\* The catch: the transaction of one item rolled back, or the publish of
\* the success failed.  What was confirmed before stays confirmed.
ConfirmStockFails(o) ==
  LET g == "product-order-processing" IN
  /\ At(g, o, "idle") \/ At(g, o, "update")
  /\ \/ ItemsLeft(g, o) /\ "stock" \in Faults
     \/ ~ItemsLeft(g, o) /\ "publish" \in Faults
     \/ /\ ItemsLeft(g, o)
        /\ ~ValidStock(DecreaseStock(options[CurrentItem(g, o).option],
                                     CurrentItem(g, o).quantity))
  /\ Return(g, o, Published("order.processing.fail", o,
                    [Msg(Received(g, o).coupon) EXCEPT !.by = "ConfirmStockByOrder"]))
  /\ UNCHANGED <<dataVars, attempts>>
-----------------------------------------------------------------------------
(***************************************************************************)
(* coupon: use the user's coupon in Redis, record it in MySQL.             *)
(***************************************************************************)
\* if (!couponId) return
SkipCoupon(o) ==
  LET g == "coupon-order-processing" IN
  /\ At(g, o, "idle")
  /\ Received(g, o).coupon = NoCoupon
  /\ Return(g, o, queue)
  /\ UNCHANGED <<dataVars, attempts>>

\* getCachedCoupon and the USE script, atomic: an issued, unused coupon
UseCoupon(o) ==
  LET g == "coupon-order-processing"
      c == Received(g, o).coupon
      u == UserOf[o] IN
  /\ At(g, o, "idle")
  /\ c # NoCoupon
  /\ userCoupons[u][c] = "unused"
  /\ userCoupons' = [userCoupons EXCEPT ![u][c] = o]
  /\ Continue(g, o, "create")
  /\ UNCHANGED <<rowVars, options, couponRows, balanceVars, store, sinkVars, attempts>>

\* The script refuses, or the coupon is not cached, expired, or Redis fails.
UseCouponFails(o) ==
  LET g == "coupon-order-processing"
      c == Received(g, o).coupon IN
  /\ At(g, o, "idle")
  /\ c # NoCoupon
  /\ userCoupons[UserOf[o]][c] # "unused" \/ "coupon" \in Faults
  /\ Continue(g, o, "cancelCheck")
  /\ UNCHANGED <<dataVars, attempts>>

\* createUserCoupon: (user_id, coupon_id) is unique
CreateUserCoupon(o) ==
  LET g == "coupon-order-processing"
      c == Received(g, o).coupon
      u == UserOf[o] IN
  /\ At(g, o, "create")
  /\ couponRows[u][c] = NoOrder
  /\ couponRows' = [couponRows EXCEPT ![u][c] = o]
  /\ Continue(g, o, "publish")
  /\ UNCHANGED <<rowVars, options, userCoupons, balanceVars, store, sinkVars, attempts>>

CouponUsed(o) ==
  LET g == "coupon-order-processing"
      c == Received(g, o).coupon IN
  /\ At(g, o, "publish")
  /\ Return(g, o, Published("order.processing.coupon.success", o,
                            [Msg(c) EXCEPT !.applied = c]))
  /\ UNCHANGED <<dataVars, attempts>>

\* createUserCoupon or the publish throws.
RecordCouponFails(o) ==
  LET g == "coupon-order-processing" IN
  /\ \/ /\ At(g, o, "create")
        /\ \/ couponRows[UserOf[o]][Received(g, o).coupon] # NoOrder
           \/ "coupon" \in Faults
     \/ At(g, o, "publish") /\ "publish" \in Faults
  /\ Continue(g, o, "cancelCheck")
  /\ UNCHANGED <<dataVars, attempts>>

\* cancelCouponUse's HSET on the user-coupon hash
Cancelled(hash) == IF hash \in {"absent", "phantom"} THEN "phantom" ELSE "unused"

CouponProcessingFailed(o) ==
  LET g == "coupon-order-processing" IN
  Return(g, o, Published("order.processing.fail", o,
                 [Msg(Received(g, o).coupon) EXCEPT !.by = "UseUserCouponByOrder"]))

\* Mutant of CancelCheck: a coupon another order used is cancelled too.
CancelUnchecked(o) ==
  LET g == "coupon-order-processing" IN
  /\ At(g, o, "cancelCheck")
  /\ Continue(g, o, "cancel")
  /\ UNCHANGED <<dataVars, attempts>>

\* The catch's cancelCouponUse: HGETALL, and nothing more when another
\* order used the coupon; otherwise HSET, whatever happened in between.
CancelCheck(o) ==
  LET g == "coupon-order-processing" IN
  /\ At(g, o, "cancelCheck")
  /\ IF userCoupons[UserOf[o]][Received(g, o).coupon] \in Orders \ {o}
     THEN CouponProcessingFailed(o)
     ELSE Continue(g, o, "cancel")
  /\ UNCHANGED <<dataVars, attempts>>

CancelUse(o) ==
  LET g == "coupon-order-processing"
      c == Received(g, o).coupon
      u == UserOf[o] IN
  /\ At(g, o, "cancel")
  /\ userCoupons' = [userCoupons EXCEPT ![u][c] = Cancelled(@)]
  /\ CouponProcessingFailed(o)
  /\ UNCHANGED <<rowVars, options, couponRows, balanceVars, store, sinkVars, attempts>>
-----------------------------------------------------------------------------
(***************************************************************************)
(* order: order.processing.success applies the discount and asks for the   *)
(* money; order.payment.success completes the order.                       *)
(***************************************************************************)
\* getOrder; an order that is no longer in payment is skipped
ReadForPayment(o) ==
  LET g == "order-processing-success"
      c == Received(g, o).applied IN
  /\ At(g, o, "idle")
  /\ IF orders[o].status # "PAYMENT_PROCESSING"
     THEN Return(g, o, queue)
     ELSE /\ IF c = NoCoupon
             THEN Goto(g, o, Holding("publish", orders[o]))
             ELSE Goto(g, o, Holding("update", ApplyCoupon(orders[o], c)))
          /\ UNCHANGED <<queue, redeliveries>>
  /\ UNCHANGED <<dataVars, attempts>>

\* updateOrder with the discount
WriteDiscount(o) ==
  LET g == "order-processing-success" IN
  /\ At(g, o, "update")
  /\ orders' = [orders EXCEPT ![o] = task[g][o].row]
  /\ Continue(g, o, "publish")
  /\ UNCHANGED <<expired, options, couponVars, balanceVars, store, sinkVars, attempts>>

\* Mutant of AmountDue: the discount is written but not deducted.
AmountDueUndiscounted(o) == TotalAmount[o]

AmountDue(o) == FinalAmount(TotalAmount[o], task["order-processing-success"][o].row)

PublishPayment(o) ==
  LET g == "order-processing-success" IN
  /\ At(g, o, "publish")
  /\ queue' = Published("order.payment", o,
                [Msg(Received(g, o).coupon) EXCEPT !.amount = AmountDue(o)])
  /\ Goto(g, o, [Idle EXCEPT !.pc = "clear"])
  /\ UNCHANGED <<dataVars, attempts, redeliveries>>

\* getOrder and completePayment, which throws when the order is neither
\* PAID nor PAYMENT_PROCESSING: the message is dropped
ReadForCompletion(o) ==
  LET g == "order-payment-success" IN
  /\ At(g, o, "idle")
  /\ \/ /\ orders[o].status = "PAID"
        /\ Continue(g, o, "publish")
     \/ /\ CanComplete(orders[o])
        /\ Goto(g, o, Holding("update", CompletePayment(orders[o])))
        /\ UNCHANGED <<queue, redeliveries>>
     \/ /\ orders[o].status # "PAID" /\ ~CanComplete(orders[o])
        /\ Return(g, o, queue)
  /\ UNCHANGED <<dataVars, attempts>>

\* updateOrder with PAID
WritePaid(o) ==
  LET g == "order-payment-success" IN
  /\ At(g, o, "update")
  /\ orders' = [orders EXCEPT ![o] = task[g][o].row]
  /\ Goto(g, o, [Idle EXCEPT !.pc = "publish"])
  /\ UNCHANGED <<expired, options, couponVars, balanceVars, store, sinkVars,
                 queue, attempts, redeliveries>>

\* Mutant of PublishProcessed: nobody is told.
CompleteQuietly(o) ==
  LET g == "order-payment-success" IN
  /\ At(g, o, "publish")
  /\ Return(g, o, queue)
  /\ UNCHANGED <<dataVars, attempts>>

PublishProcessed(o) ==
  LET g == "order-payment-success" IN
  /\ At(g, o, "publish")
  /\ Return(g, o, Published("order.processed", o, Msg(Received(g, o).coupon)))
  /\ UNCHANGED <<dataVars, attempts>>
-----------------------------------------------------------------------------
(***************************************************************************)
(* user: deductBalance, then order.payment.success; the catch publishes    *)
(* order.payment.fail, also when it is the publish that failed.            *)
(***************************************************************************)
\* Mutants of Deductible: one of the two checks of User.deduct is missing.
DeductibleAnyAmount(a, u) == a <= balance[u]

DeductibleAnyBalance(a, u) == 0 < a

\* User.deduct refuses the others.
Deductible(a, u) == 0 < a /\ a <= balance[u]

\* Mutant of DeductBalance: a deduction does not end the loop of attempts.
DeductionGoesOn(o) ==
  LET g == "user-order-payment"
      a == Received(g, o).amount
      u == UserOf[o] IN
  /\ At(g, o, "idle")
  /\ Deductible(a, u)
  /\ balance' = [balance EXCEPT ![u] = @ - a]
  /\ logs' = [logs EXCEPT ![o] = Append(@, a)]
  /\ Continue(g, o, "publish") \/ Continue(g, o, "idle")
  /\ UNCHANGED <<rowVars, options, couponVars, store, sinkVars, attempts>>

DeductBalance(o) ==
  LET g == "user-order-payment"
      a == Received(g, o).amount
      u == UserOf[o] IN
  /\ At(g, o, "idle")
  /\ Deductible(a, u)
  /\ balance' = [balance EXCEPT ![u] = @ - a]
  /\ logs' = [logs EXCEPT ![o] = Append(@, a)]
  /\ Continue(g, o, "publish")
  /\ UNCHANGED <<rowVars, options, couponVars, store, sinkVars, attempts>>

\* Mutant of PaymentSucceeded: the success may be published first.
SucceededEarly(o) ==
  LET g == "user-order-payment" IN
  /\ At(g, o, "idle") \/ At(g, o, "publish")
  /\ Return(g, o, Published("order.payment.success", o,
                            Msg(Received(g, o).coupon)))
  /\ UNCHANGED <<dataVars, attempts>>

PaymentSucceeded(o) ==
  LET g == "user-order-payment" IN
  /\ At(g, o, "publish")
  /\ Return(g, o, Published("order.payment.success", o,
                            Msg(Received(g, o).coupon)))
  /\ UNCHANGED <<dataVars, attempts>>

\* INVALID_AMOUNT, INSUFFICIENT_BALANCE, three lost optimistic locks, or
\* the publish of the success
PaymentFailed(o) ==
  LET g == "user-order-payment"
      a == Received(g, o).amount IN
  /\ \/ /\ At(g, o, "idle")
        /\ ~Deductible(a, UserOf[o]) \/ "balance" \in Faults
     \/ At(g, o, "publish") /\ "publish" \in Faults
  /\ Return(g, o, Published("order.payment.fail", o,
                            Msg(Received(g, o).coupon)))
  /\ UNCHANGED <<dataVars, attempts>>
-----------------------------------------------------------------------------
(***************************************************************************)
(* Compensation, the same in both fail topics up to the differences noted. *)
(* The order.*.fail.done messages have no consumer and are left out.       *)
(***************************************************************************)
\* order: after the row, the handler of order.processing.fail also clears
\* the coordinator state.
AfterCancel(g, o) ==
  IF g = "order-order-processing-fail"
  THEN Goto(g, o, [Idle EXCEPT !.pc = "clear"]) /\ UNCHANGED <<queue, redeliveries>>
  ELSE Return(g, o, queue)

ReadForCancel(g, o) ==
  /\ At(g, o, "idle")
  /\ IF Cancellable(orders[o])
     THEN /\ Goto(g, o, Holding("update", CancelPayment(orders[o])))
          /\ UNCHANGED <<queue, redeliveries>>
     ELSE AfterCancel(g, o)
  /\ UNCHANGED <<dataVars, attempts>>

WriteCancel(g, o) ==
  /\ At(g, o, "update")
  /\ orders' = [orders EXCEPT ![o] = task[g][o].row]
  /\ AfterCancel(g, o)
  /\ UNCHANGED <<expired, options, couponVars, balanceVars, store, sinkVars, attempts>>

\* Reading or writing the row throws: the catch goes on to what follows.
CancelFails(g, o) ==
  /\ "swallowed" \in Faults
  /\ At(g, o, "idle") \/ At(g, o, "update")
  /\ AfterCancel(g, o)
  /\ UNCHANGED <<dataVars, attempts>>

\* product: restoreStockAfterPaymentFailure for every item, whoever failed
RestoreItem(g, o) ==
  /\ At(g, o, "idle") \/ At(g, o, "update")
  /\ ItemDone(g, o, RestoreStock)
  /\ UNCHANGED <<rowVars, couponVars, balanceVars, store, sinkVars,
                 queue, attempts, redeliveries>>

StockRestored(g, o) ==
  /\ At(g, o, "idle") \/ At(g, o, "update")
  /\ ~ItemsLeft(g, o)
  /\ Return(g, o, queue)
  /\ UNCHANGED <<dataVars, attempts>>

\* Mutant of NothingToRelease: a failed payment releases no coupon.
NothingAfterPayment(g, o) ==
  \/ Received(g, o).coupon = NoCoupon
  \/ g = "coupon-order-payment-fail"

\* coupon: nothing to do without a coupon, nor, in order.processing.fail,
\* when it was the coupon handler that failed and cancelled its own use
NothingToRelease(g, o) ==
  \/ Received(g, o).coupon = NoCoupon
  \/ /\ g = "coupon-order-processing-fail"
     /\ Received(g, o).by = "UseUserCouponByOrder"

SkipRelease(g, o) ==
  /\ At(g, o, "idle")
  /\ NothingToRelease(g, o)
  /\ Return(g, o, queue)
  /\ UNCHANGED <<dataVars, attempts>>

\* cancelCouponUse, its HGETALL
ReleaseCheck(g, o) ==
  /\ At(g, o, "idle")
  /\ ~NothingToRelease(g, o)
  /\ Continue(g, o, IF userCoupons[UserOf[o]][Received(g, o).coupon] \in Orders \ {o}
                    THEN "delete" ELSE "cancel")
  /\ UNCHANGED <<dataVars, attempts>>

\* cancelCouponUse, its HSET
ReleaseUse(g, o) ==
  /\ At(g, o, "cancel")
  /\ userCoupons' =
       [userCoupons EXCEPT ![UserOf[o]][Received(g, o).coupon] = Cancelled(@)]
  /\ Continue(g, o, "delete")
  /\ UNCHANGED <<rowVars, options, couponRows, balanceVars, store, sinkVars, attempts>>

\* deleteUserCouponByOrderId: every row with this order_id
DeleteUserCoupon(g, o) ==
  /\ At(g, o, "delete")
  /\ couponRows' = [u \in Users |-> [c \in Coupons |->
                      IF couponRows[u][c] = o THEN NoOrder ELSE couponRows[u][c]]]
  /\ Return(g, o, queue)
  /\ UNCHANGED <<rowVars, options, userCoupons, balanceVars, store, sinkVars, attempts>>
-----------------------------------------------------------------------------
(***************************************************************************)
(* After the payment: SETEX of the order's data, which is idempotent, and  *)
(* ZINCRBY of the sales ranking, which is not.                             *)
(***************************************************************************)
ExportOrder(o) ==
  LET g == "external-platform-redis-group" IN
  /\ At(g, o, "idle")
  /\ exported' = [exported EXCEPT ![o] = TRUE]
  /\ Return(g, o, queue)
  /\ UNCHANGED <<rowVars, options, couponVars, balanceVars, store, sales, attempts>>

RecordSales(o) ==
  LET g == "product-order-processed" IN
  /\ At(g, o, "idle")
  /\ sales' = [sales EXCEPT ![o] = @ + 1]
  /\ Return(g, o, queue)
  /\ UNCHANGED <<rowVars, options, couponVars, balanceVars, store, exported, attempts>>
-----------------------------------------------------------------------------
(***************************************************************************)
(* Failures of a consumer.                                                 *)
(***************************************************************************)
\* An exception that leaves the handler, from its body or from its own
\* catch or finally, is logged by KafkaBaseConsumer: the message is gone,
\* its effects so far stay.
Swallow(g, o) ==
  /\ "swallowed" \in Faults
  /\ queue[g][o] # <<>>
  /\ Return(g, o, queue)
  /\ UNCHANGED <<dataVars, attempts>>

\* The instance stops in the middle of a handler, or the group rebalances:
\* the message is delivered again and the handler starts over.
Crash(g, o) ==
  /\ task[g][o].pc # "idle"
  /\ redeliveries < MaxRedeliveries
  /\ redeliveries' = redeliveries + 1
  /\ Goto(g, o, Idle)
  /\ UNCHANGED <<dataVars, queue, attempts>>

\* The clock passes expiredAt.  Only BeginPayment asks whether it has, so
\* it is enough to let it pass where BeginPayment could come next.
Expire(o) ==
  /\ task["client"][o].pc = "idle"
  /\ CanPay(orders[o], expired[o])
  /\ expired' = [expired EXCEPT ![o] = TRUE]
  /\ UNCHANGED <<orders, options, couponVars, balanceVars, store, sinkVars,
                 queue, task, attempts, redeliveries>>
-----------------------------------------------------------------------------
Request(o) ==
  BeginPayment(o) \/ MarkProcessing(o) \/ PublishProcessing(o) \/ RequestFails(o)

Aggregate(o) ==
  \/ InitCoordinator(o)
  \/ \E g \in MarkGroups : MarkOk(g, o) \/ PublishReady(g, o)
  \/ \E g \in MarkGroups \cup {"order-processing-success",
                               "order-order-processing-fail"} : ClearStore(g, o)

ProcessStock(o) == ConfirmStock(o) \/ StockConfirmed(o) \/ ConfirmStockFails(o)

ProcessCoupon(o) ==
  \/ SkipCoupon(o) \/ UseCoupon(o) \/ UseCouponFails(o) \/ CreateUserCoupon(o)
  \/ CouponUsed(o) \/ RecordCouponFails(o) \/ CancelCheck(o) \/ CancelUse(o)

ProcessOrder(o) ==
  \/ ReadForPayment(o) \/ WriteDiscount(o) \/ PublishPayment(o)
  \/ ReadForCompletion(o) \/ WritePaid(o) \/ PublishProcessed(o)

ProcessPayment(o) == DeductBalance(o) \/ PaymentSucceeded(o) \/ PaymentFailed(o)

Compensate(o) ==
  \/ \E g \in OrderFailGroups :
       ReadForCancel(g, o) \/ WriteCancel(g, o) \/ CancelFails(g, o)
  \/ \E g \in ProductFailGroups : RestoreItem(g, o) \/ StockRestored(g, o)
  \/ \E g \in CouponFailGroups :
       SkipRelease(g, o) \/ ReleaseCheck(g, o) \/ ReleaseUse(g, o)
         \/ DeleteUserCoupon(g, o)

Finish(o) == ExportOrder(o) \/ RecordSales(o)

Next ==
  \E o \in Orders :
    \/ Request(o) \/ Aggregate(o) \/ ProcessStock(o) \/ ProcessCoupon(o)
    \/ ProcessOrder(o) \/ ProcessPayment(o) \/ Compensate(o) \/ Finish(o)
    \/ \E g \in Groups : Swallow(g, o) \/ Crash(g, o)
    \/ Expire(o)

\* The orders exist and hold their reservations; no payment has begun.
Init ==
  /\ orders = [o \in Orders |-> PendingRow]
  /\ expired = [o \in Orders |-> FALSE]
  /\ options = InitialOptions
  /\ userCoupons = InitialUserCoupons
  /\ couponRows = [u \in Users |-> [c \in Coupons |-> NoOrder]]
  /\ balance = InitialBalance
  /\ logs = [o \in Orders |-> <<>>]
  /\ store = [o \in Orders |-> NoState]
  /\ queue = [g \in Groups |-> [o \in Orders |-> <<>>]]
  /\ task = [w \in Workers |-> [o \in Orders |-> Idle]]
  /\ attempts = [o \in Orders |-> 0]
  /\ redeliveries = 0
  /\ exported = [o \in Orders |-> FALSE]
  /\ sales = [o \in Orders |-> 0]

Spec == Init /\ [][Next]_vars

\* Every consumer group is polled, and a request that is in goes on.  No
\* fairness for what the user, the clock and the failures do.
Fairness ==
  \A o \in Orders :
    /\ WF_vars(MarkProcessing(o) \/ PublishProcessing(o))
    /\ WF_vars(InitCoordinator(o))
    /\ \A g \in MarkGroups :
         WF_vars(MarkOk(g, o) \/ PublishReady(g, o) \/ ClearStore(g, o))
    /\ WF_vars(ProcessStock(o))
    /\ WF_vars(ProcessCoupon(o))
    /\ WF_vars(ReadForPayment(o) \/ WriteDiscount(o) \/ PublishPayment(o)
                 \/ ClearStore("order-processing-success", o))
    /\ WF_vars(ReadForCompletion(o) \/ WritePaid(o) \/ PublishProcessed(o))
    /\ WF_vars(ProcessPayment(o))
    /\ \A g \in OrderFailGroups :
         WF_vars(ReadForCancel(g, o) \/ WriteCancel(g, o) \/ ClearStore(g, o))
    /\ \A g \in ProductFailGroups :
         WF_vars(RestoreItem(g, o) \/ StockRestored(g, o))
    /\ \A g \in CouponFailGroups :
         WF_vars(SkipRelease(g, o) \/ ReleaseCheck(g, o) \/ ReleaseUse(g, o)
                   \/ DeleteUserCoupon(g, o))
    /\ WF_vars(ExportOrder(o))
    /\ WF_vars(RecordSales(o))

FairSpec == Spec /\ Fairness
-----------------------------------------------------------------------------
TypeOK ==
  /\ orders \in [Orders -> Row]
  /\ expired \in [Orders -> BOOLEAN]
  /\ options \in [Options -> Option]
  /\ userCoupons \in [Users -> [Coupons -> UserCoupon]]
  /\ couponRows \in [Users -> [Coupons -> Orders \cup {NoOrder}]]
  /\ balance \in [Users -> Nat]
  /\ logs \in [Orders -> Seq(Nat \ {0})]
  /\ store \in [Orders -> CoordinatorState]
  /\ queue \in [Groups -> [Orders -> Seq(Message)]]
  /\ task \in [Workers -> [Orders -> Task]]
  /\ attempts \in [Orders -> Nat]
  /\ redeliveries \in Nat
  /\ exported \in [Orders -> BOOLEAN]
  /\ sales \in [Orders -> Nat]

\* An order is PAID, and its data leave for the external platform and the
\* sales ranking, only after its user's balance was debited for it.
PaidImpliesDeducted ==
  \A o \in Orders :
    \/ orders[o].status = "PAID" \/ exported[o] \/ sales[o] > 0
    => logs[o] # <<>>

\* One accepted payment request takes the money at most once; only a
\* redelivered message can take it once more.
DeductionsBounded ==
  \A o \in Orders : Len(logs[o]) <= attempts[o] + redeliveries
=============================================================================
