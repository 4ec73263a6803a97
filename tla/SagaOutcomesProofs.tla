------------------------- MODULE SagaOutcomesProofs -------------------------
(***************************************************************************)
(* Proofs about what a first payment leaves behind: an order that was      *)
(* asked for once and whose messages came once each, for any number of     *)
(* orders that share the stock, the coupons and the balances.              *)
(***************************************************************************)
EXTENDS SagaOutcomes, OrderSagaProofs, SumLemmas

\* Whatever fails is answered by a failure message: no exception leaves a
\* handler, and no handler finds Kafka refusing its publish.
FailuresAreReported == Faults \cap {"publish", "swallowed"} = {}

First(o) == redeliveries = 0 /\ attempts[o] <= 1

UseGroup == "coupon-order-processing"
StockGroup == "order-order-processing-stock-success"
DiscountGroup == "order-processing-success"
DeductGroup == "user-order-payment"
CompleteGroup == "order-payment-success"
ExportGroup == "external-platform-redis-group"
RankGroup == "product-order-processed"

ProcessingFailGroups ==
  {"order-order-processing-fail", "product-order-processing-fail",
   "coupon-order-processing-fail"}

PaymentFailGroups ==
  {"order-payment-fail", "product-order-payment-fail", "coupon-order-payment-fail"}

Messages(g, o) == {queue[g][o][i] : i \in 1..Len(queue[g][o])}

\* Both halves of the aggregation have come together, and what follows has
\* not failed.
JoinedUp(o) ==
  \/ task[StockGroup][o].pc = "get" \/ task[CouponGroup][o].pc = "get"
  \/ queue[DiscountGroup][o] # <<>> \/ queue[DeductGroup][o] # <<>>
  \/ logs[o] # <<>>

\* The coupon's half has not come.
CouponOut(o) == queue[CouponGroup][o] = <<>> /\ ~store[o].couponOk /\ ~JoinedUp(o)

\* It will not come.
CouponLost(o, c) == c # NoCoupon /\ queue[UseGroup][o] = <<>> /\ CouponOut(o)

\* One of the halves, or the payment, has failed for good.
Dead(o, c) == Tokens(o) = 0 \/ CouponLost(o, c)

Untouched(o) == attempts[o] = 0 \/ task["client"][o].pc # "idle"

Fresh(o) ==
  /\ \A g \in Groups : queue[g][o] = <<>>
  /\ store[o] = NoState
  /\ orders[o] = IF task["client"][o].pc = "publish"
                 THEN BeginPaymentProcessing(PendingRow) ELSE PendingRow
  /\ task["client"][o].pc = "update" =>
       task["client"][o].row = BeginPaymentProcessing(PendingRow)

Busy(o) == \A g \in Groups : task[g][o].pc # "idle" => queue[g][o] # <<>>

\* Every message of the payment carries the coupon c of its request.
OneCoupon(o, c) ==
  /\ \A g \in Groups : \A m \in Messages(g, o) : m.coupon = c /\ m.applied \in {NoCoupon, c}
  /\ store[o].inited => store[o].coupon = c
  /\ store[o].applied \in {NoCoupon, c}

CouponHalf(o, c) ==
  /\ Len(queue[UseGroup][o]) <= 1
  /\ queue[UseGroup][o] # <<>> /\ c # NoCoupon => CouponOut(o)
  /\ c = NoCoupon => queue[CouponGroup][o] = <<>> /\ task[UseGroup][o].pc = "idle"

\* A failure message says that its half is lost, a pending order that one is.
Failures(o, c) ==
  /\ \A g \in ProcessingFailGroups : \A m \in Messages(g, o) :
       \/ m.by = "ConfirmStockByOrder" /\ Tokens(o) = 0
       \/ m.by = "UseUserCouponByOrder" /\ CouponLost(o, c)
  /\ \A g \in PaymentFailGroups : queue[g][o] # <<>> => Tokens(o) = 0

Statuses(o, c) ==
  /\ \A g \in OrderFailGroups :
       task[g][o].pc = "update" => task[g][o].row.status = "PENDING"
  /\ task["client"][o].pc = "idle" /\ orders[o].status = "PENDING" => Dead(o, c)
  /\ orders[o].status \in {"PENDING", "PAYMENT_PROCESSING", "PAID"}

\* What is asked for and deducted is the final amount of the row.
Amounts(o, c) ==
  /\ task[DiscountGroup][o].pc = "update" => task[DiscountGroup][o].row = ApplyCoupon(orders[o], c)
  /\ task[DiscountGroup][o].pc = "publish" => task[DiscountGroup][o].row = orders[o]
  /\ task[DeductGroup][o].pc = "idle" =>
       \A m \in Messages(DeductGroup, o) : m.amount = FinalAmount(TotalAmount[o], orders[o])
  /\ logs[o] \in {<<>>, <<FinalAmount(TotalAmount[o], orders[o])>>}

\* The success of a deduction is under way until the order is PAID.
Completion(o) ==
  /\ logs[o] # <<>> /\ orders[o].status # "PAID" =>
       \/ task[DeductGroup][o].pc = "publish" /\ queue[CompleteGroup][o] = <<>>
       \/ /\ task[DeductGroup][o].pc # "publish" /\ Len(queue[CompleteGroup][o]) = 1
          /\ task[CompleteGroup][o].pc \in {"idle", "update"}
  /\ orders[o].status = "PAID" =>
       /\ task[DeductGroup][o].pc # "publish"
       /\ \/ queue[CompleteGroup][o] = <<>>
          \/ Len(queue[CompleteGroup][o]) = 1 /\ task[CompleteGroup][o].pc = "publish"
  /\ task[CompleteGroup][o].pc = "update" => task[CompleteGroup][o].row = CompletePayment(orders[o])

\* The order is PAID, and order.processed was published.
Told(o) == orders[o].status = "PAID" /\ task[CompleteGroup][o].pc # "publish"

Exports(o) ==
  /\ exported[o] \/ queue[ExportGroup][o] # <<>> <=> Told(o)
  /\ sales[o] + Len(queue[RankGroup][o]) = One(Told(o))

Payment(o, c) ==
  /\ OneCoupon(o, c) /\ CouponHalf(o, c) /\ Failures(o, c) /\ Statuses(o, c)
  /\ Amounts(o, c)

FirstPayment(o) ==
  /\ Busy(o)
  /\ Untouched(o) => Fresh(o)
  /\ \E c \in MaybeCoupon : Payment(o, c)
  /\ Completion(o) /\ Exports(o)

IInv == \A o \in Orders : First(o) => FirstPayment(o)
-----------------------------------------------------------------------------
\* The groups that the invariant names are groups of the consumers.
LEMMA GroupsAre ==
  /\ {UseGroup, CouponGroup, StockGroup, DiscountGroup, DeductGroup,
      CompleteGroup, ExportGroup, RankGroup} \subseteq Groups
  /\ ProcessingFailGroups \subseteq Groups /\ PaymentFailGroups \subseteq Groups
  /\ OrderFailGroups \subseteq Groups /\ "client" \notin Groups
  /\ Groups \subseteq Workers /\ "client" \in Workers
  BY DEF Groups, MarkGroups, OrderFailGroups, ProductFailGroups, CouponFailGroups,
         ProcessingFailGroups, PaymentFailGroups, Workers, UseGroup, CouponGroup, StockGroup,
         DiscountGroup, DeductGroup, CompleteGroup, ExportGroup, RankGroup
-----------------------------------------------------------------------------
(***************************************************************************)
(* A step of one order leaves the others alone.                            *)
(***************************************************************************)
SameFlow(x) ==
  /\ \A g \in Groups : queue'[g][x] = queue[g][x]
  /\ \A w \in Workers : task'[w][x] = task[w][x]

SameRows(x) ==
  /\ orders'[x] = orders[x] /\ logs'[x] = logs[x] /\ store'[x] = store[x]
  /\ attempts'[x] = attempts[x] /\ exported'[x] = exported[x] /\ sales'[x] = sales[x]

Leaves(o) ==
  /\ \A x \in Orders \ {o} : SameFlow(x) /\ SameRows(x)
  /\ redeliveries' \in {redeliveries, redeliveries + 1}

\* A worker that goes on with one order leaves the others' tasks alone.
LEMMA GotoLeaves ==
  ASSUME TypeOK, NEW w \in Workers, NEW o \in Orders, NEW t, Goto(w, o, t)
  PROVE  \A v \in Workers, x \in Orders \ {o} : task'[v][x] = task[v][x]
  BY GotoEffect

\* A message of one order is in no other order's queue.
LEMMA PublishedLeaves ==
  ASSUME TypeOK, NEW o \in Orders, NEW topic, NEW m
  PROVE  \A g \in Groups, x \in Orders \ {o} :
           Published(topic, o, m)[g][x] = queue[g][x]
<1>1. \A g \in Groups : queue[g] \in [Orders -> Seq(Message)]
  BY DEF TypeOK
<1> QED
  BY <1>1 DEF Published

\* A handler that returns touches the queues and the task of its order only.
LEMMA ReturnLeaves ==
  ASSUME TypeOK, NEW g \in Groups, NEW o \in Orders, NEW q, Return(g, o, q),
         q = [h \in Groups |-> q[h]],
         \A h \in Groups : q[h] = [x \in Orders |-> q[h][x]],
         \A h \in Groups, x \in Orders \ {o} : q[h][x] = queue[h][x]
  PROVE  /\ \A x \in Orders \ {o} : SameFlow(x)
         /\ redeliveries' \in {redeliveries, redeliveries + 1}
<1>1. \A v \in Workers, x \in Orders \ {o} : task'[v][x] = task[v][x]
  BY GotoLeaves, GroupsAre DEF Return
<1>2. \A h \in Groups, x \in Orders \ {o} : queue'[h][x] = q[h][x]
  BY DEF Return
<1> QED
  BY <1>1, <1>2 DEF SameFlow, Return

\* Queues, with a message published or without, are functions.
LEMMA QueueIs ==
  ASSUME TypeOK, NEW o \in Orders
  PROVE  /\ queue = [h \in Groups |-> queue[h]]
         /\ \A h \in Groups : queue[h] = [x \in Orders |-> queue[h][x]]
         /\ \A topic, m :
              /\ Published(topic, o, m) = [h \in Groups |-> Published(topic, o, m)[h]]
              /\ \A h \in Groups : Published(topic, o, m)[h] =
                                      [x \in Orders |-> Published(topic, o, m)[h][x]]
<1>1. queue = [h \in Groups |-> queue[h]] /\ \A h \in Groups : queue[h] = [x \in Orders |-> queue[h][x]]
  BY DEF TypeOK
<1>2. ASSUME NEW topic, NEW m
      PROVE  /\ Published(topic, o, m) = [h \in Groups |-> Published(topic, o, m)[h]]
             /\ \A h \in Groups : Published(topic, o, m)[h] =
                                     [x \in Orders |-> Published(topic, o, m)[h][x]]
  BY <1>1 DEF Published
<1> QED
  BY <1>1, <1>2

\* The ways in which a handler's step touches the messages and the handlers
FlowOf(g, o) ==
  \/ \E t : Goto(g, o, t) /\ UNCHANGED <<queue, redeliveries>>
  \/ \E t, topic, m : Goto(g, o, t) /\ queue' = Published(topic, o, m) /\ UNCHANGED redeliveries
  \/ g \in Groups /\ Return(g, o, queue)
  \/ g \in Groups /\ \E topic, m : Return(g, o, Published(topic, o, m))
  \/ Goto(g, o, Idle) /\ queue' = queue /\ redeliveries' = redeliveries + 1
  \/ UNCHANGED <<queue, task, redeliveries>>

\* What a handler does to queues and tasks concerns its own order.
LEMMA FlowLeaves ==
  ASSUME TypeOK, NEW g \in Workers, NEW o \in Orders, FlowOf(g, o)
  PROVE  /\ \A x \in Orders \ {o} : SameFlow(x)
         /\ redeliveries' \in {redeliveries, redeliveries + 1}
<1>1. ASSUME NEW t, Goto(g, o, t), UNCHANGED <<queue, redeliveries>>
      PROVE  /\ \A x \in Orders \ {o} : SameFlow(x)
             /\ redeliveries' \in {redeliveries, redeliveries + 1}
  BY <1>1, GotoLeaves DEF SameFlow
<1>2. ASSUME NEW t, NEW topic, NEW m, Goto(g, o, t), queue' = Published(topic, o, m),
             UNCHANGED redeliveries
      PROVE  /\ \A x \in Orders \ {o} : SameFlow(x)
             /\ redeliveries' \in {redeliveries, redeliveries + 1}
  BY <1>2, GotoLeaves, PublishedLeaves DEF SameFlow
<1>3. CASE g \in Groups /\ Return(g, o, queue)
  BY <1>3, QueueIs, ReturnLeaves
<1>4. ASSUME g \in Groups, NEW topic, NEW m, Return(g, o, Published(topic, o, m))
      PROVE  /\ \A x \in Orders \ {o} : SameFlow(x)
             /\ redeliveries' \in {redeliveries, redeliveries + 1}
  BY <1>4, QueueIs, PublishedLeaves, ReturnLeaves
<1>5. CASE Goto(g, o, Idle) /\ queue' = queue /\ redeliveries' = redeliveries + 1
  BY <1>5, GotoLeaves DEF SameFlow
<1>6. CASE UNCHANGED <<queue, task, redeliveries>>
  BY <1>6 DEF SameFlow
<1> QED
  BY <1>1, <1>2, <1>3, <1>4, <1>5, <1>6 DEF FlowOf

RowsLeft(o) == \A x \in Orders \ {o} : SameRows(x)

USE DEF dataVars, rowVars, couponVars, balanceVars, sinkVars

\* The request writes the row, the task and the messages of its own order.
LEMMA RequestLeaves ==
  ASSUME TypeOK, NEW o \in Orders, Request(o)
  PROVE  FlowOf("client", o) /\ RowsLeft(o)
<1>1. CASE BeginPayment(o)
  BY <1>1 DEF BeginPayment, FlowOf, RowsLeft, SameRows, TypeOK
<1>2. CASE MarkProcessing(o)
  BY <1>2 DEF MarkProcessing, FlowOf, RowsLeft, SameRows, TypeOK
<1>3. CASE PublishProcessing(o)
  <2>1. FlowOf("client", o)
    BY <1>3 DEF PublishProcessing, FlowOf
  <2> QED
    BY <1>3, <2>1 DEF PublishProcessing, RowsLeft, SameRows, TypeOK
<1>4. CASE RequestFails(o)
  BY <1>4 DEF RequestFails, FlowOf, RowsLeft, SameRows, TypeOK
<1> QED
  BY <1>1, <1>2, <1>3, <1>4 DEF Request

\* The coordinator writes the state and the messages of its own order.
LEMMA AggregateLeaves ==
  ASSUME TypeOK, NEW o \in Orders, Aggregate(o)
  PROVE  \E g \in Workers : FlowOf(g, o) /\ RowsLeft(o)
<1>1. CASE InitCoordinator(o)
  <2>1. "order-order-processing-init" \in Groups \cap Workers
    BY GroupsAre DEF Groups
  <2>2. FlowOf("order-order-processing-init", o)
    BY <1>1, <2>1 DEF InitCoordinator, FlowOf
  <2>3. RowsLeft(o)
    BY <1>1 DEF InitCoordinator, RowsLeft, SameRows, TypeOK
  <2> QED
    BY <2>1, <2>2, <2>3
<1>2. ASSUME NEW g \in MarkGroups, MarkOk(g, o)
      PROVE  FlowOf(g, o) /\ RowsLeft(o)
  <2>1. g \in Groups
    BY DEF Groups
  <2>2. FlowOf(g, o)
    BY <1>2, <2>1 DEF MarkOk, Continue, FlowOf
  <2>3. RowsLeft(o)
    BY <1>2 DEF MarkOk, RowsLeft, SameRows, TypeOK
  <2> QED
    BY <2>2, <2>3
<1>3. ASSUME NEW g \in MarkGroups, PublishReady(g, o)
      PROVE  FlowOf(g, o) /\ RowsLeft(o)
  <2>1. g \in Groups
    BY DEF Groups
  <2>2. FlowOf(g, o)
    BY <1>3, <2>1 DEF PublishReady, FlowOf
  <2>3. RowsLeft(o)
    BY <1>3 DEF PublishReady, RowsLeft, SameRows, TypeOK
  <2> QED
    BY <2>2, <2>3
<1>4. ASSUME NEW g \in Groups, ClearStore(g, o)
      PROVE  FlowOf(g, o) /\ RowsLeft(o)
  <2>1. FlowOf(g, o)
    BY <1>4 DEF ClearStore, FlowOf
  <2>2. RowsLeft(o)
    BY <1>4 DEF ClearStore, RowsLeft, SameRows, TypeOK
  <2> QED
    BY <2>1, <2>2
<1>5. /\ MarkGroups \subseteq Groups
      /\ {"order-processing-success", "order-order-processing-fail"} \subseteq Groups
  BY GroupsAre DEF Groups, MarkGroups, OrderFailGroups
<1> QED
  BY <1>1, <1>2, <1>3, <1>4, <1>5, GroupsAre DEF Aggregate

\* The stock's handler leaves the rows of the other orders alone.
LEMMA StockLeaves ==
  ASSUME TypeOK, NEW o \in Orders, ProcessStock(o)
  PROVE  FlowOf("product-order-processing", o) /\ RowsLeft(o)
<1>0. "product-order-processing" \in Groups
  BY DEF Groups
<1>1. FlowOf("product-order-processing", o)
  BY <1>0 DEF ProcessStock, ConfirmStock, StockConfirmed, ConfirmStockFails, ItemDone, FlowOf
<1>2. RowsLeft(o)
  BY DEF ProcessStock, ConfirmStock, StockConfirmed, ConfirmStockFails, RowsLeft, SameRows
<1> QED
  BY <1>1, <1>2

\* The coupon's handler leaves the rows of the other orders alone.
LEMMA CouponLeaves ==
  ASSUME TypeOK, NEW o \in Orders, ProcessCoupon(o)
  PROVE  FlowOf(UseGroup, o) /\ RowsLeft(o)
<1>0. UseGroup \in Groups /\ UseGroup = "coupon-order-processing"
  BY GroupsAre DEF UseGroup
<1>1. FlowOf(UseGroup, o)
  BY <1>0
  DEF ProcessCoupon, SkipCoupon, UseCoupon, UseCouponFails, CreateUserCoupon, CouponUsed,
      RecordCouponFails, CancelCheck, CancelUse, CouponProcessingFailed, Continue, FlowOf
<1>2. RowsLeft(o)
  BY DEF ProcessCoupon, SkipCoupon, UseCoupon, UseCouponFails, CreateUserCoupon, CouponUsed,
      RecordCouponFails, CancelCheck, CancelUse, RowsLeft, SameRows
<1> QED
  BY <1>1, <1>2

\* The order's handlers leave the rows of the other orders alone.
LEMMA OrderLeaves ==
  ASSUME TypeOK, NEW o \in Orders, ProcessOrder(o)
  PROVE  (FlowOf(DiscountGroup, o) \/ FlowOf(CompleteGroup, o)) /\ RowsLeft(o)
<1>0. /\ DiscountGroup \in Groups /\ DiscountGroup = "order-processing-success"
      /\ CompleteGroup \in Groups /\ CompleteGroup = "order-payment-success"
  BY GroupsAre DEF DiscountGroup, CompleteGroup
<1>1. CASE ReadForPayment(o) \/ WriteDiscount(o) \/ PublishPayment(o)
  <2>1. FlowOf(DiscountGroup, o)
    BY <1>0, <1>1 DEF ReadForPayment, WriteDiscount, PublishPayment, Continue, FlowOf
  <2>2. RowsLeft(o)
    BY <1>1 DEF ReadForPayment, WriteDiscount, PublishPayment, RowsLeft, SameRows, TypeOK
  <2> QED
    BY <2>1, <2>2
<1>2. CASE ReadForCompletion(o) \/ WritePaid(o) \/ PublishProcessed(o)
  <2>1. FlowOf(CompleteGroup, o)
    BY <1>0, <1>2 DEF ReadForCompletion, WritePaid, PublishProcessed, Continue, FlowOf
  <2>2. RowsLeft(o)
    BY <1>2 DEF ReadForCompletion, WritePaid, PublishProcessed, RowsLeft, SameRows, TypeOK
  <2> QED
    BY <2>1, <2>2
<1> QED
  BY <1>1, <1>2 DEF ProcessOrder

\* The balance's handler leaves the rows and logs of the other orders alone.
LEMMA PaymentLeaves ==
  ASSUME TypeOK, NEW o \in Orders, ProcessPayment(o)
  PROVE  FlowOf(DeductGroup, o) /\ RowsLeft(o)
<1>0. DeductGroup \in Groups /\ DeductGroup = "user-order-payment"
  BY GroupsAre DEF DeductGroup
<1>1. FlowOf(DeductGroup, o)
  BY <1>0 DEF ProcessPayment, DeductBalance, PaymentSucceeded, PaymentFailed, Continue, FlowOf
<1>2. RowsLeft(o)
  BY DEF ProcessPayment, DeductBalance, PaymentSucceeded, PaymentFailed, RowsLeft, SameRows,
         TypeOK
<1> QED
  BY <1>1, <1>2

\* Compensations and sinks leave the rows of the other orders alone.
LEMMA CompensateLeaves ==
  ASSUME TypeOK, NEW o \in Orders, Compensate(o) \/ Finish(o)
  PROVE  \E g \in Groups : FlowOf(g, o) /\ RowsLeft(o)
<1>1. ASSUME NEW g \in OrderFailGroups,
             ReadForCancel(g, o) \/ WriteCancel(g, o) \/ CancelFails(g, o)
      PROVE  FlowOf(g, o) /\ RowsLeft(o)
  <2>1. g \in Groups
    BY GroupsAre
  <2>2. FlowOf(g, o)
    BY <1>1, <2>1 DEF ReadForCancel, WriteCancel, CancelFails, AfterCancel, FlowOf
  <2>3. RowsLeft(o)
    BY <1>1 DEF ReadForCancel, WriteCancel, CancelFails, RowsLeft, SameRows, TypeOK
  <2> QED
    BY <2>2, <2>3
<1>2. ASSUME NEW g \in ProductFailGroups, RestoreItem(g, o) \/ StockRestored(g, o)
      PROVE  FlowOf(g, o) /\ RowsLeft(o)
  <2>1. g \in Groups
    BY DEF Groups
  <2>2. FlowOf(g, o)
    BY <1>2, <2>1 DEF RestoreItem, StockRestored, ItemDone, FlowOf
  <2>3. RowsLeft(o)
    BY <1>2 DEF RestoreItem, StockRestored, RowsLeft, SameRows
  <2> QED
    BY <2>2, <2>3
<1>3. ASSUME NEW g \in CouponFailGroups,
             SkipRelease(g, o) \/ ReleaseCheck(g, o) \/ ReleaseUse(g, o)
               \/ DeleteUserCoupon(g, o)
      PROVE  FlowOf(g, o) /\ RowsLeft(o)
  <2>1. g \in Groups
    BY DEF Groups
  <2>2. FlowOf(g, o)
    BY <1>3, <2>1
    DEF SkipRelease, ReleaseCheck, ReleaseUse, DeleteUserCoupon, Continue, FlowOf
  <2>3. RowsLeft(o)
    BY <1>3 DEF SkipRelease, ReleaseCheck, ReleaseUse, DeleteUserCoupon, RowsLeft, SameRows
  <2> QED
    BY <2>2, <2>3
<1>4. CASE Finish(o)
  <2>1. /\ ExportGroup \in Groups /\ ExportGroup = "external-platform-redis-group"
        /\ RankGroup \in Groups /\ RankGroup = "product-order-processed"
    BY GroupsAre DEF ExportGroup, RankGroup
  <2>2. FlowOf(ExportGroup, o) \/ FlowOf(RankGroup, o)
    BY <1>4, <2>1 DEF Finish, ExportOrder, RecordSales, FlowOf
  <2>3. RowsLeft(o)
    BY <1>4 DEF Finish, ExportOrder, RecordSales, RowsLeft, SameRows, TypeOK
  <2> QED
    BY <2>1, <2>2, <2>3
<1>5. ProductFailGroups \subseteq Groups /\ CouponFailGroups \subseteq Groups
  BY DEF Groups
<1> QED
  BY <1>1, <1>2, <1>3, <1>4, <1>5, GroupsAre DEF Compensate

\* A lapse of the state, an exception and a redelivery concern one order.
LEMMA FailureLeaves ==
  ASSUME TypeOK, NEW o \in Orders,
         Expire(o) \/ \E g \in Groups : Swallow(g, o) \/ Crash(g, o)
  PROVE  \E g \in Workers : FlowOf(g, o) /\ RowsLeft(o)
<1>1. ASSUME NEW g \in Groups, Swallow(g, o) \/ Crash(g, o)
      PROVE  FlowOf(g, o) /\ RowsLeft(o)
  BY <1>1 DEF Swallow, Crash, FlowOf, RowsLeft, SameRows
<1>2. CASE Expire(o)
  <2>1. FlowOf("client", o) /\ RowsLeft(o)
    BY <1>2 DEF Expire, FlowOf, RowsLeft, SameRows
  <2> QED
    BY <2>1, GroupsAre
<1> QED
  BY <1>1, <1>2, GroupsAre

\* What a step of the order o may be
Step(o) ==
  \/ Request(o) \/ Aggregate(o) \/ ProcessStock(o) \/ ProcessCoupon(o)
  \/ ProcessOrder(o) \/ ProcessPayment(o) \/ Compensate(o) \/ Finish(o)
  \/ \E g \in Groups : Swallow(g, o) \/ Crash(g, o)
  \/ Expire(o)

\* Every step of an order leaves the other orders alone.
LEMMA StepLeaves ==
  ASSUME TypeOK, NEW o \in Orders, Step(o)
  PROVE  Leaves(o)
<1>1. \E g \in Workers : FlowOf(g, o) /\ RowsLeft(o)
  BY GroupsAre, RequestLeaves, AggregateLeaves, StockLeaves, CouponLeaves, OrderLeaves,
     PaymentLeaves, CompensateLeaves, FailureLeaves
  DEF Step, Groups
<1> QED
  BY <1>1, FlowLeaves DEF Leaves, RowsLeft
-----------------------------------------------------------------------------
(***************************************************************************)
(* What a step does to its own order when no message comes twice.          *)
(***************************************************************************)
TaskOf(w, o, t) ==
  task'[w][o] = t /\ \A v \in Workers \ {w} : task'[v][o] = task[v][o]

QueuesStay(o) == \A h \in Groups : queue'[h][o] = queue[h][o]

Took(g, o) ==
  /\ queue'[g][o] = Tail(queue[g][o])
  /\ \A h \in Groups \ {g} : queue'[h][o] = queue[h][o]

Sent(o, topic, m) ==
  \A h \in Groups : queue'[h][o] = IF h \in Subscribers(topic)
                                   THEN Append(queue[h][o], m) ELSE queue[h][o]

Answered(g, o, topic, m) ==
  /\ queue'[g][o] = Tail(queue[g][o])
  /\ \A h \in Groups \ {g} : queue'[h][o] = IF h \in Subscribers(topic)
                                            THEN Append(queue[h][o], m) ELSE queue[h][o]

\* A worker that goes on changes the order's tasks in its own place only.
LEMMA GotoTask ==
  ASSUME TypeOK, NEW w \in Workers, NEW o \in Orders, NEW t, Goto(w, o, t)
  PROVE  TaskOf(w, o, t)
  BY GotoEffect DEF TaskOf

\* A published message is appended for every subscriber, and for no other.
LEMMA PublishedIs ==
  ASSUME TypeOK, NEW o \in Orders, NEW topic, NEW m, NEW h \in Groups
  PROVE  Published(topic, o, m)[h][o] = IF h \in Subscribers(topic)
                                        THEN Append(queue[h][o], m) ELSE queue[h][o]
<1>1. queue[h] \in [Orders -> Seq(Message)]
  BY DEF TypeOK
<1> QED
  BY <1>1 DEF Published

\* A handler of a first payment that returns has taken its message for good.
LEMMA FirstReturn ==
  ASSUME TypeOK, NEW o \in Orders, NEW g \in Groups, Return(g, o, queue), First(o)'
  PROVE  Took(g, o) /\ TaskOf(g, o, Idle)
<1>1. TaskOf(g, o, Idle)
  BY GotoTask, GroupsAre DEF Return
<1>2. queue' = [queue EXCEPT ![g][o] = Tail(@)]
  BY DEF Return, First, TypeOK
<1>3. queue \in [Groups -> [Orders -> Seq(Message)]]
  BY DEF TypeOK
<1>4. Took(g, o)
  BY <1>2, <1>3 DEF Took
<1> QED
  BY <1>1, <1>4

\* The same for a handler that returns with a message published.
LEMMA FirstAnswer ==
  ASSUME TypeOK, NEW o \in Orders, NEW g \in Groups, NEW topic, NEW m,
         g \notin Subscribers(topic), Return(g, o, Published(topic, o, m)), First(o)'
  PROVE  Answered(g, o, topic, m) /\ TaskOf(g, o, Idle)
<1>1. TaskOf(g, o, Idle)
  BY GotoTask, GroupsAre DEF Return
<1>2. queue' = [Published(topic, o, m) EXCEPT ![g][o] = Tail(@)]
  BY DEF Return, First, TypeOK
<1> DEFINE q == Published(topic, o, m)
<1>3. q = [h \in Groups |-> q[h]] /\ \A h \in Groups : q[h] = [x \in Orders |-> q[h][x]]
  BY QueueIs
<1>4. \A h \in Groups : q[h][o] = IF h \in Subscribers(topic)
                                  THEN Append(queue[h][o], m) ELSE queue[h][o]
  BY PublishedIs
<1> HIDE DEF q
<1>5. queue' = [q EXCEPT ![g][o] = Tail(@)]
  BY <1>2 DEF q
<1>6. queue'[g][o] = Tail(q[g][o]) /\ \A h \in Groups \ {g} : queue'[h][o] = q[h][o]
  BY <1>3, <1>5
<1>7. Answered(g, o, topic, m)
  BY <1>4, <1>6 DEF Answered
<1> QED
  BY <1>1, <1>7

\* A message sent by the request is appended for every subscriber.
LEMMA FirstSend ==
  ASSUME TypeOK, NEW o \in Orders, NEW topic, NEW m, queue' = Published(topic, o, m)
  PROVE  Sent(o, topic, m)
  BY PublishedIs DEF Sent

\* The elements of a sequence after a message was taken or appended
LEMMA SequencesAre ==
  ASSUME NEW s \in Seq(Message)
  PROVE  /\ {s[i] : i \in 1..Len(s)} \subseteq Message
         /\ s # <<>> =>
              /\ Head(s) \in {s[i] : i \in 1..Len(s)}
              /\ Tail(s) \in Seq(Message) /\ Len(Tail(s)) = Len(s) - 1
              /\ {Tail(s)[i] : i \in 1..Len(Tail(s))} \subseteq {s[i] : i \in 1..Len(s)}
         /\ \A m \in Message :
              /\ Append(s, m) \in Seq(Message) /\ Len(Append(s, m)) = Len(s) + 1
              /\ Append(s, m) # <<>>
              /\ {Append(s, m)[i] : i \in 1..Len(Append(s, m))}
                   = {s[i] : i \in 1..Len(s)} \cup {m}
         /\ Len(s) \in Nat /\ (s = <<>> <=> Len(s) = 0)
<1>1. Len(s) \in Nat /\ (s = <<>> <=> Len(s) = 0)
  OBVIOUS
<1>2. {s[i] : i \in 1..Len(s)} \subseteq Message
  OBVIOUS
<1>3. ASSUME s # <<>>
      PROVE  /\ Head(s) \in {s[i] : i \in 1..Len(s)}
             /\ Tail(s) \in Seq(Message) /\ Len(Tail(s)) = Len(s) - 1
             /\ {Tail(s)[i] : i \in 1..Len(Tail(s))} \subseteq {s[i] : i \in 1..Len(s)}
  <2>1. Len(s) > 0
    BY <1>1, <1>3
  <2>2. Head(s) = s[1] /\ 1 \in 1..Len(s)
    BY <1>1, <2>1
  <2>3. Tail(s) \in Seq(Message) /\ Len(Tail(s)) = Len(s) - 1
    BY <1>3, HeadTailProperties
  <2>4. \A i \in 1..Len(Tail(s)) : Tail(s)[i] = s[i + 1] /\ i + 1 \in 1..Len(s)
    <3>1. \A i \in 1..Len(Tail(s)) : Tail(s)[i] = s[i + 1]
      BY <1>3, HeadTailProperties
    <3> QED
      BY <1>1, <2>3, <3>1
  <2> QED
    BY <2>2, <2>3, <2>4
<1>4. ASSUME NEW m \in Message
      PROVE  /\ Append(s, m) \in Seq(Message) /\ Len(Append(s, m)) = Len(s) + 1
             /\ Append(s, m) # <<>>
             /\ {Append(s, m)[i] : i \in 1..Len(Append(s, m))}
                   = {s[i] : i \in 1..Len(s)} \cup {m}
  <2> DEFINE r == Append(s, m)
  <2>1. r \in Seq(Message) /\ Len(r) = Len(s) + 1
    OBVIOUS
  <2>2. (\A i \in 1..Len(s) : r[i] = s[i]) /\ r[Len(s) + 1] = m
    BY <1>1
  <2>3. \A n : n \in {r[i] : i \in 1..Len(r)} <=> n \in {s[i] : i \in 1..Len(s)} \cup {m}
    <3> HIDE DEF r
    <3>1. \A i : i \in 1..Len(r) <=> i \in 1..Len(s) \/ i = Len(s) + 1
      BY <1>1, <2>1
    <3>2. Len(s) + 1 \in 1..Len(r)
      BY <1>1, <2>1
    <3> QED
      BY <2>2, <3>1, <3>2
  <2>4. r # <<>>
    BY <1>1, <2>1
  <2> HIDE DEF r
  <2>5. {r[i] : i \in 1..Len(r)} = {s[i] : i \in 1..Len(s)} \cup {m}
    BY <2>3
  <2> QED
    BY <2>1, <2>4, <2>5 DEF r
<1> QED
  BY <1>1, <1>2, <1>3, <1>4

\* A queue holds messages; the one received is among them.
LEMMA MessagesAre ==
  ASSUME TypeOK, NEW g \in Groups, NEW o \in Orders
  PROVE  /\ queue[g][o] \in Seq(Message) /\ Messages(g, o) \subseteq Message
         /\ queue[g][o] # <<>> => Received(g, o) \in Messages(g, o)
         /\ Len(queue[g][o]) \in Nat /\ (queue[g][o] = <<>> <=> Len(queue[g][o]) = 0)
         /\ Len(queue[g][o]) = Waiting(g, o)
<1>1. queue[g][o] \in Seq(Message)
  BY DEF TypeOK
<1> QED
  BY <1>1, SequencesAre DEF Messages, Received, Waiting

\* A message taken leaves the others, one fewer.
LEMMA MessagesTook ==
  ASSUME TypeOK, NEW g \in Groups, NEW o \in Orders, queue[g][o] # <<>>,
         queue'[g][o] = Tail(queue[g][o])
  PROVE  /\ Messages(g, o)' \subseteq Messages(g, o)
         /\ Len(queue'[g][o]) = Len(queue[g][o]) - 1
<1> DEFINE s == queue[g][o]
<1>1. s \in Seq(Message) /\ s # <<>>
  BY DEF TypeOK
<1>2. Messages(g, o)' = {Tail(s)[i] : i \in 1..Len(Tail(s))} /\ queue'[g][o] = Tail(s)
  BY DEF Messages
<1>3. Messages(g, o) = {s[i] : i \in 1..Len(s)}
  BY DEF Messages
<1> HIDE DEF s
<1>4. /\ Len(Tail(s)) = Len(s) - 1
      /\ {Tail(s)[i] : i \in 1..Len(Tail(s))} \subseteq {s[i] : i \in 1..Len(s)}
  BY <1>1, SequencesAre
<1> QED
  BY <1>2, <1>3, <1>4 DEF s

\* A message appended is added to the others, one more.
LEMMA MessagesSent ==
  ASSUME TypeOK, NEW g \in Groups, NEW o \in Orders, NEW m \in Message,
         queue'[g][o] = Append(queue[g][o], m)
  PROVE  /\ Messages(g, o)' = Messages(g, o) \cup {m}
         /\ Len(queue'[g][o]) = Len(queue[g][o]) + 1 /\ queue'[g][o] # <<>>
<1> DEFINE s == queue[g][o]
           r == Append(s, m)
<1>1. s \in Seq(Message)
  BY DEF TypeOK
<1>2. Messages(g, o)' = {r[i] : i \in 1..Len(r)} /\ queue'[g][o] = r
  BY DEF Messages
<1>3. Messages(g, o) = {s[i] : i \in 1..Len(s)}
  BY DEF Messages
<1> HIDE DEF s
<1>4. r # <<>> /\ Len(r) = Len(s) + 1 /\ {r[i] : i \in 1..Len(r)} = {s[i] : i \in 1..Len(s)} \cup {m}
  BY <1>1, SequencesAre
<1> HIDE DEF r
<1>5. r = Append(s, m)
  BY DEF r
<1> QED
  BY <1>2, <1>3, <1>4, <1>5 DEF s
-----------------------------------------------------------------------------
(***************************************************************************)
(* What another order's step leaves as it is.                              *)
(***************************************************************************)
LEMMA SameTokens ==
  ASSUME NEW x \in Orders, SameFlow(x), SameRows(x)
  PROVE  Tokens(x)' = Tokens(x)
<1>1. /\ \A g \in QueueGroups : queue'[g][x] = queue[g][x]
      /\ \A g \in BusyGroups : task'[g][x] = task[g][x]
      /\ task'["client"][x] = task["client"][x]
      /\ task'["order-order-processing-coupon-success"][x] = task["order-order-processing-coupon-success"][x]
  BY GroupsAre DEF SameFlow, QueueGroups, BusyGroups, Groups, MarkGroups, Workers
<1>2. \A g \in QueueGroups : Waiting(g, x)' = Waiting(g, x)
  BY <1>1 DEF Waiting
<1>3. \A g \in BusyGroups : HandlerTokens(g, x)' = HandlerTokens(g, x)
  BY <1>1, <1>2 DEF HandlerTokens, QueueGroups
<1>4. /\ RequestToken(x)' = RequestToken(x) /\ CouponToken(x)' = CouponToken(x)
      /\ StoreToken(x)' = StoreToken(x) /\ Deductions(x)' = Deductions(x)
  BY <1>1 DEF RequestToken, CouponToken, StoreToken, Deductions, SameRows
<1> QED
  BY <1>2, <1>3, <1>4 DEF Tokens, Asked, Joined, Charged, QueueGroups, BusyGroups

\* An order that a step leaves alone stays a first payment gone right.
LEMMA SameKeeps ==
  ASSUME NEW x \in Orders, SameFlow(x), SameRows(x), FirstPayment(x)
  PROVE  FirstPayment(x)'
<1>1. /\ \A g \in Groups : queue'[g][x] = queue[g][x] /\ task'[g][x] = task[g][x]
      /\ task'["client"][x] = task["client"][x]
  BY GroupsAre DEF SameFlow
<1>2. \A g \in Groups : Messages(g, x)' = Messages(g, x)
  BY <1>1 DEF Messages
<1>3. Tokens(x)' = Tokens(x)
  BY SameTokens
<1>4. CouponOut(x)' <=> CouponOut(x)
  BY <1>1, GroupsAre DEF CouponOut, JoinedUp, SameRows
<1>5. \A c : /\ CouponLost(x, c)' <=> CouponLost(x, c)
             /\ Dead(x, c)' <=> Dead(x, c)
  BY <1>1, <1>3, <1>4, GroupsAre DEF CouponLost, Dead
<1>6. Busy(x)' /\ (Untouched(x)' => Fresh(x)')
  BY <1>1 DEF FirstPayment, Busy, Untouched, Fresh, SameRows
<1>7. PICK c \in MaybeCoupon : Payment(x, c)
  BY DEF FirstPayment
<1>8. OneCoupon(x, c)'
  BY <1>2, <1>7 DEF Payment, OneCoupon, SameRows
<1>9. CouponHalf(x, c)'
  BY <1>1, <1>4, <1>7, GroupsAre DEF Payment, CouponHalf
<1>10. Failures(x, c)'
  BY <1>1, <1>2, <1>3, <1>5, <1>7, GroupsAre DEF Payment, Failures
<1>11. Statuses(x, c)'
  BY <1>1, <1>5, <1>7, GroupsAre DEF Payment, Statuses, SameRows
<1>12. Amounts(x, c)'
  BY <1>1, <1>2, <1>7, GroupsAre DEF Payment, Amounts, SameRows
<1>13. Completion(x)' /\ Exports(x)'
  BY <1>1, GroupsAre DEF FirstPayment, Completion, Exports, Told, SameRows
<1> QED
  BY <1>6, <1>7, <1>8, <1>9, <1>10, <1>11, <1>12, <1>13 DEF FirstPayment, Payment
-----------------------------------------------------------------------------
(***************************************************************************)
(* A step of a consumer of the order itself.                               *)
(***************************************************************************)
\* What is known of a step of a first payment
Given(o) ==
  /\ TypeOK /\ TypeOK' /\ TokensBounded /\ TokensBounded' /\ NoTokenMade(o)
  /\ logs[o] = <<>> => Unpaid(o)
  /\ First(o) /\ First(o)' /\ FirstPayment(o)

\* What a step of a consumer leaves alone
Consumes(g, o) ==
  /\ g \in Groups /\ queue[g][o] # <<>>
  /\ attempts'[o] = attempts[o] /\ task'["client"][o] = task["client"][o]

TokensCount == \A x \in Orders : Tokens(x) \in Nat

\* Bounded tokens are counts.
LEMMA TokensDoCount == TypeOK /\ TokensBounded => TokensCount
  BY PlacesAre DEF TokensBounded, TokensCount

\* The same after a step
LEMMA TokensCountNext == TypeOK' /\ TokensBounded' => TokensCount'
  BY TokensDoCount, PTL

\* A first payment has one token at most, and its parts are counts.
LEMMA Counts ==
  ASSUME NEW o \in Orders, Given(o), attempts'[o] = attempts[o]
  PROVE  /\ Tokens(o) \in 0..1 /\ Tokens(o)' \in 0..1 /\ Tokens(o)' <= Tokens(o)
         /\ redeliveries = 0 /\ redeliveries' = 0
         /\ Waiting("product-order-processing", o) \in Nat
         /\ \A g \in BusyGroups : HandlerTokens(g, o) \in Nat
         /\ RequestToken(o) \in Nat /\ StoreToken(o) \in Nat /\ CouponToken(o) \in Nat
         /\ Deductions(o) \in Nat
<1>1. TypeOK /\ TypeOK' /\ TokenBound(o) /\ TokensBounded /\ TokensBounded'
  BY DEF Given, TokensBounded
<1>2. Tokens(o) \in Nat
  BY <1>1, TokensDoCount DEF TokensCount
<1>3. Tokens(o)' \in Nat
  BY <1>1, TokensCountNext DEF TokensCount
<1>4. redeliveries = 0 /\ redeliveries' = 0 /\ attempts[o] \in Nat /\ attempts[o] <= 1
  <2>1. redeliveries \in Nat /\ attempts \in [Orders -> Nat]
    BY <1>1 DEF TypeOK
  <2> QED
    BY <2>1 DEF Given, First
<1>5. Tokens(o) <= 1
  BY <1>1, <1>2, <1>4 DEF TokenBound
<1>6. Tokens(o)' <= Tokens(o)
  BY <1>2, <1>3, <1>4 DEF Given, NoTokenMade
<1> QED
  BY <1>1, <1>2, <1>3, <1>4, <1>5, <1>6, PlacesAre

\* A message of the order is out: its request was accepted and is over.
LEMMA Works ==
  ASSUME NEW o \in Orders, Given(o), NEW g, Consumes(g, o)
  PROVE  ~Untouched(o) /\ ~Untouched(o)' /\ task["client"][o].pc = "idle"
<1>1. ~Untouched(o)
  BY DEF Given, FirstPayment, Consumes, Fresh
<1> QED
  BY <1>1 DEF Untouched, Consumes

\* The queue h got no new message of o.
Shrinks(h, o) ==
  \/ queue'[h][o] = queue[h][o]
  \/ queue[h][o] # <<>> /\ queue'[h][o] = Tail(queue[h][o])

Carries(m, c) == m.coupon = c /\ m.applied \in {NoCoupon, c}

\* It may have got one of the payment's.
Grows(h, o, c) ==
  \E m \in Message : Carries(m, c) /\ queue'[h][o] = Append(queue[h][o], m)

\* A queue that shrank holds none but messages it held.
LEMMA ShrinksMessages ==
  ASSUME TypeOK, NEW o \in Orders, NEW h \in Groups, Shrinks(h, o)
  PROVE  /\ Messages(h, o)' \subseteq Messages(h, o)
         /\ queue'[h][o] # <<>> => queue[h][o] # <<>>
         /\ Len(queue'[h][o]) <= Len(queue[h][o])
<1>1. Len(queue[h][o]) \in Nat
  BY MessagesAre
<1>2. CASE queue'[h][o] = queue[h][o]
  BY <1>1, <1>2 DEF Messages
<1>3. CASE queue[h][o] # <<>> /\ queue'[h][o] = Tail(queue[h][o])
  BY <1>1, <1>3, MessagesTook
<1> QED
  BY <1>2, <1>3 DEF Shrinks

\* The payment keeps its one coupon where queues shrink or grow by its messages.
LEMMA OneCouponKept ==
  ASSUME TypeOK, NEW o \in Orders, NEW c \in MaybeCoupon, OneCoupon(o, c),
         \A h \in Groups : Shrinks(h, o) \/ Grows(h, o, c),
         store'[o].inited => store'[o].coupon = c, store'[o].applied \in {NoCoupon, c}
  PROVE  OneCoupon(o, c)'
<1>1. ASSUME NEW h \in Groups, NEW m \in Messages(h, o)'
      PROVE  Carries(m, c)
  <2>1. \A n \in Messages(h, o) : Carries(n, c)
    BY DEF OneCoupon, Carries
  <2>2. CASE Shrinks(h, o)
    BY <1>1, <2>1, <2>2, ShrinksMessages
  <2>3. ASSUME NEW n \in Message, Carries(n, c), queue'[h][o] = Append(queue[h][o], n)
        PROVE  Carries(m, c)
    <3>1. Messages(h, o)' = Messages(h, o) \cup {n}
      BY <2>3, MessagesSent
    <3> QED
      BY <1>1, <2>1, <2>3, <3>1
  <2> QED
    BY <2>2, <2>3 DEF Grows
<1> QED
  BY <1>1 DEF OneCoupon, Carries

\* The failure messages stay explained where none was added.
LEMMA FailuresKept ==
  ASSUME NEW o \in Orders, NEW c \in MaybeCoupon, Failures(o, c), TypeOK,
         \A h \in ProcessingFailGroups \cup PaymentFailGroups : Shrinks(h, o),
         Tokens(o) = 0 => Tokens(o)' = 0, CouponLost(o, c) => CouponLost(o, c)'
  PROVE  Failures(o, c)'
<1>1. \A h \in ProcessingFailGroups : Messages(h, o)' \subseteq Messages(h, o)
  BY ShrinksMessages, GroupsAre
<1>2. \A h \in PaymentFailGroups : queue'[h][o] # <<>> => queue[h][o] # <<>>
  BY ShrinksMessages, GroupsAre
<1> QED
  BY <1>1, <1>2 DEF Failures

\* The row's status stays explained where the row and the request stand still.
LEMMA StatusesKept ==
  ASSUME NEW o \in Orders, NEW c \in MaybeCoupon, Statuses(o, c),
         orders'[o].status = orders[o].status, task'["client"][o] = task["client"][o],
         \A g \in OrderFailGroups :
           task'[g][o].pc = "update" =>
             task'[g][o] = task[g][o] \/ task'[g][o].row.status = "PENDING",
         Dead(o, c) => Dead(o, c)'
  PROVE  Statuses(o, c)'
  BY DEF Statuses

\* The amounts stay equal where the row, the log and their messages stand still.
LEMMA AmountsKept ==
  ASSUME TypeOK, NEW o \in Orders, NEW c \in MaybeCoupon, Amounts(o, c),
         orders'[o] = orders[o], logs'[o] = logs[o],
         \/ task'[DiscountGroup][o] = task[DiscountGroup][o]
         \/ task'[DiscountGroup][o].pc \notin {"update", "publish"},
         task'[DeductGroup][o] = task[DeductGroup][o], Shrinks(DeductGroup, o)
  PROVE  Amounts(o, c)'
<1>1. Messages(DeductGroup, o)' \subseteq Messages(DeductGroup, o)
  BY ShrinksMessages, GroupsAre
<1> QED
  BY <1>1 DEF Amounts

\* The completion stays explained where its row, log and messages stand still.
LEMMA CompletionKept ==
  ASSUME NEW o \in Orders, Completion(o),
         orders'[o] = orders[o], logs'[o] = logs[o],
         task'[DeductGroup][o] = task[DeductGroup][o],
         task'[CompleteGroup][o] = task[CompleteGroup][o],
         queue'[CompleteGroup][o] = queue[CompleteGroup][o]
  PROVE  Completion(o)'
  BY DEF Completion

\* Exports stay matched where the status and the sinks stand still.
LEMMA ExportsKept ==
  ASSUME NEW o \in Orders, Exports(o),
         orders'[o].status = orders[o].status, exported'[o] = exported[o], sales'[o] = sales[o],
         task'[CompleteGroup][o] = task[CompleteGroup][o],
         queue'[ExportGroup][o] = queue[ExportGroup][o],
         queue'[RankGroup][o] = queue[RankGroup][o]
  PROVE  Exports(o)'
  BY DEF Exports, Told
-----------------------------------------------------------------------------
(***************************************************************************)
(* Steps beside the order's row and its money.                             *)
(***************************************************************************)
Aside(g, o, c) ==
  /\ g \notin {DeductGroup, CompleteGroup, ExportGroup, RankGroup}
  /\ \E t : /\ TaskOf(g, o, t)
            /\ t.pc # "idle" => queue'[g][o] # <<>>
            /\ g \in OrderFailGroups /\ t.pc = "update" => t.row.status = "PENDING"
            /\ g = DiscountGroup => t.pc \notin {"update", "publish"}
  /\ Shrinks(g, o)
  /\ \A h \in Groups \ {g} :
       \/ queue'[h][o] = queue[h][o]
       \/ /\ h \in {StockGroup, CouponGroup, DiscountGroup} \cup ProcessingFailGroups
          /\ Grows(h, o, c)
  /\ orders'[o] = orders[o] /\ logs'[o] = logs[o]
  /\ exported'[o] = exported[o] /\ sales'[o] = sales[o]
  /\ store'[o].inited => store'[o].coupon = c
  /\ store'[o].applied \in {NoCoupon, c}

\* A handler at work keeps the message it works on.
LEMMA BusyStays ==
  ASSUME TypeOK, NEW o \in Orders, Busy(o), NEW g \in Groups, NEW t, TaskOf(g, o, t),
         t.pc # "idle" => queue'[g][o] # <<>>,
         \A h \in Groups \ {g} :
           queue'[h][o] = queue[h][o] \/ \E m \in Message : queue'[h][o] = Append(queue[h][o], m)
  PROVE  Busy(o)'
<1>1. ASSUME NEW h \in Groups \ {g}, task'[h][o].pc # "idle"
      PROVE  queue'[h][o] # <<>>
  <2>1. task'[h][o] = task[h][o]
    BY GroupsAre DEF TaskOf
  <2>2. queue[h][o] # <<>>
    BY <1>1, <2>1 DEF Busy
  <2>3. ASSUME NEW m \in Message, queue'[h][o] = Append(queue[h][o], m)
        PROVE  queue'[h][o] # <<>>
    BY <2>3, MessagesSent
  <2> QED
    BY <2>2, <2>3
<1> QED
  BY <1>1 DEF Busy, TaskOf

\* A step aside keeps the first payment if it keeps the coupon's half and failures.
LEMMA AsideKeeps ==
  ASSUME NEW o \in Orders, Given(o), NEW c \in MaybeCoupon, Payment(o, c),
         NEW g, Consumes(g, o), Aside(g, o, c),
         CouponHalf(o, c)', Failures(o, c)', CouponLost(o, c) => CouponLost(o, c)'
  PROVE  FirstPayment(o)'
<1>1. TypeOK /\ Busy(o) /\ g \in Groups
  BY DEF Given, FirstPayment, Consumes
<1>2. PICK t : /\ TaskOf(g, o, t)
               /\ t.pc # "idle" => queue'[g][o] # <<>>
               /\ g \in OrderFailGroups /\ t.pc = "update" => t.row.status = "PENDING"
               /\ g = DiscountGroup => t.pc \notin {"update", "publish"}
  BY DEF Aside
<1>3. \A h \in Groups : Shrinks(h, o) \/ Grows(h, o, c)
  BY DEF Aside, Shrinks
<1>4. Busy(o)'
  BY <1>1, <1>2, BusyStays DEF Aside, Grows
<1>5. OneCoupon(o, c)'
  BY <1>1, <1>3, OneCouponKept DEF Aside, Payment
<1>6. Dead(o, c) => Dead(o, c)'
  BY Counts DEF Dead, Consumes
<1>7. /\ \A h \in Groups \ {g} : task'[h][o] = task[h][o]
      /\ task'[g][o] = t /\ task'["client"][o] = task["client"][o]
  BY <1>2, GroupsAre DEF TaskOf, Consumes
<1>8. Statuses(o, c)'
  BY <1>2, <1>6, <1>7, GroupsAre, StatusesKept DEF Aside, Payment
<1>9. /\ {DeductGroup, CompleteGroup, ExportGroup, RankGroup}
           \cap ({StockGroup, CouponGroup, DiscountGroup} \cup ProcessingFailGroups) = {}
      /\ {DeductGroup, CompleteGroup, ExportGroup, RankGroup} \subseteq Groups
  BY GroupsAre
  DEF DeductGroup, CompleteGroup, ExportGroup, RankGroup, StockGroup, CouponGroup,
      DiscountGroup, ProcessingFailGroups
<1>10. \A h \in {DeductGroup, CompleteGroup, ExportGroup, RankGroup} :
         queue'[h][o] = queue[h][o] /\ task'[h][o] = task[h][o]
  BY <1>7, <1>9 DEF Aside
<1>11. Amounts(o, c)'
  BY <1>1, <1>2, <1>7, <1>10, GroupsAre, AmountsKept DEF Aside, Payment, Shrinks
<1>12. Completion(o)' /\ Exports(o)'
  BY <1>10, CompletionKept, ExportsKept DEF Aside, Given, FirstPayment
<1>13. ~Untouched(o)'
  BY Works
<1> QED
  BY <1>4, <1>5, <1>8, <1>11, <1>12, <1>13 DEF FirstPayment, Payment

\* No topic of the two halves reaches the groups of the other topics.
LEMMA Targets ==
  /\ {UseGroup, DeductGroup} \cap ({StockGroup, CouponGroup, DiscountGroup} \cup ProcessingFailGroups) = {}
  /\ PaymentFailGroups \cap ({StockGroup, CouponGroup, DiscountGroup} \cup ProcessingFailGroups) = {}
  /\ ProcessingFailGroups \cap {StockGroup, CouponGroup, DiscountGroup, UseGroup} = {}
  /\ OrderFailGroups \cap {StockGroup, CouponGroup, DiscountGroup, UseGroup} = {}
  BY DEF UseGroup, DeductGroup, StockGroup, CouponGroup, DiscountGroup, ProcessingFailGroups,
         PaymentFailGroups, OrderFailGroups

\* A coupon's half that is out stays out where nothing completes it.
LEMMA CouponOutKept ==
  ASSUME TypeOK, NEW o \in Orders, CouponOut(o), logs'[o] = logs[o],
         \A h \in {CouponGroup, DiscountGroup, DeductGroup} : Shrinks(h, o),
         ~store'[o].couponOk,
         \A h \in {StockGroup, CouponGroup} : task'[h][o].pc = "get" => task[h][o].pc = "get"
  PROVE  CouponOut(o)'
<1>1. \A h \in {CouponGroup, DiscountGroup, DeductGroup} : queue'[h][o] # <<>> => queue[h][o] # <<>>
  BY ShrinksMessages, GroupsAre
<1> QED
  BY <1>1 DEF CouponOut, JoinedUp

\* The coupon's half stays as it is under a step aside that does not answer it.
LEMMA CouponHalfKept ==
  ASSUME TypeOK, NEW o \in Orders, NEW c \in MaybeCoupon, CouponHalf(o, c),
         NEW g \in Groups, Aside(g, o, c),
         c # NoCoupon /\ CouponOut(o) => CouponOut(o)',
         c = NoCoupon => queue'[CouponGroup][o] = <<>> /\ task'[UseGroup][o].pc = "idle"
  PROVE  /\ CouponHalf(o, c)'
         /\ CouponLost(o, c) => CouponLost(o, c)'
<1>1. Shrinks(UseGroup, o)
  BY Targets, GroupsAre DEF Aside, Shrinks
<1>2. /\ queue'[UseGroup][o] # <<>> => queue[UseGroup][o] # <<>>
      /\ Len(queue'[UseGroup][o]) <= Len(queue[UseGroup][o])
      /\ Len(queue[UseGroup][o]) \in Nat
  BY <1>1, ShrinksMessages, MessagesAre, GroupsAre
<1>3. Len(queue'[UseGroup][o]) <= 1
  <2>1. Len(queue[UseGroup][o]) <= 1
    BY DEF CouponHalf
  <2>2. queue'[UseGroup][o] \in {queue[UseGroup][o], Tail(queue[UseGroup][o])}
    BY <1>1 DEF Shrinks
  <2>3. CASE queue'[UseGroup][o] = queue[UseGroup][o]
    BY <2>1, <2>3
  <2>4. CASE queue[UseGroup][o] # <<>> /\ queue'[UseGroup][o] = Tail(queue[UseGroup][o])
    <3>1. Len(queue'[UseGroup][o]) = Len(queue[UseGroup][o]) - 1
      BY <2>4, MessagesTook, GroupsAre
    <3> QED
      BY <1>2, <2>1, <3>1
  <2> QED
    BY <1>1, <2>3, <2>4 DEF Shrinks
<1> QED
  BY <1>2, <1>3 DEF CouponHalf, CouponLost

\* Nothing but the coupon's success says that the coupon's half has come.
StoreStep(o, c) ==
  /\ store'[o].inited => store'[o].coupon = c
  /\ store'[o].applied \in {NoCoupon, c}
  /\ c # NoCoupon /\ CouponOut(o) => ~store'[o].couponOk

RowsStay(o) ==
  /\ orders'[o] = orders[o] /\ logs'[o] = logs[o]
  /\ exported'[o] = exported[o] /\ sales'[o] = sales[o]

\* The coordinator's state that does not change steps as it should.
LEMMA StoreStays ==
  ASSUME NEW o \in Orders, NEW c \in MaybeCoupon, Payment(o, c), store'[o] = store[o]
  PROVE  StoreStep(o, c)
  BY DEF StoreStep, Payment, OneCoupon, CouponOut

\* A step without a new message
LEMMA QuietKeeps ==
  ASSUME NEW o \in Orders, Given(o), NEW c \in MaybeCoupon, Payment(o, c),
         NEW g, Consumes(g, o), g \notin {DeductGroup, CompleteGroup, ExportGroup, RankGroup},
         NEW t, TaskOf(g, o, t), t.pc # "idle" => queue'[g][o] # <<>>,
         g \in OrderFailGroups /\ t.pc = "update" => t.row.status = "PENDING",
         g = DiscountGroup => t.pc \notin {"update", "publish"},
         g = UseGroup /\ t.pc # "idle" => c # NoCoupon,
         g \in {StockGroup, CouponGroup} /\ t.pc = "get" => c = NoCoupon \/ ~CouponOut(o),
         Shrinks(g, o), \A h \in Groups \ {g} : queue'[h][o] = queue[h][o],
         RowsStay(o), StoreStep(o, c)
  PROVE  FirstPayment(o)'
<1>1. TypeOK /\ g \in Groups
  BY DEF Given, Consumes
<1>2. Aside(g, o, c)
  BY DEF Aside, RowsStay, StoreStep
<1>3. \A h \in Groups : Shrinks(h, o)
  BY DEF Shrinks
<1>4. c # NoCoupon /\ CouponOut(o) => CouponOut(o)'
  <2> SUFFICES ASSUME c # NoCoupon, CouponOut(o)
               PROVE  CouponOut(o)'
    OBVIOUS
  <2>1. \A h \in {StockGroup, CouponGroup} : task'[h][o].pc = "get" => task[h][o].pc = "get"
    BY GroupsAre DEF TaskOf
  <2> QED
    BY <1>1, <1>3, <2>1, GroupsAre, CouponOutKept DEF StoreStep, RowsStay
<1>5. c = NoCoupon => queue'[CouponGroup][o] = <<>> /\ task'[UseGroup][o].pc = "idle"
  <2>1. queue'[CouponGroup][o] # <<>> => queue[CouponGroup][o] # <<>>
    BY <1>1, <1>3, ShrinksMessages, GroupsAre
  <2> QED
    BY <2>1, GroupsAre DEF Payment, CouponHalf, TaskOf
<1>6. /\ CouponHalf(o, c)'
      /\ CouponLost(o, c) => CouponLost(o, c)'
  BY <1>1, <1>2, <1>4, <1>5, CouponHalfKept DEF Payment
<1>7. Tokens(o) = 0 => Tokens(o)' = 0
  BY Counts DEF Consumes
<1>8. Failures(o, c)'
  BY <1>1, <1>3, <1>6, <1>7, GroupsAre, FailuresKept DEF Payment
<1> QED
  BY <1>2, <1>6, <1>8, AsideKeeps

\* The effect of a handler of a first payment that returns without a message
LEMMA Returns ==
  ASSUME NEW o \in Orders, Given(o), NEW g \in Groups, queue[g][o] # <<>>,
         Return(g, o, queue), attempts' = attempts
  PROVE  /\ Consumes(g, o) /\ TaskOf(g, o, Idle) /\ Took(g, o) /\ Shrinks(g, o)
         /\ \A h \in Groups \ {g} : queue'[h][o] = queue[h][o]
<1>1. Took(g, o) /\ TaskOf(g, o, Idle)
  BY FirstReturn DEF Given
<1> QED
  BY <1>1, GroupsAre DEF Consumes, TaskOf, Took, Shrinks

\* The effect of a handler of a first payment that goes on
LEMMA Goes ==
  ASSUME NEW o \in Orders, Given(o), NEW g \in Groups, queue[g][o] # <<>>, NEW t,
         Goto(g, o, t), queue' = queue, attempts' = attempts
  PROVE  /\ Consumes(g, o) /\ TaskOf(g, o, t) /\ Shrinks(g, o) /\ queue'[g][o] # <<>>
         /\ \A h \in Groups \ {g} : queue'[h][o] = queue[h][o]
<1>1. TaskOf(g, o, t)
  BY GotoTask, GroupsAre DEF Given
<1> QED
  BY <1>1, GroupsAre DEF Consumes, TaskOf, Shrinks

\* A step that goes on without a new message, and one that returns
LEMMA GoesKeeps ==
  ASSUME NEW o \in Orders, Given(o), NEW c \in MaybeCoupon, Payment(o, c),
         NEW g \in Groups, queue[g][o] # <<>>,
         g \notin {DeductGroup, CompleteGroup, ExportGroup, RankGroup},
         NEW t, Goto(g, o, t), queue' = queue, attempts' = attempts,
         g \in OrderFailGroups /\ t.pc = "update" => t.row.status = "PENDING",
         g = DiscountGroup => t.pc \notin {"update", "publish"},
         g = UseGroup /\ t.pc # "idle" => c # NoCoupon,
         g \in {StockGroup, CouponGroup} /\ t.pc = "get" => c = NoCoupon \/ ~CouponOut(o),
         RowsStay(o), StoreStep(o, c)
  PROVE  FirstPayment(o)'
  BY Goes, QuietKeeps

\* A handler that returns without a message keeps the first payment.
LEMMA ReturnsKeep ==
  ASSUME NEW o \in Orders, Given(o), NEW c \in MaybeCoupon, Payment(o, c),
         NEW g \in Groups, queue[g][o] # <<>>,
         g \notin {DeductGroup, CompleteGroup, ExportGroup, RankGroup},
         Return(g, o, queue), attempts' = attempts, RowsStay(o), StoreStep(o, c)
  PROVE  FirstPayment(o)'
<1>1. Idle.pc = "idle"
  BY DEF Idle
<1> QED
  BY <1>1, Returns, QuietKeeps
-----------------------------------------------------------------------------
(***************************************************************************)
(* The aggregation.                                                        *)
(***************************************************************************)
LEMMA ReceivedCarries ==
  ASSUME NEW o \in Orders, Given(o), NEW c \in MaybeCoupon, Payment(o, c),
         NEW g \in Groups, queue[g][o] # <<>>
  PROVE  /\ Received(g, o) \in Message /\ Received(g, o) \in Messages(g, o)
         /\ Carries(Received(g, o), c)
<1>1. TypeOK /\ OneCoupon(o, c)
  BY DEF Given, Payment
<1>2. Received(g, o) \in Messages(g, o) /\ Messages(g, o) \subseteq Message
  BY <1>1, MessagesAre
<1> QED
  BY <1>1, <1>2 DEF OneCoupon, Carries

\* A message made from one that carries the coupon carries it too.
LEMMA MsgCarries ==
  ASSUME NEW m \in Message, NEW c \in MaybeCoupon, Carries(m, c)
  PROVE  /\ m.coupon = c /\ Msg(m.coupon) \in Message /\ Carries(Msg(m.coupon), c)
         /\ \A by \in {"none", "ConfirmStockByOrder", "UseUserCouponByOrder"} :
              LET n == [Msg(m.coupon) EXCEPT !.by = by] IN
              n \in Message /\ Carries(n, c) /\ n.by = by
<1>1. m.coupon = c /\ NoCoupon \in MaybeCoupon
  BY DEF Carries, MaybeCoupon
<1>2. Msg(c) \in Message /\ Carries(Msg(c), c)
  BY <1>1 DEF Msg, Message, Carries
<1>3. ASSUME NEW by \in {"none", "ConfirmStockByOrder", "UseUserCouponByOrder"}
      PROVE  LET n == [Msg(c) EXCEPT !.by = by] IN
             n \in Message /\ Carries(n, c) /\ n.by = by
  <2>1. [Msg(c) EXCEPT !.by = by] = [coupon |-> c, applied |-> NoCoupon, amount |-> 0, by |-> by]
    BY DEF Msg
  <2> QED
    BY <1>1, <2>1 DEF Message, Carries
<1> QED
  BY <1>1, <1>2, <1>3

\* A payment under way has a coupon, or none, from its request.
LEMMA CouponOfPayment ==
  ASSUME NEW o \in Orders, Given(o)
  PROVE  \E c \in MaybeCoupon : Payment(o, c)
  BY DEF Given, FirstPayment

\* order.processing creates the coordinator's state.
LEMMA InitCoordinatorFirst ==
  ASSUME NEW o \in Orders, Given(o), InitCoordinator(o)
  PROVE  FirstPayment(o)'
<1> DEFINE g == "order-order-processing-init"
<1>1. PICK c \in MaybeCoupon : Payment(o, c)
  BY CouponOfPayment
<1>2. /\ g \in Groups /\ g \notin {DeductGroup, CompleteGroup, ExportGroup, RankGroup}
      /\ queue[g][o] # <<>>
  BY DEF InitCoordinator, At, Groups, DeductGroup, CompleteGroup, ExportGroup, RankGroup
<1>3. /\ store' = [store EXCEPT ![o] = InitState(Received(g, o).coupon)]
      /\ Return(g, o, queue) /\ attempts' = attempts /\ RowsStay(o)
  BY DEF InitCoordinator, RowsStay
<1>4. Received(g, o).coupon = c
  BY <1>1, <1>2, ReceivedCarries DEF Carries
<1>5. store'[o] = InitState(c)
  <2>1. store \in [Orders -> CoordinatorState]
    BY DEF Given, TypeOK
  <2> QED
    BY <1>3, <1>4, <2>1
<1>6. StoreStep(o, c)
  <2>1. InitState(c).coupon = c /\ InitState(c).applied = NoCoupon
    BY DEF InitState
  <2>2. InitState(c).couponOk = (c = NoCoupon)
    BY DEF InitState
  <2> QED
    BY <1>5, <2>1, <2>2 DEF StoreStep
<1> QED
  BY <1>1, <1>2, <1>3, <1>6, ReturnsKeep

\* A half is marked in the coordinator's state.
LEMMA MarkOkFirst ==
  ASSUME NEW o \in Orders, Given(o), NEW g \in MarkGroups, MarkOk(g, o)
  PROVE  FirstPayment(o)'
<1>1. PICK c \in MaybeCoupon : Payment(o, c)
  BY CouponOfPayment
<1>2. /\ g \in Groups /\ g \in {StockGroup, CouponGroup}
      /\ g \notin {DeductGroup, CompleteGroup, ExportGroup, RankGroup, DiscountGroup, UseGroup}
      /\ g \notin OrderFailGroups /\ queue[g][o] # <<>>
  BY DEF MarkOk, At, Groups, MarkGroups, DeductGroup, CompleteGroup, ExportGroup, RankGroup,
         StockGroup, CouponGroup, DiscountGroup, UseGroup, OrderFailGroups
<1>3. store[o] \in CoordinatorState /\ store \in [Orders -> CoordinatorState]
  BY DEF Given, TypeOK
<1>4. store'[o] = Emit(Marked(g, o))
  BY <1>3 DEF MarkOk
<1>5. Carries(Received(g, o), c)
  BY <1>1, <1>2, ReceivedCarries
<1>6. /\ g = StockGroup => Marked(g, o) = MarkedStock(store[o])
      /\ g = CouponGroup => Marked(g, o) = MarkedCoupon(store[o], Received(g, o).applied)
  BY DEF Marked, StockGroup, CouponGroup
<1>7. /\ Marked(g, o).inited = store[o].inited /\ Marked(g, o).coupon = store[o].coupon
      /\ Marked(g, o).applied \in {store[o].applied, Received(g, o).applied}
      /\ g = StockGroup => Marked(g, o).couponOk = store[o].couponOk
      /\ Emit(Marked(g, o)).inited = Marked(g, o).inited
      /\ Emit(Marked(g, o)).coupon = Marked(g, o).coupon
      /\ Emit(Marked(g, o)).applied = Marked(g, o).applied
      /\ Emit(Marked(g, o)).couponOk = Marked(g, o).couponOk
  <2>1. CASE g = StockGroup
    BY <1>3, <1>6, <2>1 DEF MarkedStock, Emit, CoordinatorState
  <2>2. CASE g = CouponGroup /\ g # StockGroup
    BY <1>3, <1>6, <2>2 DEF MarkedCoupon, Emit, CoordinatorState
  <2> QED
    BY <1>2, <2>1, <2>2
<1>8. g = CouponGroup => ~CouponOut(o)
  BY <1>2 DEF CouponOut
<1>9. StoreStep(o, c)
  BY <1>1, <1>2, <1>4, <1>5, <1>7, <1>8 DEF StoreStep, Payment, OneCoupon, Carries, CouponOut
<1>10. Ready(Marked(g, o)) => ~CouponOut(o)
  BY <1>2, <1>7, <1>8 DEF Ready, CouponOut
<1>11. RowsStay(o) /\ attempts' = attempts
  BY DEF MarkOk, RowsStay
<1>12. CASE Ready(Marked(g, o))
  <2>1. Goto(g, o, [task[g][o] EXCEPT !.pc = "get"]) /\ queue' = queue
    BY <1>12 DEF MarkOk, Continue
  <2>2. [task[g][o] EXCEPT !.pc = "get"].pc = "get"
    <3>1. task[g][o] \in Task
      BY <1>2, GroupsAre DEF Given, TypeOK
    <3> QED
      BY <3>1 DEF Task
  <2> QED
    BY <1>1, <1>2, <1>9, <1>10, <1>11, <1>12, <2>1, <2>2, GoesKeeps
<1>13. CASE ~Ready(Marked(g, o))
  BY <1>1, <1>2, <1>9, <1>11, <1>13, ReturnsKeep DEF MarkOk
<1> QED
  BY <1>12, <1>13

\* Both halves are there: the aggregation publishes.
LEMMA PublishReadyFirst ==
  ASSUME NEW o \in Orders, Given(o), NEW g \in MarkGroups, PublishReady(g, o)
  PROVE  FirstPayment(o)'
<1>1. PICK c \in MaybeCoupon : Payment(o, c)
  BY CouponOfPayment
<1>2. /\ g \in Groups /\ g \in {StockGroup, CouponGroup}
      /\ g \notin {DeductGroup, CompleteGroup, ExportGroup, RankGroup, DiscountGroup, UseGroup}
      /\ g \notin OrderFailGroups /\ g \notin ProcessingFailGroups /\ queue[g][o] # <<>>
  BY DEF PublishReady, At, Groups, MarkGroups, DeductGroup, CompleteGroup, ExportGroup, RankGroup,
         StockGroup, CouponGroup, DiscountGroup, UseGroup, OrderFailGroups, ProcessingFailGroups
<1>3. /\ RowsStay(o) /\ attempts' = attempts /\ store' = store
      /\ task[g][o].pc = "get"
  BY DEF PublishReady, RowsStay, At
<1>4. ~CouponOut(o)
  BY <1>2, <1>3 DEF CouponOut, JoinedUp
<1>5. StoreStep(o, c)
  BY <1>1, <1>3, StoreStays
<1>6. CASE ~store[o].inited
  BY <1>1, <1>2, <1>3, <1>5, <1>6, ReturnsKeep DEF PublishReady
<1>7. CASE store[o].inited
  <2> DEFINE m == [Msg(store[o].coupon) EXCEPT !.applied = store[o].applied]
             t == [Idle EXCEPT !.pc = "clear"]
  <2>0. TypeOK /\ store[o] \in CoordinatorState
    BY DEF Given, TypeOK
  <2>1. queue' = Published("order.processing.success", o, m) /\ Goto(g, o, t)
    BY <1>7 DEF PublishReady
  <2>2. m \in Message /\ Carries(m, c)
    <3>1. m = [coupon |-> store[o].coupon, applied |-> store[o].applied, amount |-> 0, by |-> "none"]
      BY DEF Msg
    <3> QED
      BY <1>1, <1>7, <2>0, <3>1 DEF Message, Carries, CoordinatorState, Payment, OneCoupon
  <2>3. t.pc = "clear"
    BY DEF Idle
  <2> HIDE DEF m, t
  <2>4. Sent(o, "order.processing.success", m) /\ TaskOf(g, o, t)
    BY <1>2, <2>0, <2>1, FirstSend, GotoTask, GroupsAre
  <2>5. Subscribers("order.processing.success") = {DiscountGroup}
    BY DEF Subscribers, DiscountGroup
  <2>6. /\ queue'[DiscountGroup][o] = Append(queue[DiscountGroup][o], m)
        /\ \A h \in Groups \ {DiscountGroup} : queue'[h][o] = queue[h][o]
    BY <2>4, <2>5, GroupsAre DEF Sent
  <2>7. Consumes(g, o) /\ Shrinks(g, o) /\ queue'[g][o] # <<>>
    BY <1>2, <1>3, <2>4, <2>6, GroupsAre DEF Consumes, TaskOf, Shrinks
  <2>8. Aside(g, o, c)
    BY <1>2, <1>3, <1>5, <2>2, <2>3, <2>4, <2>6, <2>7
    DEF Aside, RowsStay, StoreStep, Grows
  <2>9. c = NoCoupon => queue'[CouponGroup][o] = <<>> /\ task'[UseGroup][o].pc = "idle"
    <3>1. CouponGroup # DiscountGroup
      BY DEF CouponGroup, DiscountGroup
    <3> QED
      BY <1>1, <1>2, <2>4, <2>6, <3>1, GroupsAre DEF Payment, CouponHalf, TaskOf
  <2>10. CouponHalf(o, c)' /\ (CouponLost(o, c) => CouponLost(o, c)')
    BY <1>1, <1>2, <1>4, <2>0, <2>8, <2>9, CouponHalfKept DEF Payment
  <2>11. \A h \in ProcessingFailGroups \cup PaymentFailGroups : Shrinks(h, o)
    <3>1. DiscountGroup \notin ProcessingFailGroups \cup PaymentFailGroups
      BY DEF DiscountGroup, ProcessingFailGroups, PaymentFailGroups
    <3> QED
      BY <2>6, <3>1, GroupsAre DEF Shrinks
  <2>12. Failures(o, c)'
    BY <1>1, <1>3, <2>0, <2>10, <2>11, Counts, FailuresKept DEF Payment
  <2> QED
    BY <1>1, <2>7, <2>8, <2>10, <2>12, AsideKeeps
<1> QED
  BY <1>6, <1>7

\* The coordinator's state is deleted.
LEMMA ClearStoreFirst ==
  ASSUME NEW o \in Orders, Given(o),
         NEW g \in MarkGroups \cup {"order-processing-success", "order-order-processing-fail"},
         ClearStore(g, o)
  PROVE  FirstPayment(o)'
<1>1. PICK c \in MaybeCoupon : Payment(o, c)
  BY CouponOfPayment
<1>2. /\ g \in Groups /\ g \notin {DeductGroup, CompleteGroup, ExportGroup, RankGroup}
      /\ queue[g][o] # <<>>
  BY DEF ClearStore, At, Groups, MarkGroups, OrderFailGroups, DeductGroup, CompleteGroup,
         ExportGroup, RankGroup
<1>3. store'[o] = NoState
  <2>1. store \in [Orders -> CoordinatorState]
    BY DEF Given, TypeOK
  <2> QED
    BY <2>1 DEF ClearStore
<1>4. StoreStep(o, c)
  BY <1>3 DEF StoreStep, NoState
<1> QED
  BY <1>1, <1>2, <1>4, ReturnsKeep DEF ClearStore, RowsStay

\* The coordinator keeps a first payment right.
LEMMA AggregateFirst ==
  ASSUME NEW o \in Orders, Given(o), Aggregate(o)
  PROVE  FirstPayment(o)'
  BY InitCoordinatorFirst, MarkOkFirst, PublishReadyFirst, ClearStoreFirst DEF Aggregate
-----------------------------------------------------------------------------
(***************************************************************************)
(* The two halves, and what undoes them.                                   *)
(***************************************************************************)
LEMMA Answers ==
  ASSUME NEW o \in Orders, Given(o), NEW g \in Groups, queue[g][o] # <<>>,
         NEW topic, NEW m, g \notin Subscribers(topic),
         Return(g, o, Published(topic, o, m)), attempts' = attempts
  PROVE  /\ Consumes(g, o) /\ TaskOf(g, o, Idle) /\ Shrinks(g, o)
         /\ queue'[g][o] = Tail(queue[g][o])
         /\ \A h \in Groups \ {g} : queue'[h][o] = IF h \in Subscribers(topic)
                                                   THEN Append(queue[h][o], m) ELSE queue[h][o]
<1>1. Answered(g, o, topic, m) /\ TaskOf(g, o, Idle)
  BY FirstAnswer DEF Given
<1> QED
  BY <1>1, GroupsAre DEF Consumes, TaskOf, Answered, Shrinks

\* An answer of one of the halves is a step aside.
LEMMA AnswerIsAside ==
  ASSUME NEW o \in Orders, Given(o), NEW c \in MaybeCoupon, Payment(o, c),
         NEW g \in Groups, queue[g][o] # <<>>,
         g \notin {DeductGroup, CompleteGroup, ExportGroup, RankGroup},
         NEW topic, NEW m \in Message, Carries(m, c), g \notin Subscribers(topic),
         Subscribers(topic) \subseteq {StockGroup, CouponGroup, DiscountGroup} \cup ProcessingFailGroups,
         Return(g, o, Published(topic, o, m)), attempts' = attempts,
         RowsStay(o), StoreStep(o, c)
  PROVE  Aside(g, o, c)
<1>1. /\ TaskOf(g, o, Idle) /\ Shrinks(g, o)
      /\ \A h \in Groups \ {g} : queue'[h][o] = IF h \in Subscribers(topic)
                                                THEN Append(queue[h][o], m) ELSE queue[h][o]
  BY Answers
<1>2. Idle.pc = "idle"
  BY DEF Idle
<1>3. \A h \in Groups \ {g} :
        \/ queue'[h][o] = queue[h][o]
        \/ /\ h \in {StockGroup, CouponGroup, DiscountGroup} \cup ProcessingFailGroups
           /\ Grows(h, o, c)
  BY <1>1 DEF Grows
<1> QED
  BY <1>1, <1>2, <1>3 DEF Aside, RowsStay, StoreStep

\* The failure messages stay explained when a handler adds its own.
LEMMA FailuresGrow ==
  ASSUME NEW o \in Orders, NEW c \in MaybeCoupon, Failures(o, c), TypeOK, NEW m \in Message,
         \A h \in ProcessingFailGroups : queue'[h][o] = Append(queue[h][o], m),
         \A h \in PaymentFailGroups : queue'[h][o] = queue[h][o],
         \/ m.by = "ConfirmStockByOrder" /\ Tokens(o)' = 0
         \/ m.by = "UseUserCouponByOrder" /\ CouponLost(o, c)',
         Tokens(o) = 0 => Tokens(o)' = 0, CouponLost(o, c) => CouponLost(o, c)'
  PROVE  Failures(o, c)'
<1>1. \A h \in ProcessingFailGroups : Messages(h, o)' = Messages(h, o) \cup {m}
  BY MessagesSent, GroupsAre
<1> QED
  BY <1>1 DEF Failures

\* The stock's handler keeps a first payment right.
LEMMA StockFirst ==
  ASSUME NEW o \in Orders, Given(o), ProcessStock(o)
  PROVE  FirstPayment(o)'
<1> DEFINE g == "product-order-processing"
<1>1. PICK c \in MaybeCoupon : Payment(o, c)
  BY CouponOfPayment
<1>2. /\ g \in Groups /\ queue[g][o] # <<>>
      /\ g \notin {DeductGroup, CompleteGroup, ExportGroup, RankGroup, DiscountGroup, UseGroup,
                   StockGroup, CouponGroup}
      /\ g \notin OrderFailGroups /\ g \notin ProcessingFailGroups /\ g \notin BusyGroups
  BY DEF ProcessStock, ConfirmStock, StockConfirmed, ConfirmStockFails, At, Groups, DeductGroup,
         CompleteGroup, ExportGroup, RankGroup, DiscountGroup, UseGroup, StockGroup, CouponGroup,
         OrderFailGroups, ProcessingFailGroups, BusyGroups
<1>3. RowsStay(o) /\ attempts' = attempts /\ store' = store /\ TypeOK
  BY DEF ProcessStock, ConfirmStock, StockConfirmed, ConfirmStockFails, RowsStay, Given
<1>4. StoreStep(o, c)
  BY <1>1, <1>3, StoreStays
<1>5. Carries(Received(g, o), c) /\ Received(g, o) \in Message
  BY <1>1, <1>2, ReceivedCarries
<1>6. CASE ConfirmStock(o)
  <2>1. Goto(g, o, Doing("update", task[g][o].done + 1)) /\ queue' = queue
    BY <1>6 DEF ConfirmStock, ItemDone
  <2> HIDE DEF g
  <2> QED
    BY <1>1, <1>2, <1>3, <1>4, <2>1, GoesKeeps
<1>7. CASE StockConfirmed(o)
  <2> DEFINE m == Msg(Received(g, o).coupon)
             topic == "order.processing.stock.success"
  <2>1. Return(g, o, Published(topic, o, m))
    BY <1>7 DEF StockConfirmed
  <2>2. m \in Message /\ Carries(m, c)
    BY <1>5, MsgCarries
  <2>3. Subscribers(topic) = {StockGroup}
    BY DEF Subscribers, StockGroup
  <2> HIDE DEF g, m, topic
  <2>4. Aside(g, o, c)
    BY <1>1, <1>2, <1>3, <1>4, <2>1, <2>2, <2>3, AnswerIsAside
  <2>5. /\ Consumes(g, o) /\ TaskOf(g, o, Idle)
        /\ \A h \in Groups : h # StockGroup => Shrinks(h, o)
        /\ \A h \in Groups \ {g, StockGroup} : queue'[h][o] = queue[h][o]
    BY <1>2, <1>3, <2>1, <2>3, Answers DEF Shrinks
  <2>6. StockGroup \notin {CouponGroup, DiscountGroup, DeductGroup}
                            \cup ProcessingFailGroups \cup PaymentFailGroups
    BY DEF StockGroup, CouponGroup, DiscountGroup, DeductGroup, ProcessingFailGroups,
           PaymentFailGroups
  <2>7. \A h \in {StockGroup, CouponGroup, UseGroup} : task'[h][o] = task[h][o]
    BY <1>2, <2>5, GroupsAre DEF TaskOf
  <2>8. c # NoCoupon /\ CouponOut(o) => CouponOut(o)'
    BY <1>3, <1>4, <2>5, <2>6, <2>7, GroupsAre, CouponOutKept DEF RowsStay, StoreStep
  <2>9. c = NoCoupon => queue'[CouponGroup][o] = <<>> /\ task'[UseGroup][o].pc = "idle"
    BY <1>1, <1>2, <2>5, <2>6, <2>7, GroupsAre DEF Payment, CouponHalf
  <2>10. CouponHalf(o, c)' /\ (CouponLost(o, c) => CouponLost(o, c)')
    BY <1>1, <1>2, <1>3, <2>4, <2>8, <2>9, CouponHalfKept DEF Payment
  <2>11. Failures(o, c)'
    BY <1>1, <1>3, <2>5, <2>6, <2>10, GroupsAre, Counts, FailuresKept DEF Payment
  <2> QED
    BY <1>1, <2>4, <2>5, <2>10, <2>11, AsideKeeps
<1>8. CASE ConfirmStockFails(o)
  <2> DEFINE m == [Msg(Received(g, o).coupon) EXCEPT !.by = "ConfirmStockByOrder"]
             topic == "order.processing.fail"
  <2>1. Return(g, o, Published(topic, o, m))
    BY <1>8 DEF ConfirmStockFails
  <2>2. m \in Message /\ Carries(m, c) /\ m.by = "ConfirmStockByOrder"
    BY <1>5, MsgCarries
  <2>3. Subscribers(topic) = ProcessingFailGroups
    BY DEF Subscribers, ProcessingFailGroups
  <2>4. /\ ProcessingFailGroups \cap ({CouponGroup, DiscountGroup, DeductGroup, UseGroup}
                                        \cup BusyGroups \cup PaymentFailGroups) = {}
        /\ g \notin PaymentFailGroups
    BY DEF CouponGroup, DiscountGroup, DeductGroup, UseGroup, ProcessingFailGroups,
           PaymentFailGroups, BusyGroups
  <2>5. g = "product-order-processing"
    OBVIOUS
  <2> HIDE DEF g, m, topic
  <2>6. Aside(g, o, c)
    BY <1>1, <1>2, <1>3, <1>4, <2>1, <2>2, <2>3, AnswerIsAside
  <2>7. /\ Consumes(g, o) /\ TaskOf(g, o, Idle) /\ queue'[g][o] = Tail(queue[g][o])
        /\ \A h \in Groups \ {g} : queue'[h][o] = IF h \in ProcessingFailGroups
                                                  THEN Append(queue[h][o], m) ELSE queue[h][o]
    BY <1>2, <1>3, <2>1, <2>3, Answers
  <2>8. \A h \in {StockGroup, CouponGroup, UseGroup, "client"} \cup BusyGroups :
          task'[h][o] = task[h][o]
    BY <1>2, <2>7, GroupsAre, WaitingType, <1>3 DEF TaskOf, Consumes, QueueGroups
  <2>9. \A h \in {CouponGroup, DiscountGroup, DeductGroup, UseGroup}
                   \cup BusyGroups \cup PaymentFailGroups : queue'[h][o] = queue[h][o]
    BY <1>2, <1>3, <2>4, <2>7, GroupsAre, WaitingType DEF QueueGroups
  <2>10. c # NoCoupon /\ CouponOut(o) => CouponOut(o)'
    BY <1>3, <1>4, <2>8, <2>9, CouponOutKept DEF RowsStay, StoreStep, Shrinks
  <2>11. c = NoCoupon => queue'[CouponGroup][o] = <<>> /\ task'[UseGroup][o].pc = "idle"
    BY <1>1, <2>8, <2>9 DEF Payment, CouponHalf
  <2>12. CouponHalf(o, c)' /\ (CouponLost(o, c) => CouponLost(o, c)')
    BY <1>1, <1>2, <1>3, <2>6, <2>10, <2>11, CouponHalfKept DEF Payment
  <2>13. Tokens(o)' = 0
    <3>1. Len(queue'[g][o]) = Len(queue[g][o]) - 1
      BY <1>2, <1>3, <2>7, MessagesTook
    <3>2. Waiting("product-order-processing", o)' = Waiting("product-order-processing", o) - 1
      BY <2>5, <3>1 DEF Waiting
    <3>3. \A h \in BusyGroups : HandlerTokens(h, o)' = HandlerTokens(h, o)
      BY <2>8, <2>9 DEF HandlerTokens, Waiting
    <3>4. /\ RequestToken(o)' = RequestToken(o) /\ CouponToken(o)' = CouponToken(o)
          /\ StoreToken(o)' = StoreToken(o) /\ Deductions(o)' = Deductions(o)
      BY <1>3, <2>8 DEF RequestToken, CouponToken, StoreToken, Deductions, RowsStay, CouponGroup
    <3>5. Tokens(o)' = Tokens(o) - 1
      <4>1. /\ Waiting("product-order-processing", o) \in Nat
            /\ \A h \in BusyGroups : HandlerTokens(h, o) \in Nat
            /\ RequestToken(o) \in Nat /\ StoreToken(o) \in Nat /\ CouponToken(o) \in Nat
            /\ Deductions(o) \in Nat
        BY <1>3, Counts
      <4>2. Asked(o)' = Asked(o) - 1 /\ Joined(o)' = Joined(o) /\ Charged(o)' = Charged(o)
        BY <3>2, <3>3, <3>4, <4>1 DEF Asked, Joined, Charged, BusyGroups
      <4>3. Asked(o) \in Int /\ Joined(o) \in Int /\ Charged(o) \in Int
        BY <4>1 DEF Asked, Joined, Charged, BusyGroups
      <4> QED
        BY <4>2, <4>3 DEF Tokens
    <3> QED
      BY <1>3, <3>5, Counts
  <2>14. Failures(o, c)'
    BY <1>1, <1>2, <1>3, <2>2, <2>7, <2>9, <2>12, <2>13, GroupsAre, FailuresGrow DEF Payment
  <2> QED
    BY <1>1, <2>6, <2>7, <2>12, <2>14, AsideKeeps
<1> QED
  BY <1>6, <1>7, <1>8 DEF ProcessStock

\* The coupon's handler is at work on a coupon, and its message is the only
\* one; until it returns the coupon's half is out.
LEMMA UsesCoupon ==
  ASSUME NEW o \in Orders, Given(o), NEW c \in MaybeCoupon, Payment(o, c),
         queue[UseGroup][o] # <<>>
  PROVE  /\ task[UseGroup][o].pc # "idle" => c # NoCoupon
         /\ c # NoCoupon => CouponOut(o)
         /\ queue'[UseGroup][o] = Tail(queue[UseGroup][o]) => queue'[UseGroup][o] = <<>>
<1>1. TypeOK /\ CouponHalf(o, c) /\ TypeOK'
  BY DEF Given, Payment
<1>2. ASSUME queue'[UseGroup][o] = Tail(queue[UseGroup][o])
      PROVE  queue'[UseGroup][o] = <<>>
  <2>1. Len(queue'[UseGroup][o]) = Len(queue[UseGroup][o]) - 1
    BY <1>1, <1>2, GroupsAre, MessagesTook
  <2>2. Len(queue[UseGroup][o]) \in Nat /\ Len(queue[UseGroup][o]) <= 1
    BY <1>1, GroupsAre, MessagesAre DEF CouponHalf
  <2>3. queue'[UseGroup][o] \in Seq(Message)
    BY <1>1, GroupsAre DEF TypeOK
  <2>4. Len(queue'[UseGroup][o]) \in Nat
    BY <2>3
  <2> QED
    BY <2>1, <2>2, <2>3, <2>4
<1> QED
  BY <1>1, <1>2 DEF CouponHalf

\* The coupon's half is answered.
LEMMA CouponUsedFirst ==
  ASSUME NEW o \in Orders, Given(o), CouponUsed(o)
  PROVE  FirstPayment(o)'
<1>1. PICK c \in MaybeCoupon : Payment(o, c)
  BY CouponOfPayment
<1> DEFINE m == [Msg(Received(UseGroup, o).coupon) EXCEPT !.applied = Received(UseGroup, o).coupon]
           topic == "order.processing.coupon.success"
<1>2. /\ UseGroup \in Groups /\ queue[UseGroup][o] # <<>> /\ task[UseGroup][o].pc = "publish"
      /\ UseGroup \notin {DeductGroup, CompleteGroup, ExportGroup, RankGroup}
  BY GroupsAre DEF CouponUsed, At, UseGroup, DeductGroup, CompleteGroup, ExportGroup, RankGroup
<1>3. /\ RowsStay(o) /\ attempts' = attempts /\ store' = store /\ TypeOK
      /\ Return(UseGroup, o, Published(topic, o, m))
  BY DEF CouponUsed, RowsStay, Given, UseGroup
<1>4. StoreStep(o, c)
  BY <1>1, <1>3, StoreStays
<1>5. m \in Message /\ Carries(m, c)
  <2>1. Received(UseGroup, o).coupon = c /\ NoCoupon \in MaybeCoupon
    BY <1>1, <1>2, ReceivedCarries DEF Carries, MaybeCoupon
  <2>2. m = [coupon |-> c, applied |-> c, amount |-> 0, by |-> "none"]
    BY <2>1 DEF Msg
  <2> HIDE DEF m
  <2> QED
    BY <2>1, <2>2 DEF Message, Carries
<1>6. Subscribers(topic) = {CouponGroup} /\ UseGroup # CouponGroup
  BY DEF Subscribers, CouponGroup, UseGroup
<1> HIDE DEF m, topic
<1>7. Aside(UseGroup, o, c)
  BY <1>1, <1>2, <1>3, <1>4, <1>5, <1>6, AnswerIsAside
<1>8. /\ Consumes(UseGroup, o) /\ queue'[UseGroup][o] = Tail(queue[UseGroup][o])
      /\ \A h \in Groups : h # CouponGroup => Shrinks(h, o)
  BY <1>2, <1>3, <1>6, Answers DEF Shrinks
<1>9. c # NoCoupon /\ queue'[UseGroup][o] = <<>>
  BY <1>1, <1>2, <1>8, UsesCoupon
<1>10. CouponHalf(o, c)'
  BY <1>9 DEF CouponHalf
<1>11. ~CouponLost(o, c)
  BY <1>2 DEF CouponLost
<1>12. Failures(o, c)'
  <2>1. CouponGroup \notin ProcessingFailGroups \cup PaymentFailGroups
    BY DEF CouponGroup, ProcessingFailGroups, PaymentFailGroups
  <2> QED
    BY <1>1, <1>3, <1>8, <1>11, <2>1, GroupsAre, Counts, FailuresKept DEF Payment
<1> QED
  BY <1>1, <1>7, <1>8, <1>10, <1>11, <1>12, AsideKeeps

\* The coupon's half is refused.
LEMMA CouponFailsFirst ==
  ASSUME NEW o \in Orders, Given(o), CouponProcessingFailed(o), queue[UseGroup][o] # <<>>,
         task[UseGroup][o].pc # "idle", attempts' = attempts, store' = store, RowsStay(o)
  PROVE  FirstPayment(o)'
<1>1. PICK c \in MaybeCoupon : Payment(o, c)
  BY CouponOfPayment
<1> DEFINE m == [Msg(Received(UseGroup, o).coupon) EXCEPT !.by = "UseUserCouponByOrder"]
           topic == "order.processing.fail"
<1>2. /\ UseGroup \in Groups
      /\ UseGroup \notin {DeductGroup, CompleteGroup, ExportGroup, RankGroup, StockGroup}
  BY GroupsAre DEF UseGroup, DeductGroup, CompleteGroup, ExportGroup, RankGroup, StockGroup
<1>3. Return(UseGroup, o, Published(topic, o, m)) /\ TypeOK
  BY DEF CouponProcessingFailed, UseGroup, Given
<1>4. StoreStep(o, c)
  BY <1>1, StoreStays
<1>5. m \in Message /\ Carries(m, c) /\ m.by = "UseUserCouponByOrder"
  BY <1>1, <1>2, ReceivedCarries, MsgCarries
<1>6. /\ Subscribers(topic) = ProcessingFailGroups
      /\ ProcessingFailGroups \cap ({CouponGroup, DiscountGroup, DeductGroup, UseGroup}
                                      \cup PaymentFailGroups) = {}
      /\ UseGroup \notin PaymentFailGroups \cup {CouponGroup, DiscountGroup, DeductGroup}
  BY DEF Subscribers, CouponGroup, DiscountGroup, DeductGroup, UseGroup, ProcessingFailGroups,
         PaymentFailGroups
<1> HIDE DEF m, topic
<1>7. Aside(UseGroup, o, c)
  BY <1>1, <1>2, <1>3, <1>4, <1>5, <1>6, AnswerIsAside
<1>8. /\ Consumes(UseGroup, o) /\ queue'[UseGroup][o] = Tail(queue[UseGroup][o])
      /\ TaskOf(UseGroup, o, Idle)
      /\ \A h \in ProcessingFailGroups : queue'[h][o] = Append(queue[h][o], m)
      /\ \A h \in Groups \ ({UseGroup} \cup ProcessingFailGroups) : queue'[h][o] = queue[h][o]
  <2>1. UseGroup \notin Subscribers(topic)
    BY <1>6
  <2>2. /\ Consumes(UseGroup, o) /\ queue'[UseGroup][o] = Tail(queue[UseGroup][o])
        /\ TaskOf(UseGroup, o, Idle)
        /\ \A h \in Groups \ {UseGroup} : queue'[h][o] = IF h \in Subscribers(topic)
                                                        THEN Append(queue[h][o], m) ELSE queue[h][o]
    BY <1>2, <1>3, <2>1, Answers
  <2> QED
    BY <1>6, <2>1, <2>2, GroupsAre
<1>9. c # NoCoupon /\ queue'[UseGroup][o] = <<>> /\ CouponOut(o)
  BY <1>1, <1>8, UsesCoupon
<1>10. CouponOut(o)'
  <2>1. \A h \in {CouponGroup, DiscountGroup, DeductGroup} : Shrinks(h, o)
    BY <1>6, <1>8, GroupsAre DEF Shrinks
  <2>2. \A h \in {StockGroup, CouponGroup} : task'[h][o] = task[h][o]
    BY <1>2, <1>6, <1>8, GroupsAre DEF TaskOf
  <2> QED
    BY <1>3, <1>4, <1>9, <2>1, <2>2, CouponOutKept DEF StoreStep, RowsStay
<1>11. CouponHalf(o, c)' /\ CouponLost(o, c)'
  BY <1>9, <1>10 DEF CouponHalf, CouponLost
<1>12. Failures(o, c)'
  BY <1>1, <1>3, <1>5, <1>6, <1>8, <1>11, GroupsAre, Counts, FailuresGrow DEF Payment
<1> QED
  BY <1>1, <1>7, <1>8, <1>11, <1>12, AsideKeeps

\* The coupon's handler keeps a first payment right.
LEMMA CouponFirst ==
  ASSUME NEW o \in Orders, Given(o), ProcessCoupon(o)
  PROVE  FirstPayment(o)'
<1>1. PICK c \in MaybeCoupon : Payment(o, c)
  BY CouponOfPayment
<1>2. /\ UseGroup \in Groups /\ UseGroup = "coupon-order-processing"
      /\ UseGroup \notin {DeductGroup, CompleteGroup, ExportGroup, RankGroup, DiscountGroup,
                          StockGroup, CouponGroup} \cup OrderFailGroups
  BY GroupsAre DEF UseGroup, DeductGroup, CompleteGroup, ExportGroup, RankGroup, StockGroup,
                   CouponGroup, DiscountGroup, OrderFailGroups
<1>3. queue[UseGroup][o] # <<>>
  BY <1>2 DEF ProcessCoupon, SkipCoupon, UseCoupon, UseCouponFails, CreateUserCoupon, CouponUsed,
              RecordCouponFails, CancelCheck, CancelUse, At
<1>4. /\ RowsStay(o) /\ attempts' = attempts /\ store' = store /\ TypeOK
  BY DEF ProcessCoupon, SkipCoupon, UseCoupon, UseCouponFails, CreateUserCoupon, CouponUsed,
         RecordCouponFails, CancelCheck, CancelUse, RowsStay, Given
<1>5. StoreStep(o, c)
  BY <1>1, <1>4, StoreStays
<1>6. CASE SkipCoupon(o)
  <2>1. Return(UseGroup, o, queue)
    BY <1>2, <1>6 DEF SkipCoupon
  <2> QED
    BY <1>1, <1>2, <1>3, <1>4, <1>5, <2>1, ReturnsKeep
<1>7. ASSUME NEW p, Continue(UseGroup, o, p), c # NoCoupon
      PROVE  FirstPayment(o)'
  <2>1. Goto(UseGroup, o, [task[UseGroup][o] EXCEPT !.pc = p]) /\ queue' = queue
    BY <1>7 DEF Continue
  <2> QED
    BY <1>1, <1>2, <1>3, <1>4, <1>5, <1>7, <2>1, GoesKeeps
<1>8. CASE UseCoupon(o) \/ UseCouponFails(o)
  <2>1. c # NoCoupon
    <3>1. Received(UseGroup, o).coupon = c
      BY <1>1, <1>2, <1>3, ReceivedCarries DEF Carries
    <3> QED
      BY <1>2, <1>8, <3>1 DEF UseCoupon, UseCouponFails
  <2>2. \E p : Continue(UseGroup, o, p)
    BY <1>2, <1>8 DEF UseCoupon, UseCouponFails
  <2> QED
    BY <1>7, <2>1, <2>2
<1>9. task[UseGroup][o].pc # "idle" => c # NoCoupon
  BY <1>1, <1>3, UsesCoupon
<1>10. CASE CreateUserCoupon(o) \/ RecordCouponFails(o)
  <2>1. task[UseGroup][o].pc # "idle" /\ \E p : Continue(UseGroup, o, p)
    BY <1>2, <1>10 DEF CreateUserCoupon, RecordCouponFails, At
  <2> QED
    BY <1>7, <1>9, <2>1
<1>11. CASE CancelCheck(o) \/ CancelUse(o)
  <2>1. /\ task[UseGroup][o].pc # "idle"
        /\ (\E p : Continue(UseGroup, o, p)) \/ CouponProcessingFailed(o)
    BY <1>2, <1>11 DEF CancelCheck, CancelUse, At
  <2> QED
    BY <1>3, <1>4, <1>7, <1>9, <2>1, CouponFailsFirst
<1> QED
  BY <1>6, <1>8, <1>10, <1>11, CouponUsedFirst DEF ProcessCoupon
-----------------------------------------------------------------------------
(***************************************************************************)
(* Steps on the order's row and on its money.                              *)
(***************************************************************************)
LEMMA HalvesKept ==
  ASSUME NEW o \in Orders, Given(o), NEW c \in MaybeCoupon, Payment(o, c),
         NEW g, Consumes(g, o), store'[o] = store[o],
         \A h \in Groups : Shrinks(h, o) \/ Grows(h, o, c),
         \A h \in {UseGroup, CouponGroup} \cup ProcessingFailGroups : Shrinks(h, o),
         \A h \in PaymentFailGroups : Shrinks(h, o) \/ Tokens(o)' = 0,
         task'[UseGroup][o] = task[UseGroup][o],
         CouponOut(o) => CouponOut(o)'
  PROVE  /\ OneCoupon(o, c)' /\ CouponHalf(o, c)' /\ Failures(o, c)'
         /\ Dead(o, c) => Dead(o, c)'
<1>1. TypeOK /\ OneCoupon(o, c) /\ CouponHalf(o, c) /\ Failures(o, c)
  BY DEF Given, Payment
<1>2. OneCoupon(o, c)'
  BY <1>1, OneCouponKept DEF OneCoupon
<1>3. /\ \A h \in {UseGroup, CouponGroup} : queue'[h][o] # <<>> => queue[h][o] # <<>>
      /\ Len(queue'[UseGroup][o]) <= Len(queue[UseGroup][o])
  BY <1>1, ShrinksMessages, GroupsAre
<1>4. Len(queue'[UseGroup][o]) <= 1
  <2>1. queue[UseGroup][o] \in Seq(Message) /\ queue'[UseGroup][o] \in Seq(Message)
    BY GroupsAre DEF Given, TypeOK
  <2>2. Len(queue[UseGroup][o]) \in Nat /\ Len(queue'[UseGroup][o]) \in Nat
    BY <2>1
  <2>3. Len(queue[UseGroup][o]) <= 1
    BY <1>1 DEF CouponHalf
  <2> QED
    BY <1>3, <2>2, <2>3
<1>5. CouponHalf(o, c)'
  BY <1>1, <1>3, <1>4 DEF CouponHalf
<1>6. CouponLost(o, c) => CouponLost(o, c)'
  BY <1>3 DEF CouponLost
<1>7. Tokens(o) = 0 => Tokens(o)' = 0
  BY Counts DEF Consumes
<1>8. \A h \in ProcessingFailGroups : Messages(h, o)' \subseteq Messages(h, o)
  BY <1>1, ShrinksMessages, GroupsAre
<1>9. \A h \in PaymentFailGroups : queue'[h][o] # <<>> => queue[h][o] # <<>> \/ Tokens(o)' = 0
  BY <1>1, ShrinksMessages, GroupsAre
<1>10. Failures(o, c)'
  BY <1>1, <1>6, <1>7, <1>8, <1>9 DEF Failures
<1> QED
  BY <1>2, <1>5, <1>6, <1>7, <1>10 DEF Dead

\* When a half is lost, nothing is asked of the balance.
LEMMA DeadIsOut ==
  ASSUME NEW o \in Orders, Given(o), attempts'[o] = attempts[o],
         NEW c \in MaybeCoupon, Dead(o, c)
  PROVE  /\ logs[o] = <<>> /\ queue[DeductGroup][o] = <<>> /\ queue[CompleteGroup][o] = <<>>
         /\ task[DiscountGroup][o].pc \notin {"update", "publish"}
         /\ task[CompleteGroup][o].pc = "idle" /\ task[DeductGroup][o].pc = "idle"
         /\ orders[o].status # "PAID"
<1>1. TypeOK /\ Busy(o)
  BY DEF Given, FirstPayment
<1>2. /\ DiscountGroup = "order-processing-success" /\ DeductGroup = "user-order-payment"
      /\ DiscountGroup \in BusyGroups /\ DeductGroup \in BusyGroups
  BY DEF DiscountGroup, DeductGroup, BusyGroups
<1>3. \A g \in Groups : Waiting(g, o) \in Nat /\ (queue[g][o] # <<>> <=> Waiting(g, o) > 0)
  BY <1>1, WaitingType
<1>4. logs[o] = <<>> => /\ orders[o].status # "PAID" /\ queue[CompleteGroup][o] = <<>>
                        /\ task[DeductGroup][o].pc # "publish"
  BY DEF Given, Unpaid, DataUnpaid, QueuesUnpaid, TasksUnpaid, PaidGroups, CompleteGroup, DeductGroup
<1>5. CASE Tokens(o) = 0
  <2>1. /\ Deductions(o) = 0 /\ HandlerTokens(DiscountGroup, o) = 0
        /\ HandlerTokens(DeductGroup, o) = 0
    <3>1. /\ Waiting("product-order-processing", o) \in Nat
          /\ \A h \in BusyGroups : HandlerTokens(h, o) \in Nat
          /\ RequestToken(o) \in Nat /\ StoreToken(o) \in Nat /\ CouponToken(o) \in Nat
          /\ Deductions(o) \in Nat
      BY Counts
    <3>2. /\ Asked(o) \in Nat /\ Joined(o) \in Nat /\ Charged(o) \in Nat
          /\ HandlerTokens(DiscountGroup, o) <= Joined(o)
          /\ HandlerTokens(DeductGroup, o) <= Charged(o) /\ Deductions(o) <= Charged(o)
      BY <1>2, <3>1 DEF Asked, Joined, Charged, BusyGroups
    <3>3. Joined(o) = 0 /\ Charged(o) = 0
      BY <1>5, <3>2 DEF Tokens
    <3>4. HandlerTokens(DiscountGroup, o) \in Nat /\ HandlerTokens(DeductGroup, o) \in Nat
      BY <1>2, <3>1
    <3> QED
      BY <3>1, <3>2, <3>3, <3>4
  <2>2. logs[o] = <<>>
    <3>1. logs[o] \in Seq(Nat \ {0})
      BY <1>1 DEF TypeOK
    <3> QED
      BY <2>1, <3>1 DEF Deductions
  <2>3. queue[DeductGroup][o] = <<>>
    <3>1. Waiting(DeductGroup, o) = 0
      BY <1>2, <1>3, <1>4, <2>1, <2>2, GroupsAre DEF HandlerTokens, LastStep, One
    <3> QED
      BY <1>3, <3>1, GroupsAre
  <2>4. task[DiscountGroup][o].pc \notin {"update", "publish"}
    <3>1. LastStep(DiscountGroup) = "clear"
      BY <1>2 DEF LastStep
    <3>2. CASE task[DiscountGroup][o].pc \in {"update", "publish"}
      <4>1. Waiting(DiscountGroup, o) > 0
        BY <1>1, <1>3, <3>2, GroupsAre DEF Busy
      <4>2. HandlerTokens(DiscountGroup, o) = Waiting(DiscountGroup, o) - 0
        BY <3>1, <3>2 DEF HandlerTokens, One
      <4> QED
        BY <1>3, <2>1, <4>1, <4>2, GroupsAre
    <3> QED
      BY <3>2
  <2> QED
    BY <1>1, <1>4, <2>2, <2>3, <2>4, GroupsAre DEF Busy
<1>6. CASE CouponLost(o, c)
  <2>1. logs[o] = <<>> /\ queue[DeductGroup][o] = <<>> /\ queue[DiscountGroup][o] = <<>>
    BY <1>6 DEF CouponLost, CouponOut, JoinedUp
  <2> QED
    BY <1>1, <1>4, <2>1, GroupsAre DEF Busy
<1> QED
  BY <1>5, <1>6 DEF Dead

\* Exports stay matched where the order is not told of before and after.
LEMMA ExportsUntold ==
  ASSUME NEW o \in Orders, Exports(o), ~Told(o), ~Told(o)', exported'[o] = exported[o],
         sales'[o] = sales[o], queue'[ExportGroup][o] = queue[ExportGroup][o],
         queue'[RankGroup][o] = queue[RankGroup][o]
  PROVE  Exports(o)'
<1>1. exported'[o] \/ queue'[ExportGroup][o] # <<>> <=> Told(o)'
  BY DEF Exports
<1>2. sales'[o] + Len(queue'[RankGroup][o]) = One(Told(o)')
  BY DEF Exports, One
<1> QED
  BY <1>1, <1>2 DEF Exports

\* The fields of the task that clears the coordinator's state
LEMMA ClearTask == [Idle EXCEPT !.pc = "clear"].pc = "clear" /\ Idle.pc = "idle"
  BY DEF Idle

\* After the cancellation the handler clears the state or returns.
LEMMA AfterCancelEffect ==
  ASSUME NEW o \in Orders, Given(o), NEW g \in OrderFailGroups, queue[g][o] # <<>>,
         AfterCancel(g, o), attempts' = attempts
  PROVE  /\ Consumes(g, o) /\ Shrinks(g, o)
         /\ \A h \in Groups \ {g} : queue'[h][o] = queue[h][o]
         /\ \E t : /\ TaskOf(g, o, t) /\ t.pc \in {"idle", "clear"}
                   /\ t.pc # "idle" => queue'[g][o] # <<>>
<1>0. g \in Groups
  BY GroupsAre
<1>1. CASE g = "order-order-processing-fail"
  <2>1. Goto(g, o, [Idle EXCEPT !.pc = "clear"]) /\ queue' = queue
    BY <1>1 DEF AfterCancel
  <2>2. /\ Consumes(g, o) /\ Shrinks(g, o) /\ queue'[g][o] # <<>>
        /\ \A h \in Groups \ {g} : queue'[h][o] = queue[h][o]
        /\ TaskOf(g, o, [Idle EXCEPT !.pc = "clear"])
    BY <1>0, <2>1, Goes
  <2> QED
    BY <2>2, ClearTask
<1>2. CASE g # "order-order-processing-fail"
  <2>1. Return(g, o, queue)
    BY <1>2 DEF AfterCancel
  <2>2. /\ Consumes(g, o) /\ Shrinks(g, o) /\ TaskOf(g, o, Idle)
        /\ \A h \in Groups \ {g} : queue'[h][o] = queue[h][o]
    BY <1>0, <2>1, Returns
  <2> QED
    BY <2>2, ClearTask
<1> QED
  BY <1>1, <1>2

\* A payment of which a failure was reported is dead.
LEMMA FailedIsDead ==
  ASSUME NEW o \in Orders, Given(o), NEW c \in MaybeCoupon, Payment(o, c),
         NEW g \in OrderFailGroups, queue[g][o] # <<>>
  PROVE  Dead(o, c)
<1>1. g \in Groups /\ g \in ProcessingFailGroups \cup PaymentFailGroups
  BY GroupsAre DEF OrderFailGroups, ProcessingFailGroups, PaymentFailGroups
<1>2. CASE g \in ProcessingFailGroups
  BY <1>1, <1>2, ReceivedCarries DEF Payment, Failures, Dead
<1>3. CASE g \in PaymentFailGroups
  BY <1>3 DEF Payment, Failures, Dead
<1> QED
  BY <1>1, <1>2, <1>3

\* The cancelled order is saved.
LEMMA WriteCancelFirst ==
  ASSUME NEW o \in Orders, Given(o), NEW g \in OrderFailGroups, WriteCancel(g, o)
  PROVE  FirstPayment(o)'
<1>1. PICK c \in MaybeCoupon : Payment(o, c)
  BY CouponOfPayment
<1>2. /\ g \in Groups /\ queue[g][o] # <<>> /\ task[g][o].pc = "update" /\ AfterCancel(g, o)
      /\ attempts' = attempts /\ logs' = logs /\ exported' = exported /\ sales' = sales
      /\ store' = store /\ orders' = [orders EXCEPT ![o] = task[g][o].row]
  BY GroupsAre DEF WriteCancel, At
<1>3. /\ g \notin {UseGroup, StockGroup, CouponGroup, DiscountGroup, DeductGroup, CompleteGroup,
                   ExportGroup, RankGroup}
      /\ g \in ProcessingFailGroups \cup PaymentFailGroups
  BY DEF OrderFailGroups, UseGroup, StockGroup, CouponGroup, DiscountGroup, DeductGroup,
         CompleteGroup, ExportGroup, RankGroup, ProcessingFailGroups, PaymentFailGroups
<1>4. TypeOK /\ TypeOK' /\ Busy(o) /\ Failures(o, c) /\ Statuses(o, c) /\ Amounts(o, c)
  BY <1>1 DEF Given, FirstPayment, Payment
<1>5. /\ Consumes(g, o) /\ \A h \in Groups : Shrinks(h, o)
      /\ \A h \in Groups \ {g} : queue'[h][o] = queue[h][o]
  BY <1>2, AfterCancelEffect DEF Shrinks
<1>6. PICK t : /\ TaskOf(g, o, t) /\ t.pc \in {"idle", "clear"}
               /\ t.pc # "idle" => queue'[g][o] # <<>>
  BY <1>2, AfterCancelEffect
<1>7. /\ \A h \in Groups \ {g} : task'[h][o] = task[h][o]
      /\ task'["client"][o] = task["client"][o] /\ task'[g][o].pc # "update"
  BY <1>6, GroupsAre DEF TaskOf
<1>8. orders'[o].status = "PENDING"
  <2>1. orders'[o] = task[g][o].row
    BY <1>2, <1>4 DEF TypeOK
  <2> QED
    BY <1>2, <1>4, <2>1 DEF Statuses
<1>9. Dead(o, c)
  BY <1>1, <1>2, FailedIsDead
<1>10. /\ logs[o] = <<>> /\ queue[DeductGroup][o] = <<>> /\ queue[CompleteGroup][o] = <<>>
       /\ task[DiscountGroup][o].pc \notin {"update", "publish"}
       /\ task[CompleteGroup][o].pc = "idle" /\ orders[o].status # "PAID"
  BY <1>2, <1>9, DeadIsOut
<1>11. Busy(o)'
  BY <1>2, <1>4, <1>5, <1>6, BusyStays
<1>12. CouponOut(o) => CouponOut(o)'
  BY <1>2, <1>3, <1>4, <1>5, <1>7, GroupsAre, CouponOutKept DEF CouponOut
<1>13. /\ OneCoupon(o, c)' /\ CouponHalf(o, c)' /\ Failures(o, c)'
       /\ Dead(o, c) => Dead(o, c)'
  BY <1>1, <1>2, <1>3, <1>5, <1>7, <1>12, GroupsAre, HalvesKept
<1>14. Statuses(o, c)'
  BY <1>4, <1>7, <1>8, <1>9, <1>13, GroupsAre DEF Statuses
<1>15. Amounts(o, c)'
  <2>1. Messages(DeductGroup, o)' = {}
    <3>1. queue'[DeductGroup][o] = <<>>
      BY <1>3, <1>5, <1>10, GroupsAre
    <3> QED
      BY <3>1 DEF Messages
  <2> QED
    BY <1>2, <1>3, <1>7, <1>10, <2>1, GroupsAre DEF Amounts
<1>16. Completion(o)'
  BY <1>2, <1>3, <1>7, <1>8, <1>10, GroupsAre DEF Completion
<1>17. Exports(o)'
  <2>1. ~Told(o) /\ ~Told(o)'
    BY <1>8, <1>10 DEF Told
  <2> QED
    BY <1>2, <1>3, <1>5, <2>1, GroupsAre, ExportsUntold DEF Given, FirstPayment
<1>18. ~Untouched(o)'
  BY <1>5, Works
<1> QED
  BY <1>11, <1>13, <1>14, <1>15, <1>16, <1>17, <1>18 DEF FirstPayment, Payment

\* The order to be cancelled is read.
LEMMA ReadForCancelFirst ==
  ASSUME NEW o \in Orders, Given(o), NEW g \in OrderFailGroups, ReadForCancel(g, o)
  PROVE  FirstPayment(o)'
<1>1. PICK c \in MaybeCoupon : Payment(o, c)
  BY CouponOfPayment
<1>2. /\ g \in Groups /\ queue[g][o] # <<>> /\ RowsStay(o)
      /\ attempts' = attempts /\ store' = store
  BY GroupsAre DEF ReadForCancel, At, RowsStay
<1>3. g \notin {UseGroup, StockGroup, CouponGroup, DiscountGroup, DeductGroup, CompleteGroup,
                ExportGroup, RankGroup}
  BY DEF OrderFailGroups, UseGroup, StockGroup, CouponGroup, DiscountGroup, DeductGroup,
         CompleteGroup, ExportGroup, RankGroup
<1>4. StoreStep(o, c)
  BY <1>1, <1>2, StoreStays
<1>5. CASE Cancellable(orders[o])
  <2>1. Goto(g, o, Holding("update", CancelPayment(orders[o]))) /\ queue' = queue
    BY <1>5 DEF ReadForCancel
  <2>2. Holding("update", CancelPayment(orders[o])).row.status = "PENDING"
    <3>1. orders[o] \in Row
      BY DEF Given, TypeOK
    <3> QED
      BY <3>1 DEF Holding, CancelPayment, Row
  <2> QED
    BY <1>1, <1>2, <1>3, <1>4, <2>1, <2>2, GoesKeeps
<1>6. CASE ~Cancellable(orders[o])
  <2>1. AfterCancel(g, o)
    BY <1>6 DEF ReadForCancel
  <2>2. /\ Consumes(g, o) /\ Shrinks(g, o)
        /\ \A h \in Groups \ {g} : queue'[h][o] = queue[h][o]
    BY <1>2, <2>1, AfterCancelEffect
  <2>3. PICK t : /\ TaskOf(g, o, t) /\ t.pc \in {"idle", "clear"}
                 /\ t.pc # "idle" => queue'[g][o] # <<>>
    BY <1>2, <2>1, AfterCancelEffect
  <2> QED
    BY <1>1, <1>2, <1>3, <1>4, <2>2, <2>3, QuietKeeps
<1> QED
  BY <1>5, <1>6

\* The compensations keep a first payment right.
LEMMA CompensateFirst ==
  ASSUME FailuresAreReported, NEW o \in Orders, Given(o), Compensate(o)
  PROVE  FirstPayment(o)'
<1>1. PICK c \in MaybeCoupon : Payment(o, c)
  BY CouponOfPayment
<1>2. ASSUME NEW g \in OrderFailGroups,
             ReadForCancel(g, o) \/ WriteCancel(g, o) \/ CancelFails(g, o)
      PROVE  FirstPayment(o)'
  <2>1. ~CancelFails(g, o)
    BY DEF CancelFails, FailuresAreReported
  <2> QED
    BY <1>2, <2>1, ReadForCancelFirst, WriteCancelFirst
<1>3. \A g \in ProductFailGroups \cup CouponFailGroups :
        /\ g \in Groups
        /\ g \notin {DeductGroup, CompleteGroup, ExportGroup, RankGroup, DiscountGroup,
                     UseGroup, StockGroup, CouponGroup} \cup OrderFailGroups
  BY DEF ProductFailGroups, CouponFailGroups, Groups, DeductGroup, CompleteGroup, ExportGroup,
         RankGroup, DiscountGroup, UseGroup, StockGroup, CouponGroup, OrderFailGroups
<1>4. ASSUME NEW g \in ProductFailGroups \cup CouponFailGroups, queue[g][o] # <<>>,
             RowsStay(o), attempts' = attempts, store' = store, queue' = queue,
             NEW t, Goto(g, o, t)
      PROVE  FirstPayment(o)'
  <2>1. StoreStep(o, c)
    BY <1>1, <1>4, StoreStays
  <2> QED
    BY <1>1, <1>3, <1>4, <2>1, GoesKeeps
<1>5. ASSUME NEW g \in ProductFailGroups \cup CouponFailGroups, queue[g][o] # <<>>,
             RowsStay(o), attempts' = attempts, store' = store, Return(g, o, queue)
      PROVE  FirstPayment(o)'
  <2>1. StoreStep(o, c)
    BY <1>1, <1>5, StoreStays
  <2> QED
    BY <1>1, <1>3, <1>5, <2>1, ReturnsKeep
<1>6. ASSUME NEW g \in ProductFailGroups, RestoreItem(g, o) \/ StockRestored(g, o)
      PROVE  FirstPayment(o)'
  <2>1. /\ queue[g][o] # <<>> /\ RowsStay(o) /\ attempts' = attempts /\ store' = store
        /\ (queue' = queue /\ \E t : Goto(g, o, t)) \/ Return(g, o, queue)
    BY <1>6 DEF RestoreItem, StockRestored, ItemDone, At, RowsStay
  <2> QED
    BY <1>4, <1>5, <2>1
<1>7. ASSUME NEW g \in CouponFailGroups,
             SkipRelease(g, o) \/ ReleaseCheck(g, o) \/ ReleaseUse(g, o) \/ DeleteUserCoupon(g, o)
      PROVE  FirstPayment(o)'
  <2>1. /\ queue[g][o] # <<>> /\ RowsStay(o) /\ attempts' = attempts /\ store' = store
        /\ (queue' = queue /\ \E t : Goto(g, o, t)) \/ Return(g, o, queue)
    BY <1>7 DEF SkipRelease, ReleaseCheck, ReleaseUse, DeleteUserCoupon, Continue, At, RowsStay
  <2> QED
    BY <1>4, <1>5, <2>1
<1> QED
  BY <1>2, <1>6, <1>7 DEF Compensate

\* Where the one token of the payment may be
LEMMA TokenPlaces ==
  ASSUME NEW o \in Orders, Given(o), attempts'[o] = attempts[o]
  PROVE  /\ HandlerTokens(DiscountGroup, o) \in Nat /\ HandlerTokens(DeductGroup, o) \in Nat
         /\ Len(logs[o]) \in Nat /\ (logs[o] = <<>> <=> Len(logs[o]) = 0)
         /\ HandlerTokens(DiscountGroup, o) + HandlerTokens(DeductGroup, o) + Len(logs[o]) <= Tokens(o)
         /\ Tokens(o) \in 0..1
<1>1. /\ DiscountGroup = "order-processing-success" /\ DeductGroup = "user-order-payment"
      /\ DiscountGroup \in BusyGroups /\ DeductGroup \in BusyGroups
  BY DEF DiscountGroup, DeductGroup, BusyGroups
<1>2. /\ Waiting("product-order-processing", o) \in Nat
      /\ \A h \in BusyGroups : HandlerTokens(h, o) \in Nat
      /\ RequestToken(o) \in Nat /\ StoreToken(o) \in Nat /\ CouponToken(o) \in Nat
      /\ Deductions(o) \in Nat /\ Tokens(o) \in 0..1
  BY Counts
<1>3. /\ Asked(o) \in Nat
      /\ HandlerTokens(DiscountGroup, o) <= Joined(o) /\ Joined(o) \in Nat
      /\ Charged(o) = HandlerTokens(DeductGroup, o) + Deductions(o) /\ Charged(o) \in Nat
  BY <1>1, <1>2 DEF Asked, Joined, Charged, BusyGroups
<1>4. HandlerTokens(DiscountGroup, o) \in Nat /\ HandlerTokens(DeductGroup, o) \in Nat
  BY <1>1, <1>2
<1>5. Deductions(o) = Len(logs[o]) /\ (logs[o] = <<>> <=> Len(logs[o]) = 0)
  <2>1. logs[o] \in Seq(Nat \ {0})
    BY DEF Given, TypeOK
  <2> QED
    BY <2>1 DEF Deductions
<1> QED
  BY SMTT(40), <1>2, <1>3, <1>4, <1>5 DEF Tokens

\* The handlers of the discount and the balance hold a token until their last step.
LEMMA HandlerTokenIs ==
  ASSUME NEW o \in Orders, Given(o), NEW g \in {DiscountGroup, DeductGroup}
  PROVE  /\ LastStep(DiscountGroup) = "clear" /\ LastStep(DeductGroup) = "publish"
         /\ queue[g][o] # <<>> /\ task[g][o].pc # LastStep(g) => HandlerTokens(g, o) > 0
         /\ queue[g][o] # <<>> /\ HandlerTokens(g, o) = 0 => task[g][o].pc = LastStep(g)
<1>1. g \in Groups
  BY GroupsAre
<1>2. Waiting(g, o) \in Nat /\ (queue[g][o] # <<>> <=> Waiting(g, o) > 0)
  BY <1>1, WaitingType DEF Given
<1>3. task[g][o].pc # LastStep(g) => HandlerTokens(g, o) = Waiting(g, o)
  BY <1>2 DEF HandlerTokens, One
<1>4. LastStep(DiscountGroup) = "clear" /\ LastStep(DeductGroup) = "publish"
  BY DEF LastStep, DiscountGroup, DeductGroup
<1> QED
  BY <1>2, <1>3, <1>4

\* The handler of the discount is at work: nothing is asked of the balance.
LEMMA DiscountWorks ==
  ASSUME NEW o \in Orders, Given(o), attempts'[o] = attempts[o],
         queue[DiscountGroup][o] # <<>>, task[DiscountGroup][o].pc # "clear"
  PROVE  /\ logs[o] = <<>> /\ queue[DeductGroup][o] = <<>> /\ task[DeductGroup][o].pc = "idle"
         /\ queue[CompleteGroup][o] = <<>> /\ task[CompleteGroup][o].pc = "idle"
         /\ orders[o].status # "PAID" /\ ~CouponOut(o) /\ Tokens(o) = 1
<1>1. HandlerTokens(DiscountGroup, o) > 0 /\ LastStep(DeductGroup) = "publish"
  BY HandlerTokenIs
<1>2. /\ logs[o] = <<>> /\ HandlerTokens(DeductGroup, o) = 0 /\ Tokens(o) = 1
  BY <1>1, TokenPlaces
<1>3. /\ orders[o].status # "PAID" /\ queue[CompleteGroup][o] = <<>>
      /\ task[DeductGroup][o].pc # "publish"
  BY <1>2 DEF Given, Unpaid, DataUnpaid, QueuesUnpaid, TasksUnpaid, PaidGroups, CompleteGroup,
              DeductGroup
<1>4. queue[DeductGroup][o] = <<>>
  BY <1>1, <1>2, <1>3, HandlerTokenIs
<1>5. task[CompleteGroup][o].pc = "idle" /\ task[DeductGroup][o].pc = "idle"
  BY <1>3, <1>4, GroupsAre DEF Given, FirstPayment, Busy
<1> QED
  BY <1>2, <1>3, <1>4, <1>5 DEF CouponOut, JoinedUp

\* The order is read for its discount.
LEMMA ReadForPaymentFirst ==
  ASSUME NEW o \in Orders, Given(o), ReadForPayment(o)
  PROVE  FirstPayment(o)'
<1>1. PICK c \in MaybeCoupon : Payment(o, c)
  BY CouponOfPayment
<1> DEFINE g == DiscountGroup
           a == Received(g, o).applied
<1>2. /\ g \in Groups /\ g = "order-processing-success"
      /\ g \notin {DeductGroup, CompleteGroup, ExportGroup, RankGroup, UseGroup, StockGroup,
                   CouponGroup} \cup OrderFailGroups
  BY GroupsAre DEF DeductGroup, CompleteGroup, ExportGroup, RankGroup, DiscountGroup, UseGroup,
                   StockGroup, CouponGroup, OrderFailGroups
<1>3. /\ queue[g][o] # <<>> /\ task[g][o].pc = "idle" /\ RowsStay(o)
      /\ attempts' = attempts /\ store' = store
  BY <1>2 DEF ReadForPayment, At, RowsStay
<1>4. CASE orders[o].status # "PAYMENT_PROCESSING"
  <2>1. Return(g, o, queue)
    BY <1>2, <1>4 DEF ReadForPayment
  <2>2. StoreStep(o, c)
    BY <1>1, <1>3, StoreStays
  <2> QED
    BY <1>1, <1>2, <1>3, <2>1, <2>2, ReturnsKeep
<1>5. CASE orders[o].status = "PAYMENT_PROCESSING"
  <2>1. PICK t : /\ Goto(g, o, t) /\ queue' = queue
                 /\ \/ a = NoCoupon /\ t = Holding("publish", orders[o])
                    \/ a # NoCoupon /\ t = Holding("update", ApplyCoupon(orders[o], a))
    BY <1>2, <1>5 DEF ReadForPayment
  <2>2. a \in {NoCoupon, c}
    BY <1>1, <1>2, <1>3, ReceivedCarries DEF Carries
  <2>3. /\ t.pc \in {"update", "publish"}
        /\ t.pc = "update" => t.row = ApplyCoupon(orders[o], c)
        /\ t.pc = "publish" => t.row = orders[o]
    BY <2>1, <2>2 DEF Holding
  <2> HIDE DEF g, a
  <2>4. /\ Consumes(g, o) /\ TaskOf(g, o, t) /\ Shrinks(g, o) /\ queue'[g][o] # <<>>
        /\ \A h \in Groups \ {g} : queue'[h][o] = queue[h][o]
    BY <1>2, <1>3, <2>1, Goes
  <2>5. /\ \A h \in Groups \ {g} : task'[h][o] = task[h][o]
        /\ task'[g][o] = t /\ task'["client"][o] = task["client"][o]
        /\ \A h \in Groups : Shrinks(h, o)
    BY <1>2, <2>4, GroupsAre DEF TaskOf, Shrinks
  <2>6. TypeOK /\ Busy(o) /\ Completion(o) /\ Exports(o)
    BY DEF Given, FirstPayment
  <2>7. ~CouponOut(o)
    BY <1>3 DEF CouponOut, JoinedUp, g
  <2>8. /\ OneCoupon(o, c)' /\ CouponHalf(o, c)' /\ Failures(o, c)'
        /\ Dead(o, c) => Dead(o, c)'
    BY <1>1, <1>2, <1>3, <2>4, <2>5, <2>7, GroupsAre, HalvesKept
  <2>9. Statuses(o, c)'
    BY <1>1, <1>2, <1>3, <2>5, <2>8, GroupsAre, StatusesKept DEF Payment, RowsStay
  <2>10. Amounts(o, c)'
    <3>1. Messages(DeductGroup, o)' \subseteq Messages(DeductGroup, o)
      BY <2>5, <2>6, GroupsAre, ShrinksMessages
    <3> QED
      BY <1>1, <1>2, <1>3, <2>3, <2>5, <3>1, GroupsAre DEF Payment, Amounts, RowsStay, g
  <2>11. Completion(o)' /\ Exports(o)'
    BY <1>2, <1>3, <2>4, <2>5, <2>6, GroupsAre, CompletionKept, ExportsKept DEF RowsStay
  <2>12. Busy(o)' /\ ~Untouched(o)'
    BY <1>2, <2>4, <2>6, BusyStays, Works
  <2> QED
    BY <1>1, <2>8, <2>9, <2>10, <2>11, <2>12 DEF FirstPayment, Payment
<1> QED
  BY <1>4, <1>5

\* The discount is saved.
LEMMA WriteDiscountFirst ==
  ASSUME NEW o \in Orders, Given(o), WriteDiscount(o)
  PROVE  FirstPayment(o)'
<1>1. PICK c \in MaybeCoupon : Payment(o, c)
  BY CouponOfPayment
<1> DEFINE g == DiscountGroup
           t == [task[g][o] EXCEPT !.pc = "publish"]
<1>2. /\ g \in Groups /\ g = "order-processing-success"
      /\ g \notin {DeductGroup, CompleteGroup, ExportGroup, RankGroup, UseGroup, StockGroup,
                   CouponGroup} \cup OrderFailGroups
  BY GroupsAre DEF DeductGroup, CompleteGroup, ExportGroup, RankGroup, DiscountGroup, UseGroup,
                   StockGroup, CouponGroup, OrderFailGroups
<1>3. /\ queue[g][o] # <<>> /\ task[g][o].pc = "update" /\ attempts' = attempts
      /\ logs' = logs /\ exported' = exported /\ sales' = sales /\ store' = store
      /\ orders' = [orders EXCEPT ![o] = task[g][o].row]
      /\ Goto(g, o, t) /\ queue' = queue
  BY <1>2 DEF WriteDiscount, At, Continue
<1>4. TypeOK /\ Busy(o) /\ Completion(o) /\ Exports(o) /\ Statuses(o, c) /\ Amounts(o, c)
  BY <1>1 DEF Given, FirstPayment, Payment
<1>5. t.pc = "publish" /\ t.row = task[g][o].row
  <2>1. task[g][o] \in Task
    BY <1>2, <1>4, GroupsAre DEF TypeOK
  <2> QED
    BY <2>1 DEF Task
<1>6. /\ orders'[o] = t.row /\ orders'[o] = ApplyCoupon(orders[o], c)
      /\ orders'[o].status = orders[o].status
  <2>1. orders'[o] = task[g][o].row /\ orders[o] \in Row
    BY <1>3, <1>4 DEF TypeOK
  <2>2. orders'[o] = ApplyCoupon(orders[o], c)
    BY <1>3, <1>4, <2>1 DEF Amounts
  <2> QED
    BY <1>5, <2>1, <2>2 DEF ApplyCoupon, Row
<1>7. /\ logs[o] = <<>> /\ queue[DeductGroup][o] = <<>> /\ task[CompleteGroup][o].pc = "idle"
      /\ orders[o].status # "PAID" /\ ~CouponOut(o)
  BY <1>3, DiscountWorks
<1> HIDE DEF g, t
<1>8. /\ Consumes(g, o) /\ TaskOf(g, o, t) /\ Shrinks(g, o) /\ queue'[g][o] # <<>>
      /\ \A h \in Groups \ {g} : queue'[h][o] = queue[h][o]
  BY <1>2, <1>3, <1>4, Goes
<1>9. /\ \A h \in Groups \ {g} : task'[h][o] = task[h][o]
      /\ task'[g][o] = t /\ task'["client"][o] = task["client"][o]
      /\ \A h \in Groups : Shrinks(h, o)
  BY <1>2, <1>8, GroupsAre DEF TaskOf, Shrinks
<1>10. /\ OneCoupon(o, c)' /\ CouponHalf(o, c)' /\ Failures(o, c)'
       /\ Dead(o, c) => Dead(o, c)'
  BY <1>1, <1>2, <1>3, <1>7, <1>8, <1>9, GroupsAre, HalvesKept
<1>11. Statuses(o, c)'
  BY <1>2, <1>4, <1>6, <1>9, <1>10, GroupsAre, StatusesKept
<1>12. Amounts(o, c)'
  <2>1. Messages(DeductGroup, o)' = {}
    <3>1. queue'[DeductGroup][o] = <<>>
      BY <1>3, <1>7
    <3> QED
      BY <3>1 DEF Messages
  <2> QED
    BY <1>3, <1>5, <1>6, <1>7, <1>9, <2>1 DEF Amounts, g
<1>13. Completion(o)'
  BY <1>2, <1>3, <1>6, <1>7, <1>9, GroupsAre DEF Completion
<1>14. Exports(o)'
  BY <1>2, <1>3, <1>4, <1>6, <1>8, <1>9, GroupsAre, ExportsKept
<1>15. Busy(o)' /\ ~Untouched(o)'
  BY <1>2, <1>4, <1>8, BusyStays, Works
<1> QED
  BY <1>1, <1>10, <1>11, <1>12, <1>13, <1>14, <1>15 DEF FirstPayment, Payment

\* The balance is asked for the final amount.
LEMMA PublishPaymentFirst ==
  ASSUME NEW o \in Orders, Given(o), PublishPayment(o)
  PROVE  FirstPayment(o)'
<1>1. PICK c \in MaybeCoupon : Payment(o, c)
  BY CouponOfPayment
<1> DEFINE g == DiscountGroup
           t == [Idle EXCEPT !.pc = "clear"]
           m == [Msg(Received(g, o).coupon) EXCEPT !.amount = AmountDue(o)]
<1>2. /\ g \in Groups /\ g = "order-processing-success"
      /\ g \notin {DeductGroup, CompleteGroup, ExportGroup, RankGroup, UseGroup, StockGroup,
                   CouponGroup} \cup OrderFailGroups
  BY GroupsAre DEF DeductGroup, CompleteGroup, ExportGroup, RankGroup, DiscountGroup, UseGroup,
                   StockGroup, CouponGroup, OrderFailGroups
<1>3. /\ queue[g][o] # <<>> /\ task[g][o].pc = "publish" /\ RowsStay(o)
      /\ attempts' = attempts /\ store' = store
      /\ Goto(g, o, t) /\ queue' = Published("order.payment", o, m)
  BY <1>2 DEF PublishPayment, At, RowsStay
<1>4. TypeOK /\ Busy(o) /\ Completion(o) /\ Exports(o) /\ Statuses(o, c) /\ Amounts(o, c)
  BY <1>1 DEF Given, FirstPayment, Payment
<1>5. t.pc = "clear"
  BY ClearTask
<1>6. m \in Message /\ Carries(m, c) /\ m.amount = FinalAmount(TotalAmount[o], orders[o])
  <2>1. task[g][o].row = orders[o]
    BY <1>3, <1>4 DEF Amounts
  <2>2. AmountDue(o) = FinalAmount(TotalAmount[o], orders[o])
    BY <1>2, <2>1 DEF AmountDue
  <2>3. orders[o] \in Row /\ TotalAmount[o] \in Nat
    BY <1>4, SagaAssumption DEF TypeOK
  <2>4. AmountDue(o) \in Int
    BY <2>2, <2>3, FinalAmountType
  <2>5. Received(g, o).coupon = c /\ NoCoupon \in MaybeCoupon
    BY <1>1, <1>2, <1>3, ReceivedCarries DEF Carries, MaybeCoupon
  <2>6. m = [coupon |-> c, applied |-> NoCoupon, amount |-> AmountDue(o), by |-> "none"]
    BY <2>5 DEF Msg
  <2> HIDE DEF m, g
  <2> QED
    BY <2>2, <2>4, <2>5, <2>6 DEF Message, Carries
<1>7. /\ logs[o] = <<>> /\ queue[DeductGroup][o] = <<>> /\ ~CouponOut(o)
  BY <1>3, DiscountWorks
<1>8. /\ Subscribers("order.payment") = {DeductGroup}
      /\ DeductGroup \notin {UseGroup, CouponGroup, CompleteGroup, ExportGroup, RankGroup}
                              \cup ProcessingFailGroups \cup PaymentFailGroups
  BY DEF Subscribers, DeductGroup, UseGroup, CouponGroup, ProcessingFailGroups, PaymentFailGroups,
         CompleteGroup, ExportGroup, RankGroup
<1> HIDE DEF g, t, m
<1>9. Sent(o, "order.payment", m) /\ TaskOf(g, o, t)
  BY <1>2, <1>3, <1>4, FirstSend, GotoTask, GroupsAre
<1>10. /\ queue'[DeductGroup][o] = Append(queue[DeductGroup][o], m)
       /\ \A h \in Groups \ {DeductGroup} : queue'[h][o] = queue[h][o]
  BY <1>8, <1>9, GroupsAre DEF Sent
<1>11. /\ \A h \in Groups \ {g} : task'[h][o] = task[h][o]
       /\ task'[g][o] = t /\ task'["client"][o] = task["client"][o]
       /\ Consumes(g, o) /\ queue'[g][o] # <<>>
       /\ \A h \in Groups : Shrinks(h, o) \/ Grows(h, o, c)
       /\ \A h \in Groups \ {DeductGroup} : Shrinks(h, o)
  BY <1>2, <1>3, <1>6, <1>9, <1>10, GroupsAre DEF TaskOf, Shrinks, Grows, Consumes
<1>12. /\ OneCoupon(o, c)' /\ CouponHalf(o, c)' /\ Failures(o, c)'
       /\ Dead(o, c) => Dead(o, c)'
  BY <1>1, <1>2, <1>3, <1>7, <1>8, <1>11, GroupsAre, HalvesKept
<1>13. Statuses(o, c)'
  BY <1>2, <1>3, <1>4, <1>11, <1>12, GroupsAre, StatusesKept DEF RowsStay
<1>14. Amounts(o, c)'
  <2>1. Messages(DeductGroup, o)' = {m}
    <3>1. Messages(DeductGroup, o) = {}
      BY <1>7 DEF Messages
    <3>2. Messages(DeductGroup, o)' = Messages(DeductGroup, o) \cup {m}
      BY <1>4, <1>6, <1>10, GroupsAre, MessagesSent
    <3> QED
      BY <3>1, <3>2
  <2> QED
    BY <1>3, <1>5, <1>6, <1>7, <1>11, <2>1 DEF Amounts, RowsStay, g
<1>15. Completion(o)' /\ Exports(o)'
  BY <1>2, <1>3, <1>4, <1>8, <1>10, <1>11, GroupsAre, CompletionKept, ExportsKept DEF RowsStay
<1>16. Busy(o)' /\ ~Untouched(o)'
  <2>1. \A h \in Groups \ {g} :
          queue'[h][o] = queue[h][o] \/ \E n \in Message : queue'[h][o] = Append(queue[h][o], n)
    BY <1>6, <1>10
  <2> QED
    BY <1>2, <1>4, <1>9, <1>11, <2>1, BusyStays, Works
<1> QED
  BY <1>1, <1>12, <1>13, <1>14, <1>15, <1>16 DEF FirstPayment, Payment
-----------------------------------------------------------------------------
(***************************************************************************)
(* The completion of a payment.                                            *)
(***************************************************************************)
\* Once the balance is debited, the rest is on its way.
LEMMA PaidFor ==
  ASSUME NEW o \in Orders, Given(o), attempts'[o] = attempts[o], logs[o] # <<>>
  PROVE  /\ ~CouponOut(o) /\ Tokens(o) = 1
         /\ task[DiscountGroup][o].pc \notin {"update", "publish"}
         /\ \A c \in MaybeCoupon : ~Dead(o, c)
<1>1. HandlerTokens(DiscountGroup, o) = 0 /\ Tokens(o) = 1
  BY TokenPlaces
<1>2. ~CouponOut(o)
  BY DEF CouponOut, JoinedUp
<1>3. \A c \in MaybeCoupon : ~Dead(o, c)
  BY DeadIsOut
<1>4. task[DiscountGroup][o].pc \notin {"update", "publish"}
  <2>1. task[DiscountGroup][o].pc # "idle" => queue[DiscountGroup][o] # <<>>
    BY GroupsAre DEF Given, FirstPayment, Busy
  <2> QED
    BY <1>1, <2>1, HandlerTokenIs
<1> QED
  BY <1>1, <1>2, <1>3, <1>4

\* Its success or its end was told: it was debited.
LEMMA TellsPaid ==
  ASSUME NEW o \in Orders, Given(o),
         \/ \E g \in {CompleteGroup, ExportGroup, RankGroup} : queue[g][o] # <<>>
         \/ task[DeductGroup][o].pc = "publish"
  PROVE  logs[o] # <<>>
  BY DEF Given, Unpaid, QueuesUnpaid, TasksUnpaid, PaidGroups, CompleteGroup, ExportGroup, RankGroup,
         DeductGroup

\* The order is read for its completion.
LEMMA ReadForCompletionFirst ==
  ASSUME NEW o \in Orders, Given(o), ReadForCompletion(o)
  PROVE  FirstPayment(o)'
<1>1. PICK c \in MaybeCoupon : Payment(o, c)
  BY CouponOfPayment
<1> DEFINE g == CompleteGroup
           t == Holding("update", CompletePayment(orders[o]))
<1>2. /\ g \in Groups /\ g = "order-payment-success"
      /\ g \notin {DeductGroup, DiscountGroup, ExportGroup, RankGroup, UseGroup, StockGroup,
                   CouponGroup} \cup OrderFailGroups
  BY GroupsAre DEF DeductGroup, CompleteGroup, ExportGroup, RankGroup, DiscountGroup, UseGroup,
                   StockGroup, CouponGroup, OrderFailGroups
<1>3. /\ queue[g][o] # <<>> /\ task[g][o].pc = "idle" /\ RowsStay(o)
      /\ attempts' = attempts /\ store' = store
  BY <1>2 DEF ReadForCompletion, At, RowsStay
<1>4. TypeOK /\ Busy(o) /\ Completion(o) /\ Exports(o) /\ Statuses(o, c) /\ Amounts(o, c)
  BY <1>1 DEF Given, FirstPayment, Payment
<1>5. logs[o] # <<>>
  BY <1>3, TellsPaid
<1>6. /\ ~CouponOut(o) /\ ~Dead(o, c) /\ task[DiscountGroup][o].pc \notin {"update", "publish"}
  BY <1>3, <1>5, PaidFor
<1>7. orders[o].status # "PAID"
  BY <1>3, <1>4 DEF Completion
<1>8. task["client"][o].pc = "idle" /\ ~Untouched(o)' /\ Consumes(g, o)
  <2>1. task'["client"][o] = task["client"][o]
    <3>1. \E u : Goto(g, o, u)
      BY <1>2 DEF ReadForCompletion, Continue, Return
    <3> HIDE DEF g
    <3>2. \E u : TaskOf(g, o, u)
      BY <1>2, <1>4, <3>1, GotoTask, GroupsAre
    <3> QED
      BY <1>2, <3>2, GroupsAre DEF TaskOf
  <2>2. Consumes(g, o)
    BY <1>2, <1>3, <2>1 DEF Consumes
  <2> QED
    BY <2>2, Works
<1>9. orders[o].status = "PAYMENT_PROCESSING"
  BY <1>4, <1>6, <1>7, <1>8 DEF Statuses
<1>10. Goto(g, o, t) /\ queue' = queue
  BY <1>2, <1>7, <1>9 DEF ReadForCompletion, CanComplete
<1>11. t.pc = "update" /\ t.row = CompletePayment(orders[o])
  BY DEF Holding
<1> HIDE DEF g, t
<1>12. /\ TaskOf(g, o, t) /\ Shrinks(g, o) /\ queue'[g][o] # <<>>
       /\ \A h \in Groups \ {g} : queue'[h][o] = queue[h][o]
  BY <1>2, <1>3, <1>10, Goes
<1>13. /\ \A h \in Groups \ {g} : task'[h][o] = task[h][o]
       /\ task'[g][o] = t /\ task'["client"][o] = task["client"][o]
       /\ \A h \in Groups : Shrinks(h, o)
  BY <1>2, <1>12, GroupsAre DEF TaskOf, Shrinks
<1>14. /\ OneCoupon(o, c)' /\ CouponHalf(o, c)' /\ Failures(o, c)'
       /\ Dead(o, c) => Dead(o, c)'
  BY <1>1, <1>2, <1>3, <1>6, <1>8, <1>13, GroupsAre, HalvesKept
<1>15. Statuses(o, c)'
  BY <1>2, <1>3, <1>4, <1>13, <1>14, GroupsAre, StatusesKept DEF RowsStay
<1>16. Amounts(o, c)'
  BY <1>2, <1>3, <1>4, <1>13, GroupsAre, AmountsKept DEF RowsStay
<1>17. Completion(o)'
  <2>1. /\ task[DeductGroup][o].pc # "publish" /\ Len(queue[g][o]) = 1
    BY <1>3, <1>4, <1>5, <1>7 DEF Completion, g
  <2> QED
    BY <1>2, <1>3, <1>7, <1>10, <1>11, <1>13, <2>1, GroupsAre DEF Completion, RowsStay, g
<1>18. Exports(o)'
  <2>1. ~Told(o) /\ ~Told(o)'
    BY <1>3, <1>7 DEF Told, RowsStay
  <2> QED
    BY <1>2, <1>3, <1>4, <1>12, <2>1, GroupsAre, ExportsUntold DEF RowsStay
<1>19. Busy(o)'
  BY <1>2, <1>4, <1>12, BusyStays
<1> QED
  BY <1>1, <1>8, <1>14, <1>15, <1>16, <1>17, <1>18, <1>19 DEF FirstPayment, Payment

\* PAID is saved.
LEMMA WritePaidFirst ==
  ASSUME NEW o \in Orders, Given(o), WritePaid(o)
  PROVE  FirstPayment(o)'
<1>1. PICK c \in MaybeCoupon : Payment(o, c)
  BY CouponOfPayment
<1> DEFINE g == CompleteGroup
           t == [Idle EXCEPT !.pc = "publish"]
<1>2. /\ g \in Groups /\ g = "order-payment-success"
      /\ g \notin {DeductGroup, DiscountGroup, ExportGroup, RankGroup, UseGroup, StockGroup,
                   CouponGroup} \cup OrderFailGroups
  BY GroupsAre DEF DeductGroup, CompleteGroup, ExportGroup, RankGroup, DiscountGroup, UseGroup,
                   StockGroup, CouponGroup, OrderFailGroups
<1>3. /\ queue[g][o] # <<>> /\ task[g][o].pc = "update" /\ attempts' = attempts
      /\ logs' = logs /\ exported' = exported /\ sales' = sales /\ store' = store
      /\ orders' = [orders EXCEPT ![o] = task[g][o].row]
      /\ Goto(g, o, t) /\ queue' = queue
  BY <1>2 DEF WritePaid, At
<1>4. TypeOK /\ Busy(o) /\ Completion(o) /\ Exports(o) /\ Statuses(o, c) /\ Amounts(o, c)
  BY <1>1 DEF Given, FirstPayment, Payment
<1>5. t.pc = "publish"
  BY DEF Idle
<1>6. orders'[o] = CompletePayment(orders[o])
  <2>1. orders'[o] = task[g][o].row
    BY <1>3, <1>4 DEF TypeOK
  <2> QED
    BY <1>3, <1>4, <2>1 DEF Completion
<1>7. orders'[o].status = "PAID" /\ orders'[o].coupon = orders[o].coupon
  <2>1. orders[o] \in Row
    BY <1>4 DEF TypeOK
  <2> QED
    BY <1>6, <2>1 DEF CompletePayment, Row
<1>8. FinalAmount(TotalAmount[o], orders'[o]) = FinalAmount(TotalAmount[o], orders[o])
  BY <1>7 DEF FinalAmount
<1>9. logs[o] # <<>>
  BY <1>3, TellsPaid
<1>10. /\ ~CouponOut(o) /\ task[DiscountGroup][o].pc \notin {"update", "publish"}
  BY <1>3, <1>9, PaidFor
<1>11. /\ orders[o].status # "PAID" /\ task[DeductGroup][o].pc # "publish" /\ Len(queue[g][o]) = 1
  BY <1>3, <1>4, <1>9 DEF Completion
<1> HIDE DEF g, t
<1>12. /\ Consumes(g, o) /\ TaskOf(g, o, t) /\ Shrinks(g, o) /\ queue'[g][o] # <<>>
       /\ \A h \in Groups \ {g} : queue'[h][o] = queue[h][o]
  BY <1>2, <1>3, Goes
<1>13. /\ \A h \in Groups \ {g} : task'[h][o] = task[h][o]
       /\ task'[g][o] = t /\ task'["client"][o] = task["client"][o]
       /\ \A h \in Groups : Shrinks(h, o)
  BY <1>2, <1>12, GroupsAre DEF TaskOf, Shrinks
<1>14. /\ OneCoupon(o, c)' /\ CouponHalf(o, c)' /\ Failures(o, c)'
       /\ Dead(o, c) => Dead(o, c)'
  BY <1>1, <1>2, <1>3, <1>10, <1>12, <1>13, GroupsAre, HalvesKept
<1>15. Statuses(o, c)'
  BY <1>2, <1>4, <1>7, <1>13, <1>14, GroupsAre DEF Statuses
<1>16. Amounts(o, c)'
  <2>1. Messages(DeductGroup, o)' \subseteq Messages(DeductGroup, o)
    BY <1>4, <1>13, GroupsAre, ShrinksMessages
  <2> QED
    BY <1>2, <1>3, <1>4, <1>8, <1>10, <1>13, <2>1, GroupsAre DEF Amounts
<1>17. Completion(o)'
  BY <1>2, <1>3, <1>5, <1>7, <1>11, <1>13, GroupsAre DEF Completion, g
<1>18. Exports(o)'
  <2>1. ~Told(o) /\ ~Told(o)'
    BY <1>5, <1>11, <1>13 DEF Told, g
  <2> QED
    BY <1>2, <1>3, <1>4, <1>12, <2>1, GroupsAre, ExportsUntold
<1>19. Busy(o)' /\ ~Untouched(o)'
  BY <1>2, <1>4, <1>12, BusyStays, Works
<1> QED
  BY <1>1, <1>14, <1>15, <1>16, <1>17, <1>18, <1>19 DEF FirstPayment, Payment

\* The paid order is told of.
LEMMA PublishProcessedFirst ==
  ASSUME NEW o \in Orders, Given(o), PublishProcessed(o)
  PROVE  FirstPayment(o)'
<1>1. PICK c \in MaybeCoupon : Payment(o, c)
  BY CouponOfPayment
<1> DEFINE g == CompleteGroup
           m == Msg(Received(g, o).coupon)
           topic == "order.processed"
<1>2. /\ g \in Groups /\ g = "order-payment-success"
      /\ g \notin {DeductGroup, DiscountGroup, ExportGroup, RankGroup, UseGroup, StockGroup,
                   CouponGroup} \cup OrderFailGroups
  BY GroupsAre DEF DeductGroup, CompleteGroup, ExportGroup, RankGroup, DiscountGroup, UseGroup,
                   StockGroup, CouponGroup, OrderFailGroups
<1>3. /\ queue[g][o] # <<>> /\ task[g][o].pc = "publish" /\ RowsStay(o)
      /\ attempts' = attempts /\ store' = store
      /\ Return(g, o, Published(topic, o, m))
  BY <1>2 DEF PublishProcessed, At, RowsStay
<1>4. TypeOK /\ Busy(o) /\ Completion(o) /\ Exports(o) /\ Statuses(o, c) /\ Amounts(o, c)
  BY <1>1 DEF Given, FirstPayment, Payment
<1>5. m \in Message /\ Carries(m, c)
  BY <1>1, <1>2, <1>3, ReceivedCarries, MsgCarries
<1>6. logs[o] # <<>>
  BY <1>3, TellsPaid
<1>7. ~CouponOut(o) /\ task[DiscountGroup][o].pc \notin {"update", "publish"}
  BY <1>3, <1>6, PaidFor
<1>8. orders[o].status = "PAID" /\ task[DeductGroup][o].pc # "publish" /\ Len(queue[g][o]) = 1
  BY <1>3, <1>4, <1>6 DEF Completion
<1>9. /\ Subscribers(topic) = {ExportGroup, RankGroup} /\ ExportGroup # RankGroup
      /\ {ExportGroup, RankGroup} \cap ({UseGroup, StockGroup, CouponGroup, DiscountGroup,
              DeductGroup} \cup ProcessingFailGroups \cup PaymentFailGroups) = {}
  BY DEF Subscribers, DeductGroup, UseGroup, StockGroup, CouponGroup, DiscountGroup,
         ProcessingFailGroups, PaymentFailGroups, ExportGroup, RankGroup
<1> HIDE DEF g, m, topic
<1>10. g \notin Subscribers(topic)
  BY <1>2, <1>9
<1>11. /\ Consumes(g, o) /\ TaskOf(g, o, Idle) /\ Shrinks(g, o)
       /\ queue'[g][o] = Tail(queue[g][o])
       /\ \A h \in Groups \ {g} : queue'[h][o] = IF h \in Subscribers(topic)
                                                 THEN Append(queue[h][o], m) ELSE queue[h][o]
  BY <1>2, <1>3, <1>10, Answers
<1>12. /\ \A h \in Groups \ {g} : task'[h][o] = task[h][o]
       /\ task'[g][o].pc = "idle" /\ task'["client"][o] = task["client"][o]
       /\ \A h \in Groups : Shrinks(h, o) \/ Grows(h, o, c)
       /\ \A h \in Groups \ {ExportGroup, RankGroup} : Shrinks(h, o)
       /\ queue'[ExportGroup][o] = Append(queue[ExportGroup][o], m)
       /\ queue'[RankGroup][o] = Append(queue[RankGroup][o], m)
  BY <1>2, <1>5, <1>9, <1>11, GroupsAre, ClearTask DEF TaskOf, Shrinks, Grows
<1>13. /\ OneCoupon(o, c)' /\ CouponHalf(o, c)' /\ Failures(o, c)'
       /\ Dead(o, c) => Dead(o, c)'
  BY <1>1, <1>2, <1>3, <1>7, <1>9, <1>11, <1>12, GroupsAre, HalvesKept
<1>14. Statuses(o, c)'
  BY <1>2, <1>3, <1>4, <1>12, <1>13, GroupsAre, StatusesKept DEF RowsStay
<1>15. Amounts(o, c)'
  BY <1>2, <1>3, <1>4, <1>9, <1>12, GroupsAre, AmountsKept DEF RowsStay
<1>16. queue'[g][o] = <<>>
  <2>1. Len(queue'[g][o]) = 0
    BY <1>2, <1>3, <1>4, <1>8, <1>11, MessagesTook
  <2>2. queue'[g][o] \in Seq(Message)
    BY <1>2 DEF Given, TypeOK
  <2> QED
    BY <2>1, <2>2
<1>17. Completion(o)'
  BY <1>2, <1>3, <1>8, <1>12, <1>16, GroupsAre DEF Completion, RowsStay, g
<1>18. Exports(o)'
  <2>1. ~Told(o) /\ Told(o)'
    BY <1>3, <1>8, <1>12 DEF Told, RowsStay, g
  <2>2. queue'[ExportGroup][o] # <<>> /\ Len(queue'[RankGroup][o]) = Len(queue[RankGroup][o]) + 1
    BY <1>4, <1>5, <1>12, GroupsAre, MessagesSent
  <2>3. sales[o] + Len(queue[RankGroup][o]) = 0
    BY <1>4, <2>1 DEF Exports, One
  <2>4. sales'[o] + Len(queue'[RankGroup][o]) = 1
    <3>1. sales[o] \in Nat /\ Len(queue[RankGroup][o]) \in Nat
      BY <1>4, GroupsAre, MessagesAre DEF TypeOK
    <3> QED
      BY <1>3, <2>2, <2>3, <3>1 DEF RowsStay
  <2>5. One(Told(o)') = 1
    BY <2>1 DEF One
  <2>6. exported'[o] \/ queue'[ExportGroup][o] # <<>> <=> Told(o)'
    BY <2>1, <2>2
  <2> QED
    BY <2>4, <2>5, <2>6 DEF Exports
<1>19. Busy(o)' /\ ~Untouched(o)'
  <2>1. \A h \in Groups \ {g} :
          queue'[h][o] = queue[h][o] \/ \E n \in Message : queue'[h][o] = Append(queue[h][o], n)
    BY <1>5, <1>11
  <2> QED
    BY <1>2, <1>4, <1>11, <2>1, BusyStays, ClearTask, Works
<1> QED
  BY <1>1, <1>13, <1>14, <1>15, <1>17, <1>18, <1>19 DEF FirstPayment, Payment

\* The order's handlers keep a first payment right.
LEMMA OrderFirst ==
  ASSUME NEW o \in Orders, Given(o), ProcessOrder(o)
  PROVE  FirstPayment(o)'
  BY ReadForPaymentFirst, WriteDiscountFirst, PublishPaymentFirst, ReadForCompletionFirst,
     WritePaidFirst, PublishProcessedFirst
  DEF ProcessOrder

\* What the two steps after the payment have in common
LEMMA FinishKeeps ==
  ASSUME NEW o \in Orders, Given(o), NEW g \in {ExportGroup, RankGroup}, queue[g][o] # <<>>,
         Return(g, o, queue), attempts' = attempts, orders' = orders, logs' = logs, store' = store,
         Exports(o)'
  PROVE  FirstPayment(o)'
<1>1. PICK c \in MaybeCoupon : Payment(o, c)
  BY CouponOfPayment
<1>2. /\ g \in Groups
      /\ g \notin {DeductGroup, DiscountGroup, CompleteGroup, UseGroup, StockGroup,
                   CouponGroup} \cup OrderFailGroups
  BY GroupsAre DEF DeductGroup, CompleteGroup, ExportGroup, RankGroup, DiscountGroup, UseGroup,
                   StockGroup, CouponGroup, OrderFailGroups
<1>3. TypeOK /\ Busy(o) /\ Completion(o) /\ Statuses(o, c) /\ Amounts(o, c)
  BY <1>1 DEF Given, FirstPayment, Payment
<1>4. ~CouponOut(o)
  BY TellsPaid, PaidFor
<1>5. /\ Consumes(g, o) /\ TaskOf(g, o, Idle) /\ Shrinks(g, o)
      /\ \A h \in Groups \ {g} : queue'[h][o] = queue[h][o]
  BY <1>2, Returns
<1>6. /\ \A h \in Groups \ {g} : task'[h][o] = task[h][o]
      /\ task'["client"][o] = task["client"][o]
      /\ \A h \in Groups : Shrinks(h, o)
  BY <1>2, <1>5, GroupsAre DEF TaskOf, Shrinks
<1>7. /\ OneCoupon(o, c)' /\ CouponHalf(o, c)' /\ Failures(o, c)'
      /\ Dead(o, c) => Dead(o, c)'
  BY <1>1, <1>2, <1>4, <1>5, <1>6, GroupsAre, HalvesKept
<1>8. Statuses(o, c)'
  BY <1>2, <1>3, <1>6, <1>7, GroupsAre, StatusesKept
<1>9. Amounts(o, c)'
  BY <1>2, <1>3, <1>6, GroupsAre, AmountsKept
<1>10. Completion(o)'
  BY <1>2, <1>3, <1>5, <1>6, GroupsAre, CompletionKept
<1>11. Busy(o)' /\ ~Untouched(o)'
  BY <1>2, <1>3, <1>5, BusyStays, ClearTask, Works
<1> QED
  BY <1>1, <1>7, <1>8, <1>9, <1>10, <1>11 DEF FirstPayment, Payment

\* Export and ranking keep a first payment right.
LEMMA FinishFirst ==
  ASSUME NEW o \in Orders, Given(o), Finish(o)
  PROVE  FirstPayment(o)'
<1>0. TypeOK /\ Exports(o)
  BY DEF Given, FirstPayment
<1>1. CASE ExportOrder(o)
  <2>1. /\ ExportGroup = "external-platform-redis-group" /\ ExportGroup \in Groups
        /\ RankGroup \in Groups /\ RankGroup # ExportGroup
        /\ CompleteGroup \in Groups /\ CompleteGroup # ExportGroup
    BY GroupsAre DEF ExportGroup, RankGroup, CompleteGroup
  <2>2. /\ queue[ExportGroup][o] # <<>> /\ Return(ExportGroup, o, queue) /\ attempts' = attempts
        /\ orders' = orders /\ logs' = logs /\ store' = store /\ sales' = sales
        /\ exported' = [exported EXCEPT ![o] = TRUE]
    BY <1>1, <2>1 DEF ExportOrder, At
  <2>3. exported'[o]
    BY <1>0, <2>2 DEF TypeOK
  <2>4. /\ TaskOf(ExportGroup, o, Idle)
        /\ \A h \in Groups \ {ExportGroup} : queue'[h][o] = queue[h][o]
    BY <2>1, <2>2, Returns
  <2>5. Told(o) /\ Told(o)'
    <3>1. Told(o)
      BY <1>0, <2>2 DEF Exports
    <3>2. task'[CompleteGroup][o] = task[CompleteGroup][o]
      BY <2>1, <2>4, GroupsAre DEF TaskOf
    <3> QED
      BY <2>2, <3>1, <3>2 DEF Told
  <2>6. exported'[o] \/ queue'[ExportGroup][o] # <<>> <=> Told(o)'
    BY <2>3, <2>5
  <2>7. sales'[o] + Len(queue'[RankGroup][o]) = One(Told(o)')
    BY <1>0, <2>1, <2>2, <2>4, <2>5 DEF Exports, One
  <2> QED
    BY <2>2, <2>6, <2>7, FinishKeeps DEF Exports
<1>2. CASE RecordSales(o)
  <2>1. /\ RankGroup = "product-order-processed" /\ RankGroup \in Groups
        /\ ExportGroup \in Groups /\ ExportGroup # RankGroup
        /\ CompleteGroup \in Groups /\ CompleteGroup # RankGroup
    BY GroupsAre DEF ExportGroup, RankGroup, CompleteGroup
  <2>2. /\ queue[RankGroup][o] # <<>> /\ Return(RankGroup, o, queue) /\ attempts' = attempts
        /\ orders' = orders /\ logs' = logs /\ store' = store /\ exported' = exported
        /\ sales' = [sales EXCEPT ![o] = @ + 1]
    BY <1>2, <2>1 DEF RecordSales, At
  <2>3. sales[o] \in Nat /\ sales'[o] = sales[o] + 1
    BY <1>0, <2>2 DEF TypeOK
  <2>4. /\ TaskOf(RankGroup, o, Idle) /\ queue'[RankGroup][o] = Tail(queue[RankGroup][o])
        /\ \A h \in Groups \ {RankGroup} : queue'[h][o] = queue[h][o]
    BY <2>1, <2>2, Returns DEF Took
  <2>5. /\ Len(queue'[RankGroup][o]) = Len(queue[RankGroup][o]) - 1
        /\ Len(queue[RankGroup][o]) \in Nat
    BY <1>0, <2>1, <2>2, <2>4, MessagesTook, MessagesAre
  <2>6. Told(o)' <=> Told(o)
    <3>1. task'[CompleteGroup][o] = task[CompleteGroup][o]
      BY <2>1, <2>4, GroupsAre DEF TaskOf
    <3> QED
      BY <2>2, <3>1 DEF Told
  <2>7. exported'[o] \/ queue'[ExportGroup][o] # <<>> <=> Told(o)'
    BY <1>0, <2>1, <2>2, <2>4, <2>6 DEF Exports
  <2>8. sales'[o] + Len(queue'[RankGroup][o]) = One(Told(o)')
    <3>1. sales[o] + Len(queue[RankGroup][o]) = One(Told(o)')
      BY <1>0, <2>6 DEF Exports, One
    <3>2. sales'[o] + Len(queue'[RankGroup][o]) = sales[o] + Len(queue[RankGroup][o])
      BY SMTT(40), <2>3, <2>5
    <3> QED
      BY <3>1, <3>2
  <2> QED
    BY <2>2, <2>7, <2>8, FinishKeeps DEF Exports
<1> QED
  BY <1>1, <1>2 DEF Finish
-----------------------------------------------------------------------------
(***************************************************************************)
(* The balance.                                                            *)
(***************************************************************************)
\* A request for money that is not answered: nothing is deducted yet.
LEMMA DeductWorks ==
  ASSUME NEW o \in Orders, Given(o), attempts'[o] = attempts[o],
         queue[DeductGroup][o] # <<>>, task[DeductGroup][o].pc = "idle"
  PROVE  /\ logs[o] = <<>> /\ orders[o].status # "PAID" /\ ~CouponOut(o) /\ Tokens(o) = 1
         /\ HandlerTokens(DeductGroup, o) = 1
         /\ queue[CompleteGroup][o] = <<>> /\ task[CompleteGroup][o].pc = "idle"
         /\ task[DiscountGroup][o].pc \notin {"update", "publish"}
<1>1. HandlerTokens(DeductGroup, o) > 0
  BY HandlerTokenIs
<1>2. /\ logs[o] = <<>> /\ HandlerTokens(DiscountGroup, o) = 0 /\ Tokens(o) = 1
      /\ HandlerTokens(DeductGroup, o) = 1
  BY <1>1, TokenPlaces
<1>3. orders[o].status # "PAID" /\ queue[CompleteGroup][o] = <<>>
  BY <1>2 DEF Given, Unpaid, DataUnpaid, QueuesUnpaid, PaidGroups, CompleteGroup
<1>4. /\ task[CompleteGroup][o].pc = "idle"
      /\ task[DiscountGroup][o].pc # "idle" => queue[DiscountGroup][o] # <<>>
  BY <1>3, GroupsAre DEF Given, FirstPayment, Busy
<1>5. task[DiscountGroup][o].pc \notin {"update", "publish"}
  BY <1>2, <1>4, HandlerTokenIs
<1> QED
  BY <1>2, <1>3, <1>4, <1>5 DEF CouponOut, JoinedUp

\* The final amount is deducted, or refused.
LEMMA DeductBalanceFirst ==
  ASSUME NEW o \in Orders, Given(o), DeductBalance(o)
  PROVE  FirstPayment(o)'
<1>1. PICK c \in MaybeCoupon : Payment(o, c)
  BY CouponOfPayment
<1> DEFINE g == DeductGroup
           t == [task[g][o] EXCEPT !.pc = "publish"]
           a == Received(g, o).amount
<1>2. /\ g \in Groups /\ g = "user-order-payment"
      /\ g \notin {CompleteGroup, DiscountGroup, ExportGroup, RankGroup, UseGroup, StockGroup,
                   CouponGroup} \cup OrderFailGroups
  BY GroupsAre DEF DeductGroup, CompleteGroup, ExportGroup, RankGroup, DiscountGroup, UseGroup,
                   StockGroup, CouponGroup, OrderFailGroups
<1>3. /\ queue[g][o] # <<>> /\ task[g][o].pc = "idle" /\ attempts' = attempts
      /\ orders' = orders /\ exported' = exported /\ sales' = sales /\ store' = store
      /\ logs' = [logs EXCEPT ![o] = Append(@, a)]
      /\ Goto(g, o, t) /\ queue' = queue
  BY <1>2 DEF DeductBalance, At, Continue
<1>4. TypeOK /\ Busy(o) /\ Exports(o) /\ Statuses(o, c) /\ Amounts(o, c)
  BY <1>1 DEF Given, FirstPayment, Payment
<1>5. t.pc = "publish"
  <2>1. task[g][o] \in Task
    BY <1>2, <1>4, GroupsAre DEF TypeOK
  <2> QED
    BY <2>1 DEF Task
<1>6. /\ logs[o] = <<>> /\ orders[o].status # "PAID" /\ ~CouponOut(o)
      /\ queue[CompleteGroup][o] = <<>> /\ task[CompleteGroup][o].pc = "idle"
      /\ task[DiscountGroup][o].pc \notin {"update", "publish"}
  BY <1>3, DeductWorks
<1>7. a = FinalAmount(TotalAmount[o], orders[o])
  BY <1>1, <1>2, <1>3, <1>4, ReceivedCarries DEF Amounts
<1>8. logs'[o] = <<FinalAmount(TotalAmount[o], orders[o])>>
  <2> HIDE DEF a
  <2>1. logs'[o] = Append(<<>>, a)
    BY <1>3, <1>4, <1>6 DEF TypeOK
  <2>2. Append(<<>>, a) = <<a>>
    OBVIOUS
  <2> QED
    BY <1>7, <2>1, <2>2
<1> HIDE DEF g, t, a
<1>9. /\ Consumes(g, o) /\ TaskOf(g, o, t) /\ Shrinks(g, o) /\ queue'[g][o] # <<>>
      /\ \A h \in Groups \ {g} : queue'[h][o] = queue[h][o]
  BY <1>2, <1>3, Goes
<1>10. /\ \A h \in Groups \ {g} : task'[h][o] = task[h][o]
       /\ task'[g][o] = t /\ task'["client"][o] = task["client"][o]
       /\ \A h \in Groups : Shrinks(h, o)
  BY <1>2, <1>9, GroupsAre DEF TaskOf, Shrinks
<1>11. /\ OneCoupon(o, c)' /\ CouponHalf(o, c)' /\ Failures(o, c)'
       /\ Dead(o, c) => Dead(o, c)'
  BY <1>1, <1>2, <1>3, <1>6, <1>9, <1>10, GroupsAre, HalvesKept
<1>12. Statuses(o, c)'
  BY <1>2, <1>3, <1>4, <1>10, <1>11, GroupsAre, StatusesKept
<1>13. Amounts(o, c)'
  BY <1>2, <1>3, <1>5, <1>6, <1>8, <1>10, GroupsAre DEF Amounts, g
<1>14. Completion(o)'
  BY <1>2, <1>3, <1>5, <1>6, <1>10, GroupsAre DEF Completion, g
<1>15. Exports(o)'
  BY <1>2, <1>3, <1>4, <1>9, <1>10, GroupsAre, ExportsKept
<1>16. Busy(o)' /\ ~Untouched(o)'
  BY <1>2, <1>4, <1>9, BusyStays, Works
<1> QED
  BY <1>1, <1>11, <1>12, <1>13, <1>14, <1>15, <1>16 DEF FirstPayment, Payment

\* The deduction is told of.
LEMMA PaymentSucceededFirst ==
  ASSUME NEW o \in Orders, Given(o), PaymentSucceeded(o)
  PROVE  FirstPayment(o)'
<1>1. PICK c \in MaybeCoupon : Payment(o, c)
  BY CouponOfPayment
<1> DEFINE g == DeductGroup
           m == Msg(Received(g, o).coupon)
           topic == "order.payment.success"
<1>2. /\ g \in Groups /\ g = "user-order-payment"
      /\ g \notin {CompleteGroup, DiscountGroup, ExportGroup, RankGroup, UseGroup, StockGroup,
                   CouponGroup} \cup OrderFailGroups
  BY GroupsAre DEF DeductGroup, CompleteGroup, ExportGroup, RankGroup, DiscountGroup, UseGroup,
                   StockGroup, CouponGroup, OrderFailGroups
<1>3. /\ queue[g][o] # <<>> /\ task[g][o].pc = "publish" /\ RowsStay(o)
      /\ attempts' = attempts /\ store' = store
      /\ Return(g, o, Published(topic, o, m))
  BY <1>2 DEF PaymentSucceeded, At, RowsStay
<1>4. TypeOK /\ Busy(o) /\ Completion(o) /\ Exports(o) /\ Statuses(o, c) /\ Amounts(o, c)
  BY <1>1 DEF Given, FirstPayment, Payment
<1>5. m \in Message /\ Carries(m, c)
  BY <1>1, <1>2, <1>3, ReceivedCarries, MsgCarries
<1>6. logs[o] # <<>>
  BY <1>3, TellsPaid
<1>7. ~CouponOut(o) /\ task[DiscountGroup][o].pc \notin {"update", "publish"} /\ Tokens(o) = 1
  BY <1>3, <1>6, PaidFor
<1>8. orders[o].status # "PAID" /\ queue[CompleteGroup][o] = <<>>
  BY <1>3, <1>4, <1>6 DEF Completion
<1>9. /\ Subscribers(topic) = {CompleteGroup}
      /\ CompleteGroup \notin {UseGroup, StockGroup, CouponGroup, DiscountGroup, DeductGroup,
              ExportGroup, RankGroup} \cup ProcessingFailGroups \cup PaymentFailGroups
  BY DEF Subscribers, DeductGroup, UseGroup, StockGroup, CouponGroup, DiscountGroup,
         ProcessingFailGroups, PaymentFailGroups, ExportGroup, RankGroup, CompleteGroup
<1> HIDE DEF g, m, topic
<1>10. g \notin Subscribers(topic)
  BY <1>2, <1>9
<1>11. /\ Consumes(g, o) /\ TaskOf(g, o, Idle) /\ Shrinks(g, o)
       /\ queue'[g][o] = Tail(queue[g][o])
       /\ \A h \in Groups \ {g} : queue'[h][o] = IF h \in Subscribers(topic)
                                                 THEN Append(queue[h][o], m) ELSE queue[h][o]
  BY <1>2, <1>3, <1>10, Answers
<1>12. /\ \A h \in Groups \ {g} : task'[h][o] = task[h][o]
       /\ task'[g][o].pc = "idle" /\ task'["client"][o] = task["client"][o]
       /\ \A h \in Groups : Shrinks(h, o) \/ Grows(h, o, c)
       /\ \A h \in Groups \ {CompleteGroup} : Shrinks(h, o)
       /\ queue'[CompleteGroup][o] = Append(queue[CompleteGroup][o], m)
  BY <1>2, <1>5, <1>9, <1>11, GroupsAre, ClearTask DEF TaskOf, Shrinks, Grows
<1>13. /\ OneCoupon(o, c)' /\ CouponHalf(o, c)' /\ Failures(o, c)'
       /\ Dead(o, c) => Dead(o, c)'
  BY <1>1, <1>2, <1>3, <1>7, <1>9, <1>11, <1>12, GroupsAre, HalvesKept
<1>14. Statuses(o, c)'
  BY <1>2, <1>3, <1>4, <1>12, <1>13, GroupsAre, StatusesKept DEF RowsStay
<1>15. queue'[g][o] = <<>>
  <2>1. HandlerTokens(g, o) = 0
    BY <1>3, <1>6, TokenPlaces DEF g
  <2>2. Waiting(g, o) = 1
    <3>1. Waiting(g, o) \in Nat /\ LastStep(g) = "publish"
      BY <1>2, <1>4, WaitingType, HandlerTokenIs DEF g
    <3> QED
      BY <1>3, <2>1, <3>1 DEF HandlerTokens, One
  <2>3. Len(queue[g][o]) = 1
    BY <1>2, <1>4, <2>2, MessagesAre
  <2>4. Len(queue'[g][o]) = 0
    BY <1>2, <1>3, <1>4, <1>11, <2>3, MessagesTook
  <2>5. queue'[g][o] \in Seq(Message)
    BY <1>2 DEF Given, TypeOK
  <2> QED
    BY <2>4, <2>5
<1>16. Amounts(o, c)'
  <2>1. Messages(DeductGroup, o)' = {}
    BY <1>15 DEF Messages, g
  <2> QED
    BY <1>2, <1>3, <1>4, <1>7, <1>12, <2>1, GroupsAre DEF Amounts, RowsStay
<1>17. Completion(o)'
  <2>1. Len(queue'[CompleteGroup][o]) = Len(queue[CompleteGroup][o]) + 1
    BY <1>4, <1>5, <1>12, GroupsAre, MessagesSent
  <2>2. Len(queue'[CompleteGroup][o]) = 1 /\ task[CompleteGroup][o].pc = "idle"
    <3>1. task[CompleteGroup][o].pc = "idle"
      BY <1>4, <1>8, GroupsAre DEF Busy
    <3> QED
      BY <1>4, <1>8, <2>1, <3>1, GroupsAre, MessagesAre
  <2> QED
    BY <1>2, <1>3, <1>8, <1>12, <2>2, GroupsAre DEF Completion, RowsStay, g
<1>18. Exports(o)'
  <2>1. ~Told(o) /\ ~Told(o)'
    BY <1>3, <1>8 DEF Told, RowsStay
  <2>2. /\ ExportGroup \in Groups \ ({g} \cup Subscribers(topic))
        /\ RankGroup \in Groups \ ({g} \cup Subscribers(topic))
    BY <1>2, <1>9, GroupsAre
  <2> QED
    BY <1>3, <1>4, <1>11, <2>1, <2>2, ExportsUntold DEF RowsStay
<1>19. Busy(o)' /\ ~Untouched(o)'
  <2>1. \A h \in Groups \ {g} :
          queue'[h][o] = queue[h][o] \/ \E n \in Message : queue'[h][o] = Append(queue[h][o], n)
    BY <1>5, <1>11
  <2> QED
    BY <1>2, <1>4, <1>11, <2>1, BusyStays, ClearTask, Works
<1> QED
  BY <1>1, <1>13, <1>14, <1>16, <1>17, <1>18, <1>19 DEF FirstPayment, Payment

\* The refusal is told of.
LEMMA PaymentFailedFirst ==
  ASSUME FailuresAreReported, NEW o \in Orders, Given(o), PaymentFailed(o)
  PROVE  FirstPayment(o)'
<1>1. PICK c \in MaybeCoupon : Payment(o, c)
  BY CouponOfPayment
<1> DEFINE g == DeductGroup
           m == Msg(Received(g, o).coupon)
           topic == "order.payment.fail"
<1>2. /\ g \in Groups /\ g = "user-order-payment"
      /\ g \notin {CompleteGroup, DiscountGroup, ExportGroup, RankGroup, UseGroup, StockGroup,
                   CouponGroup} \cup OrderFailGroups
  BY GroupsAre DEF DeductGroup, CompleteGroup, ExportGroup, RankGroup, DiscountGroup, UseGroup,
                   StockGroup, CouponGroup, OrderFailGroups
<1>3. /\ queue[g][o] # <<>> /\ task[g][o].pc = "idle" /\ RowsStay(o)
      /\ attempts' = attempts /\ store' = store
      /\ Return(g, o, Published(topic, o, m))
  BY <1>2 DEF PaymentFailed, At, RowsStay, FailuresAreReported
<1>4. TypeOK /\ Busy(o) /\ Completion(o) /\ Exports(o) /\ Statuses(o, c) /\ Amounts(o, c)
  BY <1>1 DEF Given, FirstPayment, Payment
<1>5. m \in Message /\ Carries(m, c)
  BY <1>1, <1>2, <1>3, ReceivedCarries, MsgCarries
<1>6. /\ logs[o] = <<>> /\ orders[o].status # "PAID" /\ ~CouponOut(o) /\ Tokens(o) = 1
      /\ HandlerTokens(g, o) = 1
      /\ queue[CompleteGroup][o] = <<>> /\ task[CompleteGroup][o].pc = "idle"
      /\ task[DiscountGroup][o].pc \notin {"update", "publish"}
  BY <1>3, DeductWorks
<1>7. /\ Subscribers(topic) = PaymentFailGroups /\ g \in BusyGroups
      /\ PaymentFailGroups \cap ({UseGroup, StockGroup, CouponGroup, DiscountGroup, DeductGroup,
              CompleteGroup, ExportGroup, RankGroup, "product-order-processing", "client"}
              \cup ProcessingFailGroups \cup BusyGroups) = {}
  BY DEF Subscribers, DeductGroup, UseGroup, StockGroup, CouponGroup, DiscountGroup,
         ProcessingFailGroups, PaymentFailGroups, ExportGroup, RankGroup, CompleteGroup, BusyGroups
<1> HIDE DEF g, m, topic
<1>8. g \notin Subscribers(topic)
  BY <1>7 DEF g
<1>9. /\ Consumes(g, o) /\ TaskOf(g, o, Idle) /\ Shrinks(g, o)
      /\ queue'[g][o] = Tail(queue[g][o])
      /\ \A h \in Groups \ {g} : queue'[h][o] = IF h \in Subscribers(topic)
                                                THEN Append(queue[h][o], m) ELSE queue[h][o]
  BY <1>2, <1>3, <1>8, Answers
<1>10. /\ \A h \in Groups \ {g} : task'[h][o] = task[h][o]
       /\ task'[g][o].pc = "idle" /\ task'["client"][o] = task["client"][o]
       /\ \A h \in Groups : Shrinks(h, o) \/ Grows(h, o, c)
       /\ \A h \in Groups \ PaymentFailGroups : Shrinks(h, o)
       /\ \A h \in Groups \ ({g} \cup PaymentFailGroups) : queue'[h][o] = queue[h][o]
  BY <1>2, <1>5, <1>7, <1>9, GroupsAre, ClearTask DEF TaskOf, Shrinks, Grows
<1>11. /\ \A h \in BusyGroups \ {g} : h \in Groups \ ({g} \cup PaymentFailGroups)
       /\ "product-order-processing" \in Groups \ ({g} \cup PaymentFailGroups)
  BY <1>2, <1>4, <1>7, WaitingType DEF QueueGroups, BusyGroups
<1>12. Tokens(o)' = 0
  <2>1. Len(queue'[g][o]) = Len(queue[g][o]) - 1
    BY <1>2, <1>3, <1>4, <1>9, MessagesTook
  <2>2. HandlerTokens(g, o)' = 0
    <3>1. LastStep(g) = "publish"
      BY HandlerTokenIs DEF g
    <3>2. HandlerTokens(g, o) = Waiting(g, o) /\ HandlerTokens(g, o)' = Waiting(g, o)'
      <4>1. Len(queue[g][o]) \in Nat
        BY <1>2, <1>4, MessagesAre
      <4> QED
        BY <1>3, <1>10, <2>1, <3>1, <4>1 DEF HandlerTokens, One, Waiting
    <3>3. Waiting(g, o) = Len(queue[g][o]) /\ Waiting(g, o)' = Len(queue'[g][o])
      BY DEF Waiting
    <3> QED
      BY <1>6, <2>1, <3>2, <3>3
  <2>3. \A h \in BusyGroups \ {g} : HandlerTokens(h, o)' = HandlerTokens(h, o)
    BY <1>10, <1>11 DEF HandlerTokens, Waiting
  <2>4. Waiting("product-order-processing", o)' = Waiting("product-order-processing", o)
    BY <1>10, <1>11 DEF Waiting
  <2>5. /\ RequestToken(o)' = RequestToken(o) /\ CouponToken(o)' = CouponToken(o)
        /\ StoreToken(o)' = StoreToken(o) /\ Deductions(o)' = Deductions(o)
    <3>1. task'[CouponGroup][o] = task[CouponGroup][o]
      BY <1>2, <1>10, GroupsAre
    <3> QED
      BY <1>3, <1>10, <3>1 DEF RequestToken, CouponToken, StoreToken, Deductions, RowsStay, CouponGroup
  <2>6. Tokens(o)' = Tokens(o) - 1
    <3>1. /\ Waiting("product-order-processing", o) \in Nat
          /\ \A h \in BusyGroups : HandlerTokens(h, o) \in Nat
          /\ RequestToken(o) \in Nat /\ StoreToken(o) \in Nat /\ CouponToken(o) \in Nat
          /\ Deductions(o) \in Nat
      BY <1>3, Counts
    <3>2. Asked(o)' = Asked(o) /\ Joined(o)' = Joined(o) /\ Charged(o)' = Charged(o) - 1
      BY <1>2, <1>6, <2>2, <2>3, <2>4, <2>5, <3>1 DEF Asked, Joined, Charged, BusyGroups
    <3>3. Asked(o) \in Int /\ Joined(o) \in Int /\ Charged(o) \in Int
      BY <3>1 DEF Asked, Joined, Charged, BusyGroups
    <3> QED
      BY <3>2, <3>3 DEF Tokens
  <2> QED
    BY <1>6, <2>6
<1>13. /\ OneCoupon(o, c)' /\ CouponHalf(o, c)' /\ Failures(o, c)'
       /\ Dead(o, c) => Dead(o, c)'
  BY <1>1, <1>2, <1>3, <1>6, <1>7, <1>9, <1>10, <1>12, GroupsAre, HalvesKept
<1>14. Statuses(o, c)'
  BY <1>2, <1>3, <1>4, <1>10, <1>13, GroupsAre, StatusesKept DEF RowsStay
<1>15. Amounts(o, c)'
  <2>1. Messages(DeductGroup, o)' \subseteq Messages(DeductGroup, o)
    BY <1>2, <1>4, <1>9, ShrinksMessages DEF g
  <2> QED
    BY <1>2, <1>3, <1>4, <1>6, <1>10, <2>1, GroupsAre DEF Amounts, RowsStay, g
<1>16. Completion(o)' /\ Exports(o)'
  <2>1. \A h \in {CompleteGroup, ExportGroup, RankGroup} : h \in Groups \ ({g} \cup PaymentFailGroups)
    BY <1>2, <1>7, GroupsAre
  <2>2. Exports(o)'
    BY <1>3, <1>4, <1>10, <2>1, ExportsKept DEF RowsStay
  <2>3. Completion(o)'
    BY <1>3, <1>6, <1>10, <2>1 DEF Completion, RowsStay
  <2> QED
    BY <2>2, <2>3
<1>17. Busy(o)' /\ ~Untouched(o)'
  <2>1. \A h \in Groups \ {g} :
          queue'[h][o] = queue[h][o] \/ \E n \in Message : queue'[h][o] = Append(queue[h][o], n)
    BY <1>5, <1>9
  <2> QED
    BY <1>2, <1>4, <1>9, <2>1, BusyStays, ClearTask, Works
<1> QED
  BY <1>1, <1>13, <1>14, <1>15, <1>16, <1>17 DEF FirstPayment, Payment

\* The balance's handler keeps a first payment right.
LEMMA PaymentFirst ==
  ASSUME FailuresAreReported, NEW o \in Orders, Given(o), ProcessPayment(o)
  PROVE  FirstPayment(o)'
  BY DeductBalanceFirst, PaymentSucceededFirst, PaymentFailedFirst DEF ProcessPayment
-----------------------------------------------------------------------------
(***************************************************************************)
(* The request.                                                            *)
(***************************************************************************)
\* Nothing of the order is under way.
Bare(o) ==
  /\ \A g \in Groups : queue[g][o] = <<>> /\ task[g][o].pc = "idle"
  /\ store[o] = NoState /\ logs[o] = <<>> /\ exported[o] = FALSE /\ sales[o] = 0
  /\ orders[o].status \in {"PENDING", "PAYMENT_PROCESSING"}

\* No payment of it has a chance.
Halted(o) ==
  /\ Bare(o) /\ (Untouched(o) => Fresh(o))
  /\ task["client"][o].pc = "idle" /\ orders[o].status = "PENDING" => Tokens(o) = 0

HaltedIsFirst == \A o \in Orders : Halted(o) => FirstPayment(o)

\* An order whose request has halted is a first payment gone right.
LEMMA HaltedFirst == HaltedIsFirst
<1> SUFFICES ASSUME NEW o \in Orders, Halted(o)
             PROVE  FirstPayment(o)
  BY DEF HaltedIsFirst
<1>1. Bare(o)
  BY DEF Halted
<1>2. \A g \in Groups : Messages(g, o) = {} /\ Len(queue[g][o]) = 0
  BY <1>1 DEF Bare, Messages
<1>3. OneCoupon(o, NoCoupon)
  BY <1>1, <1>2 DEF Bare, OneCoupon, NoState
<1>4. CouponHalf(o, NoCoupon) /\ Failures(o, NoCoupon)
  BY <1>1, <1>2, GroupsAre DEF Bare, CouponHalf, Failures
<1>5. Statuses(o, NoCoupon)
  BY <1>1, GroupsAre DEF Bare, Statuses, Halted, Dead
<1>6. Amounts(o, NoCoupon)
  BY <1>1, <1>2, GroupsAre DEF Bare, Amounts
<1>7. Completion(o)
  BY <1>1, GroupsAre DEF Bare, Completion
<1>8. Exports(o)
  BY <1>1, <1>2, GroupsAre DEF Bare, Exports, Told, One
<1>9. Busy(o) /\ NoCoupon \in MaybeCoupon
  BY <1>1 DEF Bare, Busy, MaybeCoupon
<1> QED
  BY <1>3, <1>4, <1>5, <1>6, <1>7, <1>8, <1>9 DEF FirstPayment, Payment, Halted

\* The same after a step
LEMMA HaltedFirstNext == HaltedIsFirst'
  BY HaltedFirst, PTL

\* Before the publish of the request nothing is under way, and the request
\* has the token.
LEMMA UntouchedIsBare ==
  ASSUME NEW o \in Orders, Given(o), Untouched(o)
  PROVE  /\ Bare(o) /\ Fresh(o) /\ attempts[o] \in 0..1
         /\ task["client"][o].pc # "idle" => Tokens(o) = 1 /\ attempts[o] = 1
         /\ task["client"][o].pc = "idle" => attempts[o] = 0
<1>1. TypeOK /\ TokenBound(o) /\ Busy(o) /\ Fresh(o) /\ Exports(o)
  BY DEF Given, TokensBounded, FirstPayment
<1>2. attempts[o] \in 0..1 /\ redeliveries = 0
  <2>1. attempts[o] \in Nat /\ redeliveries \in Nat
    BY <1>1 DEF TypeOK
  <2> QED
    BY <2>1 DEF Given, First
<1>3. /\ Waiting("product-order-processing", o) \in Nat
      /\ \A g \in BusyGroups : HandlerTokens(g, o) \in Nat
      /\ RequestToken(o) \in Nat /\ StoreToken(o) \in Nat /\ CouponToken(o) \in Nat
      /\ Deductions(o) \in Nat /\ Tokens(o) \in Nat
  BY <1>1, PlacesAre
<1>4. RequestToken(o) + Deductions(o) <= Tokens(o)
  BY <1>3 DEF Tokens, Asked, Joined, Charged, BusyGroups
<1>5. Tokens(o) <= attempts[o]
  BY <1>1, <1>2, <1>3 DEF TokenBound
<1>6. /\ task["client"][o].pc # "idle" => RequestToken(o) = 1
      /\ task["client"][o].pc = "idle" => attempts[o] = 0
  BY DEF RequestToken, One, Untouched
<1>7. Deductions(o) = 0
  BY <1>2, <1>3, <1>4, <1>5, <1>6
<1>8. logs[o] = <<>>
  <2>1. logs[o] \in Seq(Nat \ {0})
    BY <1>1 DEF TypeOK
  <2> QED
    BY <1>7, <2>1 DEF Deductions
<1>9. \A g \in Groups : queue[g][o] = <<>> /\ task[g][o].pc = "idle"
  BY <1>1 DEF Fresh, Busy
<1>10. orders[o].status \in {"PENDING", "PAYMENT_PROCESSING"}
  BY <1>1 DEF Fresh, PendingRow, BeginPaymentProcessing
<1>11. exported[o] = FALSE /\ sales[o] = 0
  <2>1. DataUnpaid(o) /\ exported[o] \in BOOLEAN
    BY <1>1, <1>8 DEF Given, Unpaid, TypeOK
  <2> QED
    BY <2>1 DEF DataUnpaid
<1>12. Bare(o)
  BY <1>1, <1>8, <1>9, <1>10, <1>11 DEF Bare, Fresh
<1>13. task["client"][o].pc # "idle" => Tokens(o) = 1 /\ attempts[o] = 1
  BY <1>2, <1>3, <1>4, <1>5, <1>6
<1> QED
  BY <1>1, <1>2, <1>6, <1>12, <1>13

\* The request that goes on leaves the consumers' tasks alone.
LEMMA RequestTask ==
  ASSUME NEW o \in Orders, Given(o), NEW t, Goto("client", o, t)
  PROVE  task'["client"][o] = t /\ \A g \in Groups : task'[g][o] = task[g][o]
<1>1. TaskOf("client", o, t)
  BY GotoTask, GroupsAre DEF Given
<1> QED
  BY <1>1, GroupsAre DEF TaskOf

\* The request reads the order.
LEMMA BeginPaymentFirst ==
  ASSUME NEW o \in Orders, Given(o), BeginPayment(o)
  PROVE  FirstPayment(o)'
<1> DEFINE t == Holding("update", BeginPaymentProcessing(orders[o]))
<1>1. /\ task["client"][o].pc = "idle" /\ attempts' = [attempts EXCEPT ![o] = @ + 1]
      /\ Goto("client", o, t) /\ UNCHANGED <<dataVars, queue>>
  BY DEF BeginPayment
<1>2. attempts[o] = 0
  <2>1. attempts \in [Orders -> Nat] /\ attempts'[o] <= 1
    BY DEF Given, TypeOK, First
  <2> QED
    BY <1>1, <2>1
<1>3. Bare(o) /\ Fresh(o)
  BY <1>2, UntouchedIsBare DEF Untouched
<1>4. t.pc = "update" /\ t.row = BeginPaymentProcessing(PendingRow)
  BY <1>1, <1>3 DEF Fresh, Holding
<1> HIDE DEF t
<1>5. task'["client"][o] = t /\ \A g \in Groups : task'[g][o] = task[g][o]
  BY <1>1, RequestTask
<1>6. Bare(o)'
  BY <1>1, <1>3, <1>5 DEF Bare
<1>7. Fresh(o)'
  BY <1>1, <1>3, <1>4, <1>5 DEF Fresh
<1>8. Halted(o)'
  BY <1>4, <1>5, <1>6, <1>7 DEF Halted
<1> QED
  BY <1>8, HaltedFirstNext DEF HaltedIsFirst

\* The request saves PAYMENT_PROCESSING.
LEMMA MarkProcessingFirst ==
  ASSUME NEW o \in Orders, Given(o), MarkProcessing(o)
  PROVE  FirstPayment(o)'
<1> DEFINE t == [Idle EXCEPT !.pc = "publish"]
<1>1. /\ task["client"][o].pc = "update" /\ orders' = [orders EXCEPT ![o] = task["client"][o].row]
      /\ Goto("client", o, t)
      /\ UNCHANGED <<store, logs, exported, sales, queue>>
  BY DEF MarkProcessing
<1>2. Bare(o) /\ Fresh(o)
  BY <1>1, UntouchedIsBare DEF Untouched
<1>3. t.pc = "publish"
  BY DEF Idle
<1> HIDE DEF t
<1>4. task'["client"][o] = t /\ \A g \in Groups : task'[g][o] = task[g][o]
  BY <1>1, RequestTask
<1>5. orders'[o] = BeginPaymentProcessing(PendingRow)
  BY <1>1, <1>2 DEF Fresh, Given, TypeOK
<1>6. orders'[o].status = "PAYMENT_PROCESSING"
  BY <1>5 DEF BeginPaymentProcessing, PendingRow
<1>7. Bare(o)'
  BY <1>1, <1>2, <1>4, <1>6 DEF Bare
<1>8. Fresh(o)'
  BY <1>1, <1>2, <1>3, <1>4, <1>5 DEF Fresh
<1>9. Halted(o)'
  BY <1>6, <1>7, <1>8 DEF Halted
<1> QED
  BY <1>9, HaltedFirstNext DEF HaltedIsFirst

\* The request ends with an exception.
LEMMA RequestFailsFirst ==
  ASSUME NEW o \in Orders, Given(o), RequestFails(o)
  PROVE  FirstPayment(o)'
<1>1. /\ task["client"][o].pc # "idle" /\ Goto("client", o, Idle)
      /\ UNCHANGED <<dataVars, queue, attempts>>
  BY DEF RequestFails
<1>2. Bare(o) /\ Tokens(o) = 1 /\ attempts[o] = 1
  BY <1>1, UntouchedIsBare DEF Untouched
<1>3. task'["client"][o] = Idle /\ \A g \in Groups : task'[g][o] = task[g][o]
  BY <1>1, RequestTask
<1>4. Bare(o)'
  BY <1>1, <1>2, <1>3 DEF Bare
<1>5. Tokens(o)' = 0
  <2>1. RequestToken(o) = 1 /\ RequestToken(o)' = 0
    BY <1>1, <1>3, ClearTask DEF RequestToken, One
  <2>2. BusyGroups \cup {"product-order-processing", CouponGroup} \subseteq Groups
    BY WaitingType DEF Given, QueueGroups, BusyGroups, CouponGroup, Groups, MarkGroups
  <2>3. \A h \in BusyGroups : HandlerTokens(h, o)' = HandlerTokens(h, o)
    BY <1>1, <1>3, <2>2 DEF HandlerTokens, Waiting
  <2>4. /\ Waiting("product-order-processing", o)' = Waiting("product-order-processing", o)
        /\ CouponToken(o)' = CouponToken(o) /\ StoreToken(o)' = StoreToken(o)
        /\ Deductions(o)' = Deductions(o)
    BY <1>1, <1>3, <2>2 DEF Waiting, CouponToken, StoreToken, Deductions, CouponGroup
  <2>5. /\ Waiting("product-order-processing", o) \in Nat
        /\ \A h \in BusyGroups : HandlerTokens(h, o) \in Nat
        /\ StoreToken(o) \in Nat /\ CouponToken(o) \in Nat /\ Deductions(o) \in Nat
    BY <1>1, Counts
  <2>6. Asked(o)' = Asked(o) - 1 /\ Joined(o)' = Joined(o) /\ Charged(o)' = Charged(o)
    BY <2>1, <2>3, <2>4, <2>5 DEF Asked, Joined, Charged, BusyGroups
  <2>7. Asked(o) \in Int /\ Joined(o) \in Int /\ Charged(o) \in Int
    BY <2>1, <2>5 DEF Asked, Joined, Charged, BusyGroups
  <2> QED
    BY <1>2, <2>6, <2>7 DEF Tokens
<1>6. ~Untouched(o)'
  BY <1>1, <1>2, <1>3, ClearTask DEF Untouched
<1>7. Halted(o)'
  BY <1>4, <1>5, <1>6 DEF Halted
<1> QED
  BY <1>7, HaltedFirstNext DEF HaltedIsFirst

\* The request publishes order.processing.
LEMMA PublishProcessingFirst ==
  ASSUME NEW o \in Orders, Given(o), PublishProcessing(o)
  PROVE  FirstPayment(o)'
<1> DEFINE topic == "order.processing"
<1>1. PICK c \in MaybeCoupon : queue' = Published(topic, o, Msg(c))
  BY DEF PublishProcessing
<1>2. /\ task["client"][o].pc = "publish" /\ Goto("client", o, Idle)
      /\ UNCHANGED <<dataVars, attempts>>
  BY DEF PublishProcessing
<1>3. Bare(o) /\ Fresh(o) /\ attempts[o] = 1
  BY <1>2, UntouchedIsBare DEF Untouched
<1>4. task'["client"][o] = Idle /\ \A g \in Groups : task'[g][o] = task[g][o]
  BY <1>2, RequestTask
<1>5. orders'[o].status = "PAYMENT_PROCESSING"
  BY <1>2, <1>3 DEF Fresh, BeginPaymentProcessing, PendingRow
<1>6. /\ Msg(c) \in Message /\ Carries(Msg(c), c)
  <2>1. NoCoupon \in MaybeCoupon
    BY DEF MaybeCoupon
  <2> QED
    BY <2>1 DEF Msg, Message, Carries
<1>7. /\ UseGroup \in Subscribers(topic)
      /\ Subscribers(topic) \cap ({CouponGroup, DiscountGroup, DeductGroup, CompleteGroup,
             ExportGroup, RankGroup} \cup ProcessingFailGroups \cup PaymentFailGroups) = {}
  BY DEF Subscribers, UseGroup, CouponGroup, DiscountGroup, DeductGroup, CompleteGroup,
         ExportGroup, RankGroup, ProcessingFailGroups, PaymentFailGroups
<1>8. \A h \in Groups : queue'[h][o] = IF h \in Subscribers(topic)
                                      THEN Append(queue[h][o], Msg(c)) ELSE queue[h][o]
  BY <1>1, PublishedIs DEF Given
<1> DEFINE m == Msg(c)
<1> HIDE DEF topic, m
<1>9. \A h \in Groups : /\ Messages(h, o)' \subseteq {m}
                        /\ h \notin Subscribers(topic) => queue'[h][o] = <<>> /\ Messages(h, o)' = {}
                        /\ Len(queue'[h][o]) <= 1
  <2> SUFFICES ASSUME NEW h \in Groups
               PROVE  /\ Messages(h, o)' \subseteq {m}
                      /\ h \notin Subscribers(topic) => queue'[h][o] = <<>> /\ Messages(h, o)' = {}
                      /\ Len(queue'[h][o]) <= 1
    OBVIOUS
  <2>1. queue[h][o] = <<>> /\ Messages(h, o) = {} /\ Len(queue[h][o]) = 0
    BY <1>3 DEF Bare, Messages
  <2>2. CASE h \in Subscribers(topic)
    <3>1. queue'[h][o] = Append(queue[h][o], m)
      BY <1>8, <2>2 DEF m
    <3>2. Messages(h, o)' = Messages(h, o) \cup {m} /\ Len(queue'[h][o]) = Len(queue[h][o]) + 1
      BY <1>6, <3>1, MessagesSent DEF Given, m
    <3> QED
      BY <2>1, <2>2, <3>2
  <2>3. CASE h \notin Subscribers(topic)
    <3>1. queue'[h][o] = <<>>
      BY <1>8, <2>1, <2>3
    <3>2. Messages(h, o)' = {} /\ Len(queue'[h][o]) = 0
      BY <3>1 DEF Messages
    <3> QED
      BY <3>1, <3>2
  <2> QED
    BY <2>2, <2>3
<1>10. /\ \A h \in {CouponGroup, DiscountGroup, DeductGroup, CompleteGroup, ExportGroup, RankGroup}
                     \cup ProcessingFailGroups \cup PaymentFailGroups :
            queue'[h][o] = <<>> /\ Messages(h, o)' = {}
       /\ \A h \in Groups : task'[h][o].pc = "idle"
  BY <1>3, <1>4, <1>7, <1>9, GroupsAre DEF Bare
<1>11. /\ store'[o] = NoState /\ logs'[o] = <<>> /\ exported'[o] = FALSE /\ sales'[o] = 0
  BY <1>2, <1>3 DEF Bare
<1>12. OneCoupon(o, c)'
  BY <1>6, <1>9, <1>11 DEF OneCoupon, NoState, Carries, m
<1>13. CouponOut(o)'
  BY <1>10, <1>11, GroupsAre DEF CouponOut, JoinedUp, NoState
<1>14. CouponHalf(o, c)'
  BY <1>9, <1>10, <1>13, GroupsAre DEF CouponHalf
<1>15. Failures(o, c)'
  BY <1>10 DEF Failures
<1>16. Statuses(o, c)'
  BY <1>5, <1>10, GroupsAre DEF Statuses
<1>17. Amounts(o, c)'
  BY <1>10, <1>11, GroupsAre DEF Amounts
<1>18. Completion(o)'
  BY <1>5, <1>10, <1>11, GroupsAre DEF Completion
<1>19. Exports(o)'
  <2>1. ~Told(o)'
    BY <1>5 DEF Told
  <2>2. Len(queue'[RankGroup][o]) = 0
    BY <1>10
  <2>3. One(Told(o)') = 0
    BY <2>1 DEF One
  <2>4. sales'[o] + Len(queue'[RankGroup][o]) = One(Told(o)')
    BY <1>11, <2>2, <2>3
  <2>5. exported'[o] \/ queue'[ExportGroup][o] # <<>> <=> Told(o)'
    BY <1>10, <1>11, <2>1
  <2> QED
    BY <2>4, <2>5 DEF Exports
<1>20. Busy(o)' /\ ~Untouched(o)'
  BY <1>2, <1>3, <1>4, <1>10, ClearTask DEF Busy, Untouched
<1> QED
  BY <1>12, <1>14, <1>15, <1>16, <1>17, <1>18, <1>19, <1>20 DEF FirstPayment, Payment

\* The request keeps a first payment right.
LEMMA RequestFirst ==
  ASSUME NEW o \in Orders, Given(o), Request(o)
  PROVE  FirstPayment(o)'
  BY BeginPaymentFirst, MarkProcessingFirst, PublishProcessingFirst, RequestFailsFirst DEF Request

\* No exception leaves a handler, and no message comes twice.
LEMMA FailureFirst ==
  ASSUME FailuresAreReported, NEW o \in Orders, Given(o),
         Expire(o) \/ \E g \in Groups : Swallow(g, o) \/ Crash(g, o)
  PROVE  FirstPayment(o)'
<1>1. \A g \in Groups : ~Swallow(g, o)
  BY DEF Swallow, FailuresAreReported
<1>2. \A g \in Groups : ~Crash(g, o)
  <2>1. redeliveries = 0 /\ redeliveries' = 0
    BY DEF Given, First
  <2> QED
    BY <2>1 DEF Crash
<1>3. CASE Expire(o)
  <2>1. SameFlow(o) /\ SameRows(o)
    BY <1>3 DEF Expire, SameFlow, SameRows
  <2> QED
    BY <2>1, SameKeeps DEF Given
<1> QED
  BY <1>1, <1>2, <1>3
-----------------------------------------------------------------------------
(***************************************************************************)
(* The invariant.                                                          *)
(***************************************************************************)
LEMMA StepFirst ==
  ASSUME FailuresAreReported, NEW o \in Orders, Given(o), Step(o)
  PROVE  FirstPayment(o)'
  BY RequestFirst, AggregateFirst, StockFirst, CouponFirst, OrderFirst, PaymentFirst,
     CompensateFirst, FinishFirst, FailureFirst
  DEF Step

\* A step adds one to the attempts of its order, or leaves them.
LEMMA AttemptsGrow ==
  ASSUME NEW o \in Orders, Step(o)
  PROVE  attempts' = attempts \/ attempts' = [attempts EXCEPT ![o] = @ + 1]
<1>1. Request(o) => attempts' = attempts \/ attempts' = [attempts EXCEPT ![o] = @ + 1]
  BY DEF Request, BeginPayment, MarkProcessing, PublishProcessing, RequestFails
<1>2. Aggregate(o) => attempts' = attempts
  BY DEF Aggregate, InitCoordinator, MarkOk, PublishReady, ClearStore
<1>3. ProcessStock(o) \/ ProcessCoupon(o) => attempts' = attempts
  BY DEF ProcessStock, ConfirmStock, StockConfirmed, ConfirmStockFails, ProcessCoupon, SkipCoupon,
         UseCoupon, UseCouponFails, CreateUserCoupon, CouponUsed, RecordCouponFails, CancelCheck,
         CancelUse
<1>4. ProcessOrder(o) \/ ProcessPayment(o) => attempts' = attempts
  BY DEF ProcessOrder, ReadForPayment, WriteDiscount, PublishPayment, ReadForCompletion, WritePaid,
         PublishProcessed, ProcessPayment, DeductBalance, PaymentSucceeded, PaymentFailed
<1>5. Compensate(o) \/ Finish(o) => attempts' = attempts
  BY DEF Compensate, ReadForCancel, WriteCancel, CancelFails, RestoreItem, StockRestored,
         SkipRelease, ReleaseCheck, ReleaseUse, DeleteUserCoupon, Finish, ExportOrder, RecordSales
<1>6. Expire(o) \/ (\E g \in Groups : Swallow(g, o) \/ Crash(g, o)) => attempts' = attempts
  BY DEF Expire, Swallow, Crash
<1> QED
  BY <1>1, <1>2, <1>3, <1>4, <1>5, <1>6 DEF Step

\* A payment that is still a first one was one before.
LEMMA FirstBefore ==
  ASSUME TypeOK, NEW o \in Orders, Step(o), NEW x \in Orders, First(x)'
  PROVE  First(x)
<1>1. /\ redeliveries \in Nat /\ attempts \in [Orders -> Nat]
      /\ redeliveries' \in {redeliveries, redeliveries + 1}
  BY StepLeaves DEF TypeOK, Leaves
<1>2. redeliveries = 0
  BY <1>1 DEF First
<1>3. attempts[x] <= attempts'[x]
  <2>1. CASE x # o
    BY <1>1, <2>1, StepLeaves DEF Leaves, SameRows
  <2>2. CASE x = o
    <3>1. attempts' = attempts \/ attempts' = [attempts EXCEPT ![o] = @ + 1]
      BY AttemptsGrow DEF Step
    <3> QED
      BY <1>1, <2>2, <3>1
  <2> QED
    BY <2>1, <2>2
<1>4. attempts'[x] \in Nat
  <2>1. attempts' = attempts \/ attempts' = [attempts EXCEPT ![o] = @ + 1]
    BY AttemptsGrow DEF Step
  <2> QED
    BY <1>1, <2>1
<1> QED
  BY <1>1, <1>2, <1>3, <1>4 DEF First

\* What IInv rests on
Ground == TypeOK /\ TokensBounded /\ UndeductedIsUnpaid

\* What earlier proofs have shown holds throughout.
LEMMA Grounded == Spec => []Ground
  BY TypeCorrect, TokensAreBounded, UndeductedAreUnpaid, PTL DEF Ground

\* A step keeps every first payment right.
LEMMA FirstStep ==
  ASSUME FailuresAreReported, Ground, Ground', IInv, [Next]_vars
  PROVE  IInv'
<1> SUFFICES ASSUME NEW x \in Orders, First(x)'
             PROVE  FirstPayment(x)'
  BY DEF IInv
<1>1. TypeOK /\ TypeOK' /\ TokensBounded /\ TokensBounded' /\ (logs[x] = <<>> => Unpaid(x))
  BY DEF Ground, UndeductedIsUnpaid
<1>2. NoTokenMade(x)
  BY <1>1, TokensStep DEF TokensBounded
<1>3. CASE UNCHANGED vars
  <2>1. First(x) /\ SameFlow(x) /\ SameRows(x)
    BY <1>3 DEF vars, First, SameFlow, SameRows
  <2> QED
    BY <2>1, SameKeeps DEF IInv
<1>4. CASE Next
  <2>1. PICK o \in Orders : Step(o)
    BY <1>4 DEF Next, Step
  <2>2. First(x) /\ FirstPayment(x)
    BY <1>1, <2>1, FirstBefore DEF IInv
  <2>3. CASE x = o
    <3>1. Given(o)
      BY <1>1, <1>2, <2>2, <2>3 DEF Given
    <3> QED
      BY <2>1, <2>3, <3>1, StepFirst
  <2>4. CASE x # o
    <3>1. SameFlow(x) /\ SameRows(x)
      BY <1>1, <2>1, <2>4, StepLeaves DEF Leaves
    <3> QED
      BY <2>2, <3>1, SameKeeps
  <2> QED
    BY <2>3, <2>4
<1> QED
  BY <1>3, <1>4

\* Before its request every payment is right.
LEMMA FirstInit ==
  ASSUME Init
  PROVE  IInv
<1> SUFFICES ASSUME NEW o \in Orders
             PROVE  Halted(o)
  BY HaltedFirst DEF IInv, HaltedIsFirst
<1>1. /\ \A w \in Workers : task[w][o] = Idle
      /\ \A g \in Groups : queue[g][o] = <<>>
      /\ store[o] = NoState /\ logs[o] = <<>> /\ orders[o] = PendingRow
      /\ exported[o] = FALSE /\ sales[o] = 0
  BY DEF Init
<1>2. Bare(o)
  BY <1>1, ClearTask, GroupsAre DEF Bare, PendingRow
<1>3. Fresh(o)
  BY <1>1, ClearTask, GroupsAre DEF Fresh
<1>4. Tokens(o) = 0
  <2>1. QueueGroups \cup {CouponGroup} \subseteq Groups
    BY DEF QueueGroups, BusyGroups, CouponGroup, Groups, MarkGroups
  <2>2. \A g \in QueueGroups : Waiting(g, o) = 0
    BY <1>1, <2>1 DEF Waiting
  <2>3. \A g \in BusyGroups : HandlerTokens(g, o) = 0
    <3>1. \A g \in BusyGroups : task[g][o].pc = "idle"
      BY <1>2, <2>1 DEF Bare, QueueGroups
    <3> QED
      BY <2>2, <3>1 DEF HandlerTokens, One, LastStep, QueueGroups
  <2>4. RequestToken(o) = 0 /\ StoreToken(o) = 0 /\ CouponToken(o) = 0
    <3>1. task["client"][o].pc = "idle" /\ task[CouponGroup][o].pc = "idle" /\ store[o].stockOk = FALSE
      BY <1>1, <1>2, <2>1, ClearTask, GroupsAre DEF Bare, NoState
    <3> QED
      BY <3>1 DEF RequestToken, StoreToken, CouponToken, One, CouponGroup
  <2>5. Deductions(o) = 0
    BY <1>1 DEF Deductions
  <2> QED
    BY <2>2, <2>3, <2>4, <2>5 DEF Tokens, Asked, Joined, Charged, BusyGroups, QueueGroups
<1> QED
  BY <1>2, <1>3, <1>4 DEF Halted

\* First payments go right throughout if failures are reported.
LEMMA FirstPaymentsGoRight ==
  ASSUME FailuresAreReported
  PROVE  Spec => []IInv
<1>1. Init => IInv
  BY FirstInit
<1>2. Ground /\ Ground' /\ IInv /\ [Next]_vars => IInv'
  BY FirstStep
<1> QED
  BY <1>1, <1>2, Grounded, PTL DEF Spec
-----------------------------------------------------------------------------
(***************************************************************************)
(* What a first payment leaves behind.                                     *)
(***************************************************************************)
LEMMA QuietIs ==
  ASSUME Ground, IInv, NEW o \in Orders, FirstPayments, Quiet(o)
  PROVE  /\ FirstPayment(o) /\ \A g \in Groups : queue[g][o] = <<>> /\ task[g][o].pc = "idle"
         /\ logs[o] # <<>> <=> orders[o].status = "PAID"
<1>1. FirstPayment(o)
  BY DEF IInv, First, FirstPayments
<1>2. \A g \in Groups : queue[g][o] = <<>> /\ task[g][o].pc = "idle"
  BY <1>1 DEF Quiet, FirstPayment, Busy
<1>3. logs[o] # <<>> => orders[o].status = "PAID"
  <2>1. queue[CompleteGroup][o] = <<>> /\ Len(queue[CompleteGroup][o]) = 0
    BY <1>2, GroupsAre
  <2> QED
    BY <1>1, <1>2, <2>1, GroupsAre DEF FirstPayment, Completion
<1>4. logs[o] = <<>> => orders[o].status # "PAID"
  BY DEF Ground, UndeductedIsUnpaid, Unpaid, DataUnpaid
<1> QED
  BY <1>1, <1>2, <1>3, <1>4

\* Whatever part of the payment fails and reports it, however the consumers
\* of the orders are interleaved: when a first payment has come to rest, the
\* order is PAID and its final amount, after the discount of the row, was
\* deducted once, or nothing was.
THEOREM MoneyIsSettled ==
  ASSUME FailuresAreReported
  PROVE  Spec => []MoneySettled
<1>1. Ground /\ IInv => MoneySettled
  <2> SUFFICES ASSUME Ground, IInv, NEW o \in Orders, FirstPayments, Quiet(o)
               PROVE  IF orders[o].status = "PAID"
                      THEN logs[o] = <<FinalAmount(TotalAmount[o], orders[o])>>
                      ELSE logs[o] = <<>>
    BY DEF MoneySettled
  <2>1. PICK c \in MaybeCoupon : Payment(o, c)
    BY QuietIs DEF FirstPayment
  <2> QED
    BY <2>1, QuietIs DEF Payment, Amounts
<1> QED
  BY <1>1, Grounded, FirstPaymentsGoRight, PTL

\* On the same conditions the order's data have reached the external
\* platform and the sales ranking exactly when the order is PAID, and the
\* ranking counts it once.
THEOREM PaidOrdersAreExported ==
  ASSUME FailuresAreReported
  PROVE  Spec => []PaidIsExported
<1>1. Ground /\ IInv => PaidIsExported
  <2> SUFFICES ASSUME Ground, IInv, NEW o \in Orders, FirstPayments, Quiet(o)
               PROVE  /\ exported[o] <=> orders[o].status = "PAID"
                      /\ sales[o] = IF orders[o].status = "PAID" THEN 1 ELSE 0
    BY DEF PaidIsExported
  <2>1. FirstPayment(o) /\ \A g \in Groups : queue[g][o] = <<>> /\ task[g][o].pc = "idle"
    BY QuietIs
  <2>2. Exports(o) /\ sales[o] \in Nat
    BY <2>1 DEF FirstPayment, Ground, TypeOK
  <2>3. Told(o) <=> orders[o].status = "PAID"
    BY <2>1, GroupsAre DEF Told
  <2>4. exported[o] <=> orders[o].status = "PAID"
    BY <2>1, <2>2, <2>3, GroupsAre DEF Exports
  <2>5. sales[o] = One(Told(o))
    <3>1. Len(queue[RankGroup][o]) = 0
      BY <2>1, GroupsAre
    <3> QED
      BY <2>2, <3>1 DEF Exports
  <2> QED
    BY <2>3, <2>4, <2>5 DEF One
<1> QED
  BY <1>1, Grounded, FirstPaymentsGoRight, PTL
-----------------------------------------------------------------------------
(***************************************************************************)
(* A first payment implements the abstract one.                            *)
(***************************************************************************)
Phases == [x \in Orders |-> Phase(orders[x].status)]

Taken == [x \in Orders |-> logs[x] # <<>>]

\* The steps that the abstract payment sees
LEMMA SeenSteps ==
  ASSUME NEW o \in Orders, Step(o)
  PROVE  \/ MarkProcessing(o) \/ WriteDiscount(o) \/ WritePaid(o) \/ DeductBalance(o)
         \/ \E g \in OrderFailGroups : WriteCancel(g, o)
         \/ orders' = orders /\ logs' = logs
<1>1. Request(o) => MarkProcessing(o) \/ (orders' = orders /\ logs' = logs)
  BY DEF Request, BeginPayment, PublishProcessing, RequestFails
<1>2. Aggregate(o) => orders' = orders /\ logs' = logs
  BY DEF Aggregate, InitCoordinator, MarkOk, PublishReady, ClearStore
<1>3. ProcessStock(o) \/ ProcessCoupon(o) => orders' = orders /\ logs' = logs
  BY DEF ProcessStock, ConfirmStock, StockConfirmed, ConfirmStockFails, ProcessCoupon, SkipCoupon,
         UseCoupon, UseCouponFails, CreateUserCoupon, CouponUsed, RecordCouponFails, CancelCheck,
         CancelUse
<1>4. ProcessOrder(o) => WriteDiscount(o) \/ WritePaid(o) \/ (orders' = orders /\ logs' = logs)
  BY DEF ProcessOrder, ReadForPayment, PublishPayment, ReadForCompletion, PublishProcessed
<1>5. ProcessPayment(o) => DeductBalance(o) \/ (orders' = orders /\ logs' = logs)
  BY DEF ProcessPayment, PaymentSucceeded, PaymentFailed
<1>6. Compensate(o) =>
        (\E g \in OrderFailGroups : WriteCancel(g, o)) \/ (orders' = orders /\ logs' = logs)
  BY DEF Compensate, ReadForCancel, CancelFails, RestoreItem, StockRestored,
         SkipRelease, ReleaseCheck, ReleaseUse, DeleteUserCoupon
<1>7. Finish(o) => orders' = orders /\ logs' = logs
  BY DEF Finish, ExportOrder, RecordSales
<1>8. Expire(o) \/ (\E g \in Groups : Swallow(g, o) \/ Crash(g, o)) => orders' = orders /\ logs' = logs
  BY DEF Expire, Swallow, Crash
<1> QED
  BY <1>1, <1>2, <1>3, <1>4, <1>5, <1>6, <1>7, <1>8 DEF Step

\* A step of a first payment is one of the abstract payment, or none.
LEMMA StepRefines ==
  ASSUME NEW o \in Orders, Given(o), Step(o)
  PROVE  Lifecycle!Next \/ (Phases' = Phases /\ Taken' = Taken)
<1>1. PICK c \in MaybeCoupon : Payment(o, c)
  BY CouponOfPayment
<1>2. /\ TypeOK /\ TypeOK' /\ Statuses(o, c) /\ Amounts(o, c) /\ Completion(o) /\ Failures(o, c)
      /\ orders \in [Orders -> Row] /\ logs \in [Orders -> Seq(Nat \ {0})]
  BY <1>1 DEF Given, FirstPayment, Payment, TypeOK
<1>3. CASE orders' = orders /\ logs' = logs
  BY <1>3 DEF Phases, Taken
<1>4. CASE MarkProcessing(o)
  <2>1. /\ task["client"][o].pc = "update" /\ logs' = logs
        /\ orders' = [orders EXCEPT ![o] = task["client"][o].row]
    BY <1>4 DEF MarkProcessing
  <2>2. Fresh(o)
    BY <2>1, UntouchedIsBare DEF Untouched
  <2>3. orders[o].status = "PENDING" /\ orders'[o].status = "PAYMENT_PROCESSING"
    BY <1>2, <2>1, <2>2 DEF Fresh, PendingRow, BeginPaymentProcessing
  <2>4. Phases[o] = "open" /\ Phases' = [Phases EXCEPT ![o] = "inPayment"] /\ Taken' = Taken
    BY <1>2, <2>1, <2>3 DEF Phases, Taken, Phase
  <2>5. Lifecycle!Begin(o)
    BY <2>4 DEF Lifecycle!Begin, Phases, Taken
  <2> QED
    BY <2>5 DEF Lifecycle!Next
<1>5. CASE WriteDiscount(o)
  <2>1. /\ task[DiscountGroup][o].pc = "update" /\ logs' = logs
        /\ orders' = [orders EXCEPT ![o] = task[DiscountGroup][o].row]
    BY <1>5 DEF WriteDiscount, At, DiscountGroup
  <2>2. orders'[o].status = orders[o].status
    <3>1. orders'[o] = ApplyCoupon(orders[o], c) /\ orders[o] \in Row
      BY <1>2, <2>1 DEF Amounts
    <3> QED
      BY <3>1 DEF ApplyCoupon, Row
  <2>3. Phases' = Phases /\ Taken' = Taken
    BY <1>2, <2>1, <2>2 DEF Phases, Taken
  <2> QED
    BY <2>3
<1>6. CASE WritePaid(o)
  <2>1. /\ queue[CompleteGroup][o] # <<>> /\ task[CompleteGroup][o].pc = "update"
        /\ logs' = logs /\ attempts' = attempts
        /\ orders' = [orders EXCEPT ![o] = task[CompleteGroup][o].row]
        /\ Goto(CompleteGroup, o, [Idle EXCEPT !.pc = "publish"])
    BY <1>6 DEF WritePaid, At, CompleteGroup
  <2>2. logs[o] # <<>>
    BY <2>1, TellsPaid
  <2>3. ~Dead(o, c)
    BY <2>1, <2>2, PaidFor
  <2>4. task["client"][o].pc = "idle"
    <3>1. TaskOf(CompleteGroup, o, [Idle EXCEPT !.pc = "publish"])
      BY <1>2, <2>1, GotoTask, GroupsAre
    <3>2. Consumes(CompleteGroup, o)
      BY <2>1, <3>1, GroupsAre DEF Consumes, TaskOf
    <3> QED
      BY <3>2, Works
  <2>5. orders[o].status = "PAYMENT_PROCESSING"
    BY <1>2, <2>1, <2>2, <2>3, <2>4 DEF Statuses, Completion
  <2>6. orders'[o].status = "PAID"
    <3>1. orders'[o] = CompletePayment(orders[o]) /\ orders[o] \in Row
      BY <1>2, <2>1 DEF Completion
    <3> QED
      BY <3>1 DEF CompletePayment, Row
  <2>7. /\ Phases[o] = "inPayment" /\ Taken[o]
        /\ Phases' = [Phases EXCEPT ![o] = "paid"] /\ Taken' = Taken
    BY <1>2, <2>1, <2>2, <2>5, <2>6 DEF Phases, Taken, Phase
  <2>8. Lifecycle!Complete(o)
    BY <2>7 DEF Lifecycle!Complete, Phases, Taken
  <2> QED
    BY <2>8 DEF Lifecycle!Next
<1>7. CASE DeductBalance(o)
  <2>1. /\ queue[DeductGroup][o] # <<>> /\ task[DeductGroup][o].pc = "idle" /\ attempts' = attempts
        /\ orders' = orders /\ queue' = queue
        /\ logs' = [logs EXCEPT ![o] = Append(@, Received(DeductGroup, o).amount)]
        /\ \E t : Goto(DeductGroup, o, t)
    BY <1>7 DEF DeductBalance, At, Continue, DeductGroup
  <2>2. logs[o] = <<>> /\ orders[o].status # "PAID"
    BY <2>1, DeductWorks
  <2>3. ~Dead(o, c)
    BY <2>1, DeadIsOut
  <2>4. task["client"][o].pc = "idle"
    <3>1. Consumes(DeductGroup, o)
      BY <2>1, Goes, GroupsAre
    <3> QED
      BY <3>1, Works
  <2>5. orders[o].status = "PAYMENT_PROCESSING"
    BY <1>2, <2>2, <2>3, <2>4 DEF Statuses
  <2>6. logs'[o] # <<>> /\ \A x \in Orders \ {o} : logs'[x] = logs[x]
    <3>1. logs[o] \in Seq(Nat \ {0}) /\ logs'[o] = Append(logs[o], Received(DeductGroup, o).amount)
      BY <1>2, <2>1
    <3> QED
      BY <1>2, <2>1, <3>1
  <2>7. /\ Phases[o] = "inPayment" /\ ~Taken[o]
        /\ Taken' = [Taken EXCEPT ![o] = TRUE] /\ Phases' = Phases
    <3>1. Phases[o] = "inPayment" /\ Phases' = Phases
      BY <2>1, <2>5 DEF Phases, Phase
    <3>2. ~Taken[o] /\ Taken' = [Taken EXCEPT ![o] = TRUE]
      BY <2>2, <2>6, Zenon DEF Taken
    <3> QED
      BY <3>1, <3>2
  <2>8. Lifecycle!Take(o)
    BY <2>7 DEF Lifecycle!Take, Phases, Taken
  <2> QED
    BY <2>8 DEF Lifecycle!Next
<1>8. ASSUME NEW g \in OrderFailGroups, WriteCancel(g, o)
      PROVE  Lifecycle!Next \/ (Phases' = Phases /\ Taken' = Taken)
  <2>1. /\ g \in Groups /\ queue[g][o] # <<>> /\ task[g][o].pc = "update"
        /\ logs' = logs /\ attempts' = attempts
        /\ orders' = [orders EXCEPT ![o] = task[g][o].row]
    BY <1>8, GroupsAre DEF WriteCancel, At
  <2>2. orders'[o].status = "PENDING"
    BY <1>2, <2>1 DEF Statuses
  <2>3. Dead(o, c)
    BY <1>1, <2>1, FailedIsDead
  <2>4. logs[o] = <<>> /\ orders[o].status # "PAID"
    BY <2>1, <2>3, DeadIsOut
  <2>5. Phases' = [Phases EXCEPT ![o] = "open"] /\ Taken' = Taken /\ ~Taken[o]
    BY <1>2, <2>1, <2>2, <2>4 DEF Phases, Taken, Phase
  <2>6. Phases[o] \in {"open", "inPayment"}
    BY <1>2, <2>4 DEF Statuses, Phases, Phase
  <2>7. CASE Phases[o] = "inPayment"
    <3>1. Lifecycle!Fail(o)
      BY <2>5, <2>7 DEF Lifecycle!Fail, Phases, Taken
    <3> QED
      BY <3>1 DEF Lifecycle!Next
  <2>8. CASE Phases[o] = "open"
    BY <2>5, <2>8 DEF Phases
  <2> QED
    BY <2>6, <2>7, <2>8
<1> QED
  BY <1>3, <1>4, <1>5, <1>6, <1>7, <1>8, SeenSteps

\* As long as no order is tried a second time and no message comes twice,
\* the choreography of the consumers implements the abstract payment: the
\* money is taken at most once, while the order is in payment, and once it
\* is taken the payment can only complete.
THEOREM PaymentImplemented ==
  ASSUME FailuresAreReported
  PROVE  Spec /\ []FirstPayments => PaymentRefined
<1>1. Init => Lifecycle!Init
  <2> SUFFICES ASSUME Init
               PROVE  Lifecycle!Init
    OBVIOUS
  <2>1. Phases = [x \in Orders |-> "open"]
    BY DEF Init, Phases, Phase, PendingRow
  <2>2. Taken = [x \in Orders |-> FALSE]
    BY DEF Init, Taken
  <2> QED
    BY <2>1, <2>2 DEF Lifecycle!Init, Phases, Taken
<1>2. Ground /\ Ground' /\ IInv /\ FirstPayments /\ FirstPayments' /\ [Next]_vars =>
        [Lifecycle!Next]_<<[o \in Orders |-> Phase(orders[o].status)],
                           [o \in Orders |-> logs[o] # <<>>]>>
  <2> SUFFICES ASSUME Ground, Ground', IInv, FirstPayments, FirstPayments', [Next]_vars
               PROVE  Lifecycle!Next \/ (Phases' = Phases /\ Taken' = Taken)
    BY DEF Phases, Taken
  <2>1. CASE UNCHANGED vars
    BY <2>1 DEF vars, Phases, Taken
  <2>2. CASE Next
    <3>1. PICK o \in Orders : Step(o)
      BY <2>2 DEF Next, Step
    <3>2. First(o) /\ First(o)' /\ FirstPayment(o)
      BY DEF FirstPayments, First, IInv
    <3>3. Given(o)
      BY <3>2, TokensStep DEF Ground, UndeductedIsUnpaid, TokensBounded, Given
    <3> QED
      BY <3>1, <3>3, StepRefines
  <2> QED
    BY <2>1, <2>2
<1>3. Spec => []Ground /\ []IInv
  BY Grounded, FirstPaymentsGoRight, PTL
<1>4. Spec => Init /\ [][Next]_vars
  BY DEF Spec
<1>5. Spec /\ []FirstPayments =>
        [][Lifecycle!Next]_<<[o \in Orders |-> Phase(orders[o].status)],
                             [o \in Orders |-> logs[o] # <<>>]>>
  BY <1>2, <1>3, <1>4, PTL
<1> QED
  BY <1>1, <1>4, <1>5, PTL DEF PaymentRefined, Lifecycle!Spec

(***************************************************************************)
(* The stock.                                                              *)
(***************************************************************************)
ConfirmGroup == "product-order-processing"
RestoreFirst == "product-order-processing-fail"
RestoreLast == "product-order-payment-fail"
StockHandlers == {ConfirmGroup, RestoreFirst, RestoreLast}
ClearGroup == "order-order-processing-fail"

\* A failure of the payment was published.
Failing(o) ==
  \/ \E g \in OrderFailGroups : queue[g][o] # <<>>
  \/ ~Untouched(o) /\ orders[o].status = "PENDING"

\* The items of the order whose reservations were turned into sales, and of
\* these the items that were turned back: the first so many of each.
Confirmed(o) ==
  IF Untouched(o) THEN 0
  ELSE IF queue[ConfirmGroup][o] = <<>> THEN Len(Items[o])
  ELSE task[ConfirmGroup][o].done

Restored(o) ==
  IF ~Failing(o) THEN 0
  ELSE IF queue[RestoreFirst][o] = <<>> /\ queue[RestoreLast][o] = <<>> THEN Len(Items[o])
  ELSE task[RestoreFirst][o].done + task[RestoreLast][o].done

\* The handlers of the stock see one message each at most, and the failure is
\* told once.
StockFlow(o) ==
  /\ Len(queue[ConfirmGroup][o]) <= 1
  /\ Len(queue[RestoreFirst][o]) + Len(queue[RestoreLast][o]) <= 1
  /\ \A g \in StockHandlers : /\ task[g][o].done \in 0..Len(Items[o])
                              /\ queue[g][o] = <<>> => task[g][o].done = 0
  /\ \A g \in ProductFailGroups : queue[g][o] # <<>> => Failing(o)
  /\ queue[UseGroup][o] # <<>> /\ Received(UseGroup, o).coupon # NoCoupon => ~Failing(o)
  /\ task[ClearGroup][o].pc = "clear" => orders[o].status = "PENDING"

QuantitiesOf(o) == [i \in 1..Len(Items[o]) |-> Items[o][i].quantity]

\* How many of p the first n items of o are
PartOf(o, p, n) ==
  SumOver(QuantitiesOf(o), {i \in 1..n : Items[o][i].option = p})

NetOf(o, p) == PartOf(o, p, Confirmed(o)) - PartOf(o, p, Restored(o))

Nets(p) == [o \in Orders |-> NetOf(o, p)]

StockAccount ==
  \A p \in Options :
    options[p] = [stock    |-> InitialOptions[p].stock - SumOver(Nets(p), Orders),
                  reserved |-> InitialOptions[p].reserved - SumOver(Nets(p), Orders)]

StockInv == FirstPayments => (\A o \in Orders : StockFlow(o)) /\ StockAccount
-----------------------------------------------------------------------------
\* An order's items and their quantities have their types.
LEMMA ItemsAre ==
  ASSUME NEW o \in Orders
  PROVE  /\ Items[o] \in Seq(Item) /\ Len(Items[o]) \in Nat
         /\ DOMAIN Items[o] = 1..Len(Items[o])
         /\ \A i \in 1..Len(Items[o]) :
              /\ Items[o][i].option \in Options
              /\ Items[o][i].quantity \in Nat
         /\ QuantitiesOf(o) \in [1..Len(Items[o]) -> Nat]
<1>1. Items[o] \in Seq(Item)
  BY SagaAssumption
<1>2. \A i \in 1..Len(Items[o]) : Items[o][i] \in Item
  BY <1>1
<1>3. \A i \in 1..Len(Items[o]) : Items[o][i].option \in Options /\ Items[o][i].quantity \in Nat
  BY <1>2 DEF Item
<1> QED
  BY <1>1, <1>3 DEF QuantitiesOf

\* What the first items of an order contain of an option grows with them.
LEMMA PartIs ==
  ASSUME NEW o \in Orders, NEW p, NEW n \in 0..Len(Items[o])
  PROVE  /\ PartOf(o, p, n) \in Nat /\ PartOf(o, p, 0) = 0
         /\ \A m \in 0..n : PartOf(o, p, m) <= PartOf(o, p, n)
<1> DEFINE N == Len(Items[o])
           f == QuantitiesOf(o)
           S(m) == {i \in 1..m : Items[o][i].option = p}
<1>1. N \in Nat /\ f \in [1..N -> Nat]
  BY ItemsAre
<1>2. \A m \in 0..N : S(m) \in SUBSET (1..N) /\ IsFiniteSet(S(m))
  <2>1. IsFiniteSet(1..N)
    BY <1>1, FS_Interval
  <2>2. \A m \in 0..N : S(m) \in SUBSET (1..N)
    BY <1>1
  <2> QED
    BY <2>1, <2>2, FS_Subset
<1>3. \A m \in 0..n : m \in 0..N /\ S(m) \in SUBSET S(n)
  BY <1>1
<1> HIDE DEF N, f, S
<1>4. \A m \in 0..n : SumOver(f, S(m)) <= SumOver(f, S(n)) /\ SumOver(f, S(n)) \in Nat
  BY <1>1, <1>2, <1>3, SumMonotone DEF N
<1>5. SumOver(f, S(0)) = 0
  <2>1. S(0) = {}
    BY DEF S
  <2> QED
    BY <2>1, SumEmpty
<1>6. 0 \in 0..n
  BY <1>1 DEF N
<1> QED
  BY <1>4, <1>5, <1>6 DEF PartOf, S, f

\* One more item adds its quantity to its option.
LEMMA PartNext ==
  ASSUME NEW o \in Orders, NEW p, NEW n \in 0..Len(Items[o]), n < Len(Items[o])
  PROVE  PartOf(o, p, n + 1) =
           PartOf(o, p, n) + (IF Items[o][n+1].option = p THEN Items[o][n+1].quantity ELSE 0)
<1> DEFINE N == Len(Items[o])
           f == QuantitiesOf(o)
           S(m) == {i \in 1..m : Items[o][i].option = p}
<1>1. N \in Nat /\ f \in [1..N -> Nat] /\ n + 1 \in 1..N /\ f[n+1] = Items[o][n+1].quantity
  BY ItemsAre DEF QuantitiesOf
<1>2. S(n) \in SUBSET (1..N) /\ IsFiniteSet(S(n)) /\ n + 1 \notin S(n)
  <2>1. IsFiniteSet(1..N)
    BY <1>1, FS_Interval
  <2>2. S(n) \in SUBSET (1..N) /\ n + 1 \notin S(n)
    BY <1>1
  <2> QED
    BY <2>1, <2>2, FS_Subset
<1>3. CASE Items[o][n+1].option = p
  <2>1. S(n + 1) = S(n) \cup {n + 1}
    BY <1>1, <1>3
  <2> HIDE DEF N, f, S
  <2>2. f \in [1..N -> Int]
    BY <1>1
  <2>3. SumOver(f, S(n) \cup {n + 1}) = SumOver(f, S(n)) + f[n+1]
    <3> DEFINE D == 1..N
               T == S(n)
               x == n + 1
    <3>1. /\ f \in [D -> Int] /\ T \in SUBSET D /\ IsFiniteSet(T)
          /\ x \in D /\ x \notin T
      BY <1>1, <1>2, <2>2
    <3> HIDE DEF D, T, x
    <3>2. SumOver(f, T \cup {x}) = SumOver(f, T) + f[x]
      BY <3>1, SumAdd
    <3> QED
      BY Zenon, <3>2 DEF T, x
  <2>4. SumOver(f, S(n + 1)) = SumOver(f, S(n)) + Items[o][n+1].quantity
    BY Zenon, <1>1, <2>1, <2>3
  <2> QED
    BY <1>3, <2>4 DEF PartOf, S, f
<1>4. CASE Items[o][n+1].option # p
  <2>1. S(n + 1) = S(n)
    BY <1>1, <1>4
  <2>2. PartOf(o, p, n) \in Nat
    BY PartIs
  <2> HIDE DEF S
  <2>3. PartOf(o, p, n + 1) = SumOver(f, S(n + 1)) /\ PartOf(o, p, n) = SumOver(f, S(n))
    BY DEF PartOf, S
  <2> QED
    BY <1>4, <2>1, <2>2, <2>3
<1> QED
  BY <1>3, <1>4

\* The quantity of an option in an order is that of all its items.
LEMMA QuantityIs ==
  ASSUME NEW o \in Orders, NEW p
  PROVE  QuantityOf(o, p) = PartOf(o, p, Len(Items[o]))
<1> DEFINE N == Len(Items[o])
           f == QuantitiesOf(o)
           S == {i \in 1..N : Items[o][i].option = p}
           op(i) == Items[o][i].quantity
           B(g) == [s \in SUBSET S |-> IF s = {} THEN 0
                     ELSE Items[o][CHOOSE x \in s : TRUE].quantity
                          + g[s \ {CHOOSE x \in s : TRUE}]]
           C(g) == [s \in SUBSET S |-> IF s = {} THEN 0
                     ELSE f[CHOOSE x \in s : TRUE] + g[s \ {CHOOSE x \in s : TRUE}]]
<1>1. \A x \in S : f[x] = Items[o][x].quantity
  BY DEF QuantitiesOf
<1>2. \A g : B(g) = C(g)
  <2> SUFFICES ASSUME NEW g PROVE B(g) = C(g)
    OBVIOUS
  <2>1. \A s \in SUBSET S : s # {} => (CHOOSE x \in s : TRUE) \in S
    OBVIOUS
  <2> HIDE DEF f, S
  <2> QED
    BY <1>1, <2>1
<1>3. QuantityOf(o, p) = (CHOOSE g : g = B(g))[S]
  <2>1. {i \in DOMAIN Items[o] : Items[o][i].option = p} = S
    BY ItemsAre
  <2>2. QuantityOf(o, p) = MapThenSumSet(op, S)
    BY <2>1, Zenon DEF QuantityOf
  <2> HIDE DEF S
  <2>3. MapThenSumSet(op, S) = (CHOOSE g : g = B(g))[S]
    BY Zenon DEF MapThenSumSet, MapThenFoldSet
  <2> QED
    BY <2>2, <2>3
<1>4. SumOver(f, S) = (CHOOSE g : g = C(g))[S]
  <2> HIDE DEF S, f
  <2> QED
    BY Zenon DEF SumOver, MapThenSumSet, MapThenFoldSet
<1>5. QuantityOf(o, p) = SumOver(f, S)
  <2> HIDE DEF B, C, f, S
  <2>1. (CHOOSE g : g = B(g)) = (CHOOSE g : g = C(g))
    BY <1>2, Zenon
  <2> QED
    BY <1>3, <1>4, <2>1, Zenon
<1> QED
  BY <1>5 DEF PartOf

-----------------------------------------------------------------------------
StockTypes(o) ==
  /\ Confirmed(o) \in 0..Len(Items[o]) /\ Restored(o) \in 0..Len(Items[o])
  /\ \A p : NetOf(o, p) \in Int /\ NetOf(o, p) <= QuantityOf(o, p) /\ QuantityOf(o, p) \in Nat

\* What an order has confirmed and restored are counts of its items.
LEMMA NetIs ==
  ASSUME TypeOK, NEW o \in Orders, StockFlow(o)
  PROVE  StockTypes(o)
<1> DEFINE N == Len(Items[o])
<1>1. N \in Nat
  BY ItemsAre
<1>2. /\ task[ConfirmGroup][o].done \in 0..N
      /\ task[RestoreFirst][o].done \in 0..N /\ task[RestoreLast][o].done \in 0..N
      /\ queue[RestoreFirst][o] = <<>> => task[RestoreFirst][o].done = 0
      /\ queue[RestoreLast][o] = <<>> => task[RestoreLast][o].done = 0
  BY DEF StockFlow, StockHandlers
<1>3. queue[RestoreFirst][o] = <<>> \/ queue[RestoreLast][o] = <<>>
  <2> DEFINE a == Len(queue[RestoreFirst][o])
             b == Len(queue[RestoreLast][o])
  <2>1. /\ queue[RestoreFirst][o] \in Seq(Message) /\ queue[RestoreLast][o] \in Seq(Message)
    BY DEF TypeOK, RestoreFirst, RestoreLast, Groups, ProductFailGroups
  <2>2. /\ a \in Nat /\ b \in Nat
        /\ queue[RestoreFirst][o] # <<>> => a # 0
        /\ queue[RestoreLast][o] # <<>> => b # 0
    BY <2>1
  <2>3. a + b <= 1
    BY DEF StockFlow
  <2> HIDE DEF a, b
  <2>4. a = 0 \/ b = 0
    BY <2>2, <2>3
  <2> QED
    BY <2>2, <2>4
<1> HIDE DEF N
<1>4. task[RestoreFirst][o].done + task[RestoreLast][o].done \in 0..N
  BY <1>1, <1>2, <1>3
<1>5. Confirmed(o) \in 0..N /\ Restored(o) \in 0..N
  BY <1>1, <1>2, <1>4 DEF Confirmed, Restored, N
<1>6. ASSUME NEW p
      PROVE  NetOf(o, p) \in Int /\ NetOf(o, p) <= QuantityOf(o, p) /\ QuantityOf(o, p) \in Nat
  <2>1. N \in 0..Len(Items[o]) /\ Confirmed(o) \in 0..N
    BY <1>1, <1>5 DEF N
  <2>2. PartOf(o, p, N) \in Nat /\ PartOf(o, p, Confirmed(o)) <= PartOf(o, p, N)
    BY <2>1, PartIs
  <2>3. PartOf(o, p, Confirmed(o)) \in Nat /\ PartOf(o, p, Restored(o)) \in Nat
    BY <1>5, PartIs DEF N
  <2>4. QuantityOf(o, p) = PartOf(o, p, N)
    BY QuantityIs DEF N
  <2> HIDE DEF QuantityOf
  <2> QED
    BY <2>2, <2>3, <2>4 DEF NetOf
<1> QED
  BY <1>5, <1>6 DEF StockTypes, N

FlowsAreTyped == \A x \in Orders : TypeOK /\ StockFlow(x) => StockTypes(x)

\* The same as an operator that hides the types
LEMMA FlowTyped == FlowsAreTyped
  BY NetIs DEF FlowsAreTyped

\* The same after a step
LEMMA FlowTypedNext == FlowsAreTyped'
  BY FlowTyped, PTL

SameNet(x) == Confirmed(x)' = Confirmed(x) /\ Restored(x)' = Restored(x)

\* An order that has confirmed and restored no more has the same net.
LEMMA NetStays ==
  ASSUME NEW x, SameNet(x), NEW p
  PROVE  NetOf(x, p)' = NetOf(x, p)
  BY DEF NetOf, SameNet

\* The account stays even where neither a net nor an option changes.
LEMMA AccountStays ==
  ASSUME StockAccount, \A x \in Orders : SameNet(x), options' = options
  PROVE  StockAccount'
<1>1. \A p : Nets(p)' = Nets(p)
  BY NetStays DEF Nets
<1> QED
  BY <1>1 DEF StockAccount

Takes(before, after, d) ==
  after = [stock |-> before.stock - d, reserved |-> before.reserved - d]

\* The account stays even where an option gives what one order's net gains.
LEMMA AccountMoves ==
  ASSUME IsFiniteSet(Orders), StockAccount, NEW o \in Orders,
         \A x \in Orders : StockTypes(x), \A x \in Orders : StockTypes(x)',
         \A x \in Orders \ {o} : SameNet(x),
         \A p \in Options : Takes(options[p], options'[p], NetOf(o, p)' - NetOf(o, p))
  PROVE  StockAccount'
<1> SUFFICES ASSUME NEW p \in Options
             PROVE  options'[p] =
                      [stock    |-> InitialOptions[p].stock - SumOver(Nets(p)', Orders),
                       reserved |-> InitialOptions[p].reserved - SumOver(Nets(p)', Orders)]
  BY DEF StockAccount
<1>1. Nets(p) \in [Orders -> Int] /\ Nets(p)' \in [Orders -> Int]
  BY DEF Nets, StockTypes
<1>2. \A y \in Orders \ {o} : Nets(p)[y] = Nets(p)'[y]
  BY NetStays DEF Nets
<1>3. Nets(p)[o] = NetOf(o, p) /\ Nets(p)'[o] = NetOf(o, p)'
  BY DEF Nets
<1>4. /\ SumOver(Nets(p), Orders) \in Int
      /\ SumOver(Nets(p)', Orders) = SumOver(Nets(p), Orders) + (NetOf(o, p)' - NetOf(o, p))
  <2> DEFINE f == Nets(p)
             h == Nets(p)'
  <2> HIDE DEF f, h
  <2>1. SumOver(f, Orders) \in Int /\ SumOver(h, Orders) = SumOver(f, Orders) + (h[o] - f[o])
    BY <1>1, <1>2, SumChange DEF f, h
  <2> QED
    BY <1>3, <2>1 DEF f, h
<1>5. /\ options[p] = [stock    |-> InitialOptions[p].stock - SumOver(Nets(p), Orders),
                       reserved |-> InitialOptions[p].reserved - SumOver(Nets(p), Orders)]
      /\ InitialOptions[p].stock \in Int /\ InitialOptions[p].reserved \in Int
  BY SagaAssumption DEF StockAccount, Option
<1>6. NetOf(o, p)' \in Int /\ NetOf(o, p) \in Int
  BY DEF StockTypes
<1>7. Takes(options[p], options'[p], NetOf(o, p)' - NetOf(o, p))
  OBVIOUS
<1> QED
  BY <1>4, <1>5, <1>6, <1>7 DEF Takes

-----------------------------------------------------------------------------
(***************************************************************************)
(* The steps that do not touch the stock.                                  *)
(***************************************************************************)
Keeps(o) == StockFlow(o)' /\ SameNet(o) /\ options' = options

\* The stock's handlers, the order's and the coupon's are different groups.
LEMMA StockGroupsAre ==
  /\ StockHandlers \subseteq Groups /\ OrderFailGroups \subseteq Groups
  /\ ProductFailGroups = {RestoreFirst, RestoreLast} /\ ClearGroup \in OrderFailGroups
  /\ StockHandlers \cap OrderFailGroups = {} /\ UseGroup \in Groups
  /\ UseGroup \notin StockHandlers \cup OrderFailGroups
  BY DEF StockHandlers, OrderFailGroups, ProductFailGroups, RestoreFirst, RestoreLast, ClearGroup,
         ConfirmGroup, UseGroup, Groups

\* The stock's handlers and the order's see nothing of the step.
Bystander(o) ==
  /\ \A h \in StockHandlers \cup OrderFailGroups :
       queue'[h][o] = queue[h][o] /\ task'[h][o] = task[h][o]
  /\ Shrinks(UseGroup, o)
  /\ attempts'[o] = attempts[o] /\ task'["client"][o] = task["client"][o]
  /\ orders'[o].status = "PENDING" <=> orders[o].status = "PENDING"
  /\ options' = options

\* A coupon's message of a payment that does not fail stays one.
LEMMA UseGroupKept ==
  ASSUME NEW o \in Orders, Given(o), StockFlow(o), Shrinks(UseGroup, o), Failing(o)' = Failing(o)
  PROVE  (queue[UseGroup][o] # <<>> /\ Received(UseGroup, o).coupon # NoCoupon => ~Failing(o))'
<1>1. CASE queue'[UseGroup][o] = queue[UseGroup][o]
  BY <1>1 DEF StockFlow, Received
<1>2. CASE queue[UseGroup][o] # <<>> /\ queue'[UseGroup][o] = Tail(queue[UseGroup][o])
  <2>1. queue'[UseGroup][o] = <<>>
    BY <1>2, CouponOfPayment, UsesCoupon
  <2> QED
    BY <2>1
<1> QED
  BY <1>1, <1>2 DEF Shrinks

\* A step that the stock's and the order's handlers do not see keeps their flow.
LEMMA BystanderKeeps ==
  ASSUME NEW o \in Orders, Given(o), StockFlow(o), Bystander(o)
  PROVE  Keeps(o)
<1>1. Untouched(o)' = Untouched(o)
  BY DEF Untouched, Bystander
<1>2. Failing(o)' = Failing(o)
  <2>1. \A g \in OrderFailGroups : queue'[g][o] = queue[g][o]
    BY DEF Bystander
  <2>2. orders'[o].status = "PENDING" <=> orders[o].status = "PENDING"
    BY DEF Bystander
  <2> QED
    BY <1>1, <2>1, <2>2, Zenon DEF Failing
<1>3. \A h \in StockHandlers : queue'[h][o] = queue[h][o] /\ task'[h][o] = task[h][o]
  BY DEF Bystander
<1>4. SameNet(o)
  BY <1>1, <1>2, <1>3 DEF SameNet, Confirmed, Restored, StockHandlers
<1>5. (queue[UseGroup][o] # <<>> /\ Received(UseGroup, o).coupon # NoCoupon => ~Failing(o))'
  BY <1>2, UseGroupKept DEF Bystander
<1>6. (task[ClearGroup][o].pc = "clear" => orders[o].status = "PENDING")'
  BY StockGroupsAre DEF Bystander, StockFlow
<1>7. StockFlow(o)'
  BY <1>2, <1>3, <1>5, <1>6, StockGroupsAre DEF StockFlow, StockHandlers
<1> QED
  BY <1>4, <1>7 DEF Keeps, Bystander

\* The ways in which a handler away from the stock goes on
QuietTopics ==
  {"order.processing.stock.success", "order.processing.coupon.success",
   "order.processing.success", "order.payment", "order.payment.success", "order.processed"}

FlowAway(g, o) ==
  \/ \E t : Goto(g, o, t) /\ queue' = queue
  \/ \E t, m : \E topic \in QuietTopics : Goto(g, o, t) /\ queue' = Published(topic, o, m)
  \/ Return(g, o, queue)
  \/ \E m : \E topic \in QuietTopics :
       g \notin Subscribers(topic) /\ Return(g, o, Published(topic, o, m))

\* The quiet topics reach neither the stock's handlers nor the order's.
LEMMA QuietTopicsAre ==
  \A topic \in QuietTopics :
    Subscribers(topic) \cap (StockHandlers \cup OrderFailGroups \cup {UseGroup}) = {}
  BY DEF QuietTopics, Subscribers, StockHandlers, OrderFailGroups, UseGroup, ConfirmGroup,
         RestoreFirst, RestoreLast

\* A handler elsewhere that answers on a quiet topic is a bystander.
LEMMA FlowIsAway ==
  ASSUME NEW o \in Orders, Given(o), NEW g \in Groups,
         g \notin StockHandlers \cup OrderFailGroups, queue[g][o] # <<>>,
         FlowAway(g, o), attempts' = attempts, options' = options,
         orders'[o].status = "PENDING" <=> orders[o].status = "PENDING"
  PROVE  Bystander(o)
<1> DEFINE H == StockHandlers \cup OrderFailGroups
<1>0. TypeOK /\ First(o)' /\ g \in Workers /\ "client" \in Workers /\ g # "client"
      /\ H \subseteq Groups \ {g} /\ H \subseteq Workers /\ UseGroup \notin H /\ UseGroup \in Groups
  BY GroupsAre, StockGroupsAre DEF Given
<1>1. \E t : Goto(g, o, t)
  BY DEF FlowAway, Return
<1>2. \A v \in Workers \ {g} : task'[v][o] = task[v][o]
  BY <1>0, <1>1, GotoTask DEF TaskOf
<1>3. (\A h \in H : queue'[h][o] = queue[h][o]) /\ Shrinks(UseGroup, o)
  <2>1. CASE queue' = queue
    BY <2>1 DEF Shrinks
  <2>2. ASSUME NEW m, NEW topic \in QuietTopics, queue' = Published(topic, o, m)
        PROVE  (\A h \in H : queue'[h][o] = queue[h][o]) /\ Shrinks(UseGroup, o)
    <3>1. Sent(o, topic, m)
      BY <1>0, <2>2, FirstSend
    <3>2. \A h \in Groups : h \notin Subscribers(topic) => queue'[h][o] = queue[h][o]
      BY <3>1 DEF Sent
    <3>3. \A h \in H \cup {UseGroup} : h \in Groups /\ h \notin Subscribers(topic)
      BY <1>0, QuietTopicsAre
    <3> QED
      BY <3>2, <3>3 DEF Shrinks
  <2>3. CASE Return(g, o, queue)
    <3>1. Took(g, o)
      BY <1>0, <2>3, FirstReturn
    <3> QED
      BY <1>0, <3>1 DEF Took, Shrinks
  <2>4. ASSUME NEW m, NEW topic \in QuietTopics, g \notin Subscribers(topic),
               Return(g, o, Published(topic, o, m))
        PROVE  (\A h \in H : queue'[h][o] = queue[h][o]) /\ Shrinks(UseGroup, o)
    <3>1. Answered(g, o, topic, m)
      BY <1>0, <2>4, FirstAnswer
    <3>2. \A h \in Groups \ {g} : h \notin Subscribers(topic) => queue'[h][o] = queue[h][o]
      BY <3>1 DEF Answered
    <3>3. \A h \in H \cup {UseGroup} : h \in Groups /\ h \notin Subscribers(topic)
      BY <1>0, QuietTopicsAre
    <3>4. queue'[g][o] = Tail(queue[g][o])
      BY <3>1 DEF Answered
    <3> QED
      BY <1>0, <3>2, <3>3, <3>4 DEF Shrinks
  <2> QED
    BY <2>1, <2>2, <2>3, <2>4 DEF FlowAway
<1> QED
  BY <1>0, <1>2, <1>3 DEF Bystander


Away(o) ==
  \E g \in Groups \ (StockHandlers \cup OrderFailGroups) :
    queue[g][o] # <<>> /\ FlowAway(g, o) /\ UNCHANGED <<orders, options, attempts>>

\* A step away keeps the flow.
LEMMA AwayKeeps ==
  ASSUME NEW o \in Orders, Given(o), StockFlow(o), Away(o)
  PROVE  Keeps(o)
  BY FlowIsAway, BystanderKeeps DEF Away

\* The groups away from the stock
LEMMA AwayGroups ==
  /\ MarkGroups \cup CouponFailGroups
       \cup {"order-order-processing-init", UseGroup, DiscountGroup, DeductGroup, CompleteGroup,
             ExportGroup, RankGroup}
     \subseteq Groups \ (StockHandlers \cup OrderFailGroups)
  /\ MarkGroups = {"order-order-processing-stock-success", "order-order-processing-coupon-success"}
  BY DEF MarkGroups, CouponFailGroups, UseGroup, DiscountGroup, DeductGroup, CompleteGroup,
         ExportGroup, RankGroup, StockHandlers, OrderFailGroups, ConfirmGroup, RestoreFirst,
         RestoreLast, Groups

\* A handler that goes on publishes nothing.
LEMMA ContinueIsAway ==
  ASSUME NEW o, NEW g, NEW p, Continue(g, o, p)
  PROVE  FlowAway(g, o)
  BY DEF Continue, FlowAway

\* A handler that returns without a message publishes nothing.
LEMMA ReturnIsAway ==
  ASSUME NEW o, NEW g, Return(g, o, queue)
  PROVE  FlowAway(g, o)
  BY DEF FlowAway

\* The coordinator's steps away from the stock
LEMMA AggregateAway ==
  ASSUME NEW o \in Orders,
         \/ InitCoordinator(o)
         \/ \E g \in MarkGroups : MarkOk(g, o) \/ PublishReady(g, o)
         \/ \E g \in MarkGroups \cup {DiscountGroup} : ClearStore(g, o)
  PROVE  Away(o)
<1>1. CASE InitCoordinator(o)
  BY <1>1, AwayGroups, ReturnIsAway DEF InitCoordinator, At, Away
<1>2. ASSUME NEW g \in MarkGroups, MarkOk(g, o)
      PROVE  Away(o)
  BY <1>2, AwayGroups, ReturnIsAway, ContinueIsAway DEF MarkOk, At, Away
<1>3. ASSUME NEW g \in MarkGroups, PublishReady(g, o)
      PROVE  Away(o)
  <2>1. FlowAway(g, o)
    <3>1. CASE Return(g, o, queue)
      BY <3>1, ReturnIsAway
    <3>2. CASE ~ Return(g, o, queue)
      <4>1. \E t, m : Goto(g, o, t) /\ queue' = Published("order.processing.success", o, m)
        BY <1>3, <3>2 DEF PublishReady
      <4> QED
        BY <4>1 DEF FlowAway, QuietTopics
    <3> QED
      BY <3>1, <3>2
  <2>2. queue[g][o] # <<>> /\ UNCHANGED <<orders, options, attempts>>
    BY <1>3 DEF PublishReady, At
  <2> QED
    BY <2>1, <2>2, AwayGroups DEF Away
<1>4. ASSUME NEW g \in MarkGroups \cup {DiscountGroup}, ClearStore(g, o)
      PROVE  Away(o)
  BY <1>4, AwayGroups, ReturnIsAway DEF ClearStore, At, Away
<1> QED
  BY <1>1, <1>2, <1>3, <1>4

\* The coupon's steps away from the stock, unless it reports a failure
LEMMA CouponAway ==
  ASSUME NEW o \in Orders, ProcessCoupon(o),
         ~ (CouponProcessingFailed(o) /\ (CancelCheck(o) \/ CancelUse(o)))
  PROVE  Away(o)
<1> DEFINE g == "coupon-order-processing"
<1>1. g \in Groups \ (StockHandlers \cup OrderFailGroups) /\ g = UseGroup
  BY AwayGroups DEF UseGroup
<1>2. queue[g][o] # <<>> /\ UNCHANGED <<orders, options, attempts>>
  BY DEF ProcessCoupon, SkipCoupon, UseCoupon, UseCouponFails, CreateUserCoupon, CouponUsed,
         RecordCouponFails, CancelCheck, CancelUse, At
<1>3. FlowAway(g, o)
  <2>1. CASE CouponUsed(o)
    <3>1. g \notin Subscribers("order.processing.coupon.success")
      BY DEF Subscribers
    <3>2. \E m : Return(g, o, Published("order.processing.coupon.success", o, m))
      BY <2>1 DEF CouponUsed
    <3> QED
      BY <3>1, <3>2 DEF FlowAway, QuietTopics
  <2>2. CASE SkipCoupon(o)
    BY <2>2, ReturnIsAway DEF SkipCoupon
  <2>3. CASE ~ CouponUsed(o) /\ ~ SkipCoupon(o)
    <3>1. \E p : Continue(g, o, p)
      BY <2>3 DEF ProcessCoupon, UseCoupon, UseCouponFails, CreateUserCoupon, RecordCouponFails,
                  CancelCheck, CancelUse
    <3> QED
      BY <3>1, ContinueIsAway
  <2> QED
    BY <2>1, <2>2, <2>3
<1> QED
  BY <1>1, <1>2, <1>3 DEF Away

\* The order's steps away from the stock
LEMMA OrderAway ==
  ASSUME NEW o \in Orders, ReadForPayment(o) \/ PublishPayment(o) \/ ReadForCompletion(o)
                             \/ PublishProcessed(o)
  PROVE  Away(o)
<1>1. CASE ReadForPayment(o)
  <2> DEFINE g == "order-processing-success"
  <2>1. queue[g][o] # <<>> /\ UNCHANGED <<orders, options, attempts>>
    BY <1>1 DEF ReadForPayment, At
  <2>2. FlowAway(g, o)
    <3>1. CASE orders[o].status # "PAYMENT_PROCESSING"
      <4>1. Return(g, o, queue)
        BY <1>1, <3>1 DEF ReadForPayment
      <4> QED
        BY <4>1, ReturnIsAway
    <3>2. CASE orders[o].status = "PAYMENT_PROCESSING"
      <4>1. queue' = queue
        BY <1>1, <3>2 DEF ReadForPayment
      <4>2. \E t : Goto(g, o, t)
        BY <1>1, <3>2, Zenon DEF ReadForPayment
      <4> QED
        BY <4>1, <4>2 DEF FlowAway
    <3> QED
      BY <3>1, <3>2
  <2> QED
    BY <2>1, <2>2, AwayGroups DEF Away, DiscountGroup
<1>2. CASE PublishPayment(o)
  <2> DEFINE g == "order-processing-success"
  <2>1. /\ queue[g][o] # <<>> /\ UNCHANGED <<orders, options, attempts>>
        /\ \E t, m : Goto(g, o, t) /\ queue' = Published("order.payment", o, m)
    BY <1>2 DEF PublishPayment, At
  <2>2. FlowAway(g, o)
    BY <2>1 DEF FlowAway, QuietTopics
  <2> QED
    BY <2>1, <2>2, AwayGroups DEF Away, DiscountGroup
<1>3. CASE ReadForCompletion(o)
  <2> DEFINE g == "order-payment-success"
  <2>1. /\ queue[g][o] # <<>> /\ UNCHANGED <<orders, options, attempts>>
        /\ \/ Return(g, o, queue) \/ Continue(g, o, "publish")
           \/ (\E t : Goto(g, o, t)) /\ queue' = queue
    BY <1>3 DEF ReadForCompletion, At
  <2>2. FlowAway(g, o)
    BY <2>1, ContinueIsAway DEF FlowAway
  <2> QED
    BY <2>1, <2>2, AwayGroups DEF Away, CompleteGroup
<1>4. CASE PublishProcessed(o)
  <2> DEFINE g == "order-payment-success"
  <2>1. /\ queue[g][o] # <<>> /\ UNCHANGED <<orders, options, attempts>>
        /\ \E m : Return(g, o, Published("order.processed", o, m))
    BY <1>4 DEF PublishProcessed, At
  <2>2. g \notin Subscribers("order.processed")
    BY DEF Subscribers
  <2>3. FlowAway(g, o)
    BY <2>1, <2>2 DEF FlowAway, QuietTopics
  <2> QED
    BY <2>1, <2>3, AwayGroups DEF Away, CompleteGroup
<1> QED
  BY <1>1, <1>2, <1>3, <1>4

\* The balance's steps away from the stock, unless it reports a failure
LEMMA DeductAway ==
  ASSUME NEW o \in Orders, DeductBalance(o) \/ PaymentSucceeded(o)
  PROVE  Away(o)
<1> DEFINE g == "user-order-payment"
<1>1. queue[g][o] # <<>> /\ UNCHANGED <<orders, options, attempts>>
  BY DEF DeductBalance, PaymentSucceeded, At
<1>2. FlowAway(g, o)
  <2>1. CASE DeductBalance(o)
    BY <2>1, ContinueIsAway DEF DeductBalance
  <2>2. CASE PaymentSucceeded(o)
    <3>1. \E m : Return(g, o, Published("order.payment.success", o, m))
      BY <2>2 DEF PaymentSucceeded
    <3>2. g \notin Subscribers("order.payment.success")
      BY DEF Subscribers
    <3> QED
      BY <3>1, <3>2 DEF FlowAway, QuietTopics
  <2> QED
    BY <2>1, <2>2
<1> QED
  BY <1>1, <1>2, AwayGroups DEF Away, DeductGroup

\* The coupon's release is away from the stock.
LEMMA ReleaseAway ==
  ASSUME NEW o \in Orders, NEW g \in CouponFailGroups,
         SkipRelease(g, o) \/ ReleaseCheck(g, o) \/ ReleaseUse(g, o) \/ DeleteUserCoupon(g, o)
  PROVE  Away(o)
<1>1. queue[g][o] # <<>> /\ UNCHANGED <<orders, options, attempts>>
  BY DEF SkipRelease, ReleaseCheck, ReleaseUse, DeleteUserCoupon, At
<1>2. Return(g, o, queue) \/ \E p : Continue(g, o, p)
  BY DEF SkipRelease, ReleaseCheck, ReleaseUse, DeleteUserCoupon
<1> QED
  BY <1>1, <1>2, AwayGroups, ReturnIsAway, ContinueIsAway DEF Away

\* Export and ranking are away from the stock.
LEMMA FinishAway ==
  ASSUME NEW o \in Orders, Finish(o)
  PROVE  Away(o)
  BY AwayGroups, ReturnIsAway
  DEF Finish, ExportOrder, RecordSales, At, Away, ExportGroup, RankGroup

-----------------------------------------------------------------------------
\* A lapse of the coordinator's state does not concern the stock.
LEMMA ExpireKeeps ==
  ASSUME NEW o \in Orders, Given(o), StockFlow(o), Expire(o)
  PROVE  Keeps(o)
<1>1. Bystander(o)
  BY DEF Expire, Bystander, Shrinks
<1> QED
  BY <1>1, BystanderKeeps

\* The discount leaves the order in payment.
LEMMA WriteDiscountKeeps ==
  ASSUME NEW o \in Orders, Given(o), StockFlow(o), WriteDiscount(o)
  PROVE  Keeps(o)
<1> DEFINE g == DiscountGroup
<1>1. PICK c \in MaybeCoupon : Payment(o, c)
  BY CouponOfPayment
<1>2. /\ queue[g][o] # <<>> /\ task[g][o].pc = "update" /\ attempts' = attempts
      /\ options' = options /\ orders' = [orders EXCEPT ![o] = task[g][o].row]
      /\ Continue(g, o, "publish")
  BY DEF WriteDiscount, At, DiscountGroup
<1>3. task[g][o].row = ApplyCoupon(orders[o], c) /\ orders \in [Orders -> Row]
  BY <1>1, <1>2 DEF Payment, Amounts, Given, TypeOK
<1>4. orders'[o].status = orders[o].status
  BY <1>2, <1>3 DEF ApplyCoupon, Row
<1>5. FlowAway(g, o) /\ g \in Groups \ (StockHandlers \cup OrderFailGroups)
  BY <1>2, ContinueIsAway, AwayGroups
<1> QED
  BY <1>2, <1>4, <1>5, FlowIsAway, BystanderKeeps

\* PAID takes nothing back.
LEMMA WritePaidKeeps ==
  ASSUME NEW o \in Orders, Given(o), StockFlow(o), WritePaid(o)
  PROVE  Keeps(o)
<1> DEFINE g == CompleteGroup
<1>1. PICK c \in MaybeCoupon : Payment(o, c)
  BY CouponOfPayment
<1>2. /\ queue[g][o] # <<>> /\ task[g][o].pc = "update" /\ attempts' = attempts
      /\ options' = options /\ orders' = [orders EXCEPT ![o] = task[g][o].row]
      /\ (\E t : Goto(g, o, t)) /\ queue' = queue
  BY DEF WritePaid, At, CompleteGroup
<1>3. task[g][o].row = CompletePayment(orders[o]) /\ orders \in [Orders -> Row]
  BY <1>1, <1>2 DEF Given, FirstPayment, Completion, TypeOK
<1>4. orders'[o].status = "PAID"
  BY <1>2, <1>3 DEF CompletePayment, Row
<1>5. FlowAway(g, o) /\ g \in Groups \ (StockHandlers \cup OrderFailGroups)
  BY <1>2, AwayGroups DEF FlowAway
<1>6. orders[o].status # "PENDING"
  <2> SUFFICES ASSUME orders[o].status = "PENDING" PROVE FALSE
    OBVIOUS
  <2>1. task["client"][o].pc = "idle"
    <3>1. g \in Groups /\ queue[g][o] # <<>>
      BY <1>2, AwayGroups
    <3> QED
      BY <3>1 DEF Given, FirstPayment, Untouched, Fresh
  <2>2. Dead(o, c)
    BY <1>1, <2>1 DEF Payment, Statuses
  <2>3. task[CompleteGroup][o].pc = "idle"
    BY <1>2, <2>2, DeadIsOut
  <2> QED
    BY <1>2, <2>3
<1> QED
  BY <1>2, <1>4, <1>5, <1>6, FlowIsAway, BystanderKeeps

-----------------------------------------------------------------------------
(***************************************************************************)
(* The request.                                                            *)
(***************************************************************************)
LEMMA UntouchedFails ==
  ASSUME NEW o \in Orders, Untouched(o), \A g \in Groups : queue[g][o] = <<>>
  PROVE  ~Failing(o) /\ Confirmed(o) = 0 /\ Restored(o) = 0
<1>1. ~Failing(o)
  BY GroupsAre DEF Failing
<1> QED
  BY <1>1 DEF Confirmed, Restored

UntouchedIsIdle ==
  \A o \in Orders :
    Untouched(o) /\ (\A g \in Groups : queue[g][o] = <<>>)
      => ~Failing(o) /\ Confirmed(o) = 0 /\ Restored(o) = 0

\* An order not yet published does not fail and has moved no stock.
LEMMA UntouchedIdle == UntouchedIsIdle
  BY UntouchedFails DEF UntouchedIsIdle

\* The same after a step
LEMMA UntouchedIdleNext == UntouchedIsIdle'
  BY UntouchedIdle, PTL

\* The request moves no stock before its publish.
LEMMA RequestWaits ==
  ASSUME NEW o \in Orders, Given(o), StockFlow(o), BeginPayment(o) \/ MarkProcessing(o)
  PROVE  Keeps(o)
<1>1. Untouched(o) /\ Untouched(o)' /\ (\E t : Goto("client", o, t)) /\ queue' = queue
      /\ options' = options
  <2>1. CASE BeginPayment(o)
    <3> DEFINE t == Holding("update", BeginPaymentProcessing(orders[o]))
    <3>1. /\ Goto("client", o, t) /\ queue' = queue /\ options' = options
          /\ task["client"][o].pc = "idle" /\ attempts' = [attempts EXCEPT ![o] = @ + 1]
      BY <2>1 DEF BeginPayment
    <3>2. attempts[o] = 0
      <4>1. attempts \in [Orders -> Nat] /\ attempts'[o] <= 1
        BY DEF Given, TypeOK, First
      <4> QED
        BY <3>1, <4>1
    <3>3. t.pc # "idle"
      BY DEF Holding
    <3> HIDE DEF t
    <3>4. task'["client"][o] = t
      BY <3>1, RequestTask
    <3> QED
      BY <3>1, <3>2, <3>3, <3>4 DEF Untouched
  <2>2. CASE MarkProcessing(o)
    <3> DEFINE t == [Idle EXCEPT !.pc = "publish"]
    <3>1. /\ Goto("client", o, t) /\ queue' = queue /\ options' = options
          /\ task["client"][o].pc = "update"
      BY <2>2 DEF MarkProcessing
    <3>2. t.pc # "idle"
      BY DEF Idle
    <3> HIDE DEF t
    <3>3. task'["client"][o] = t
      BY <3>1, RequestTask
    <3> QED
      BY <3>1, <3>2, <3>3 DEF Untouched
  <2> QED
    BY <2>1, <2>2
<1>2. \A g \in Groups : queue[g][o] = <<>> /\ task[g][o].pc = "idle"
  BY <1>1, UntouchedIsBare DEF Bare
<1>3. \A g \in Groups : queue'[g][o] = <<>> /\ task'[g][o] = task[g][o]
  BY <1>1, <1>2, RequestTask
<1>4. SameNet(o)
  BY <1>1, <1>2, <1>3, UntouchedIdle, UntouchedIdleNext DEF UntouchedIsIdle, SameNet
<1>5. StockFlow(o)'
  <2>1. /\ Len(queue'[ConfirmGroup][o]) = 0 /\ Len(queue'[RestoreFirst][o]) = 0
        /\ Len(queue'[RestoreLast][o]) = 0 /\ queue'[UseGroup][o] = <<>>
        /\ task'[ClearGroup][o].pc = "idle"
        /\ \A g \in ProductFailGroups : queue'[g][o] = <<>>
    BY <1>2, <1>3, StockGroupsAre DEF StockHandlers
  <2>2. \A g \in StockHandlers : task'[g][o] = task[g][o]
                                 /\ task[g][o].done = 0 /\ task[g][o].done \in 0..Len(Items[o])
    BY <1>2, <1>3, StockGroupsAre DEF StockFlow
  <2> QED
    BY <2>1, <2>2 DEF StockFlow
<1> QED
  BY <1>1, <1>4, <1>5 DEF Keeps

\* One message appended to none is one message.
LEMMA AppendOne ==
  ASSUME NEW m \in Message
  PROVE  Append(<<>>, m) # <<>> /\ Len(Append(<<>>, m)) = 1
<1>1. <<>> \in Seq(Message) /\ Len(<<>>) = 0
  OBVIOUS
<1> QED
  BY <1>1

\* The published request asks once for the order's stock.
LEMMA PublishProcessingKeeps ==
  ASSUME NEW o \in Orders, Given(o), StockFlow(o), PublishProcessing(o)
  PROVE  Keeps(o)
<1> DEFINE topic == "order.processing"
<1>1. PICK c \in MaybeCoupon : queue' = Published(topic, o, Msg(c))
  BY DEF PublishProcessing
<1>2. /\ task["client"][o].pc = "publish" /\ Goto("client", o, Idle)
      /\ UNCHANGED <<dataVars, attempts>>
  BY DEF PublishProcessing
<1>3. Untouched(o) /\ Bare(o) /\ Fresh(o) /\ attempts[o] = 1
  BY <1>2, UntouchedIsBare DEF Untouched
<1>4. \A g \in Groups : queue[g][o] = <<>> /\ task[g][o].pc = "idle"
  BY <1>3 DEF Bare
<1>5. task'["client"][o] = Idle /\ \A g \in Groups : task'[g][o] = task[g][o]
  BY <1>2, RequestTask
<1>6. ~Untouched(o)'
  BY <1>2, <1>3, <1>5, ClearTask DEF Untouched
<1>7. orders'[o].status = "PAYMENT_PROCESSING"
  BY <1>2, <1>3 DEF Fresh, BeginPaymentProcessing, PendingRow
<1>8. Msg(c) \in Message
  <2>1. NoCoupon \in MaybeCoupon
    BY DEF MaybeCoupon
  <2> QED
    BY <2>1 DEF Msg, Message
<1>9. Subscribers(topic) \cap {RestoreFirst, RestoreLast} = {} /\ ConfirmGroup \in Subscribers(topic)
      /\ Subscribers(topic) \cap OrderFailGroups = {}
  BY DEF Subscribers, RestoreFirst, RestoreLast, ConfirmGroup, OrderFailGroups
<1>10. \A h \in Groups : queue'[h][o] = IF h \in Subscribers(topic)
                                        THEN Append(<<>>, Msg(c)) ELSE <<>>
  <2> HIDE DEF topic
  <2>1. Sent(o, topic, Msg(c))
    BY <1>1, FirstSend DEF Given
  <2> QED
    BY <1>4, <2>1 DEF Sent
<1>11. /\ queue'[RestoreFirst][o] = <<>> /\ queue'[RestoreLast][o] = <<>>
       /\ queue'[ConfirmGroup][o] # <<>> /\ Len(queue'[ConfirmGroup][o]) = 1
       /\ Len(queue'[RestoreFirst][o]) = 0 /\ Len(queue'[RestoreLast][o]) = 0
       /\ \A g \in OrderFailGroups : queue'[g][o] = <<>>
  BY <1>8, <1>9, <1>10, StockGroupsAre, AppendOne DEF StockHandlers
<1>12. ~Failing(o)'
  BY <1>7, <1>11 DEF Failing
<1>13. \A g \in StockHandlers : task'[g][o] = task[g][o]
                                /\ task[g][o].done = 0 /\ task[g][o].done \in 0..Len(Items[o])
  BY <1>4, <1>5, StockGroupsAre DEF StockFlow
<1>14. Confirmed(o)' = 0 /\ Restored(o)' = 0
  BY <1>6, <1>11, <1>12, <1>13 DEF Confirmed, Restored, StockHandlers
<1>15. Confirmed(o) = 0 /\ Restored(o) = 0
  BY <1>3, <1>4, UntouchedFails
<1>16. task'[ClearGroup][o].pc = "idle"
  BY <1>4, <1>5, StockGroupsAre
<1>17. StockFlow(o)'
  BY <1>11, <1>12, <1>13, <1>16, StockGroupsAre DEF StockFlow
<1> QED
  BY <1>2, <1>14, <1>15, <1>17 DEF Keeps, SameNet

-----------------------------------------------------------------------------
(***************************************************************************)
(* A failure is published, and the order is taken back.                    *)
(***************************************************************************)
FailureTopics == {"order.processing.fail", "order.payment.fail"}

\* A topic of failure reaches the order, and one of the two restorations.
LEMMA FailureTopicsAre ==
  ASSUME NEW topic \in FailureTopics
  PROVE  /\ Subscribers(topic) \subseteq Groups \ {ConfirmGroup, UseGroup}
         /\ \E g \in OrderFailGroups : g \in Subscribers(topic)
         /\ \/ RestoreFirst \in Subscribers(topic) /\ RestoreLast \notin Subscribers(topic)
            \/ RestoreLast \in Subscribers(topic) /\ RestoreFirst \notin Subscribers(topic)
  BY DEF FailureTopics, Subscribers, Groups, ConfirmGroup, UseGroup, OrderFailGroups,
         ProductFailGroups, CouponFailGroups, RestoreFirst, RestoreLast

\* The first failure of the payment
LEMMA FailureKeeps ==
  ASSUME NEW o \in Orders, Given(o), StockFlow(o), ~Failing(o),
         NEW g \in {UseGroup, DeductGroup}, queue[g][o] # <<>>,
         NEW topic \in FailureTopics, NEW m \in Message, Return(g, o, Published(topic, o, m)),
         queue'[UseGroup][o] = <<>> \/ Received(UseGroup, o)'.coupon = NoCoupon,
         orders' = orders, options' = options, attempts' = attempts
  PROVE  Keeps(o)
<1>1. /\ g \in Groups /\ g \notin StockHandlers \cup OrderFailGroups /\ g \notin Subscribers(topic)
  BY AwayGroups DEF FailureTopics, Subscribers, UseGroup, DeductGroup
<1>2. Answered(g, o, topic, m) /\ TaskOf(g, o, Idle)
  BY <1>1, FirstAnswer DEF Given
<1>3. ~Untouched(o) /\ ~Untouched(o)'
  <2>1. Consumes(g, o)
    BY <1>1, <1>2, GroupsAre DEF Consumes, TaskOf
  <2> QED
    BY <2>1, Works
<1>4. \A h \in StockHandlers \cup OrderFailGroups :
        /\ task'[h][o] = task[h][o]
        /\ queue'[h][o] = IF h \in Subscribers(topic) THEN Append(queue[h][o], m) ELSE queue[h][o]
  BY <1>1, <1>2, StockGroupsAre, GroupsAre DEF TaskOf, Answered
<1>5. /\ queue[RestoreFirst][o] = <<>> /\ queue[RestoreLast][o] = <<>>
      /\ \A h \in OrderFailGroups : queue[h][o] = <<>>
  BY StockGroupsAre DEF StockFlow, Failing
<1>6. Failing(o)'
  <2>1. PICK h \in OrderFailGroups : h \in Subscribers(topic)
    BY FailureTopicsAre
  <2>2. queue'[h][o] # <<>>
    BY <1>4, <1>5, <2>1, AppendOne
  <2> QED
    BY <2>2 DEF Failing
<1>7. /\ Len(queue'[RestoreFirst][o]) + Len(queue'[RestoreLast][o]) <= 1
      /\ queue'[RestoreFirst][o] # <<>> \/ queue'[RestoreLast][o] # <<>>
  <2> DEFINE a == queue'[RestoreFirst][o]
             b == queue'[RestoreLast][o]
  <2>1. Len(<<>>) = 0
    OBVIOUS
  <2>2. /\ a = (IF RestoreFirst \in Subscribers(topic) THEN Append(<<>>, m) ELSE <<>>)
        /\ b = (IF RestoreLast \in Subscribers(topic) THEN Append(<<>>, m) ELSE <<>>)
    BY <1>4, <1>5 DEF StockHandlers
  <2>3. Append(<<>>, m) # <<>> /\ Len(Append(<<>>, m)) = 1
    BY AppendOne
  <2> HIDE DEF a, b
  <2>4. \/ RestoreFirst \in Subscribers(topic) /\ RestoreLast \notin Subscribers(topic)
        \/ RestoreLast \in Subscribers(topic) /\ RestoreFirst \notin Subscribers(topic)
    BY FailureTopicsAre
  <2>5. (a = Append(<<>>, m) /\ b = <<>>) \/ (a = <<>> /\ b = Append(<<>>, m))
    BY <2>2, <2>4
  <2>6. (Len(a) = 1 /\ Len(b) = 0) \/ (Len(a) = 0 /\ Len(b) = 1)
    BY <2>1, <2>3, <2>5
  <2>7. Len(a) + Len(b) <= 1
    <3> DEFINE la == Len(a)
               lb == Len(b)
    <3>1. (la = 1 /\ lb = 0) \/ (la = 0 /\ lb = 1)
      BY Zenon, <2>6
    <3> HIDE DEF la, lb
    <3>2. la + lb <= 1
      BY <3>1
    <3> QED
      BY Zenon, <3>2 DEF la, lb
  <2>8. a # <<>> \/ b # <<>>
    BY <2>3, <2>5
  <2> QED
    BY <2>7, <2>8 DEF a, b
<1>8. queue'[ConfirmGroup][o] = queue[ConfirmGroup][o]
  BY <1>4, FailureTopicsAre DEF StockHandlers
<1>9. \A h \in StockHandlers : task'[h][o] = task[h][o]
  BY <1>4
<1>10. task[RestoreFirst][o].done = 0 /\ task[RestoreLast][o].done = 0
  BY <1>5 DEF StockFlow, StockHandlers
<1>11. SameNet(o)
  <2>1. Confirmed(o)' = Confirmed(o)
    BY <1>3, <1>8, <1>9 DEF Confirmed, StockHandlers
  <2>2. Restored(o) = 0
    BY DEF Restored
  <2>3. Restored(o)' = 0
    BY <1>6, <1>7, <1>9, <1>10 DEF Restored, StockHandlers
  <2> QED
    BY <2>1, <2>2, <2>3 DEF SameNet
<1>12. StockFlow(o)'
  <2>1. Len(queue'[ConfirmGroup][o]) <= 1
    BY <1>8 DEF StockFlow
  <2>2. \A h \in StockHandlers : /\ task'[h][o].done \in 0..Len(Items[o])
                                 /\ queue'[h][o] = <<>> => task'[h][o].done = 0
    BY <1>8, <1>9, <1>10 DEF StockFlow, StockHandlers
  <2>3. task'[ClearGroup][o] = task[ClearGroup][o]
    BY <1>4, StockGroupsAre
  <2>4. (task[ClearGroup][o].pc = "clear" => orders[o].status = "PENDING")'
    BY <2>3 DEF StockFlow
  <2>5. (queue[UseGroup][o] # <<>> /\ Received(UseGroup, o).coupon # NoCoupon => ~Failing(o))'
    OBVIOUS
  <2>6. Len(queue'[RestoreFirst][o]) + Len(queue'[RestoreLast][o]) <= 1
    BY <1>7
  <2>7. (\A h \in ProductFailGroups : queue[h][o] # <<>> => Failing(o))'
    BY <1>6
  <2> QED
    BY <2>1, <2>2, <2>4, <2>5, <2>6, <2>7, Zenon DEF StockFlow
<1> QED
  BY <1>11, <1>12 DEF Keeps

\* A refused coupon has the stock restored once.
LEMMA CouponFailureKeeps ==
  ASSUME NEW o \in Orders, Given(o), StockFlow(o), CancelCheck(o) \/ CancelUse(o),
         CouponProcessingFailed(o)
  PROVE  Keeps(o)
<1>1. PICK c \in MaybeCoupon : Payment(o, c)
  BY CouponOfPayment
<1> DEFINE g == UseGroup
           m == [Msg(Received(g, o).coupon) EXCEPT !.by = "UseUserCouponByOrder"]
           topic == "order.processing.fail"
<1>2. Return(g, o, Published(topic, o, m))
  BY DEF CouponProcessingFailed, UseGroup
<1>3. /\ queue[g][o] # <<>> /\ task[g][o].pc # "idle"
      /\ attempts' = attempts /\ orders' = orders /\ options' = options
  BY DEF CancelCheck, CancelUse, At, UseGroup
<1>4. g \in Groups /\ g \notin Subscribers(topic) /\ topic \in FailureTopics
  BY GroupsAre DEF Subscribers, UseGroup, FailureTopics
<1>5. Carries(Received(g, o), c) /\ m \in Message
  BY <1>1, <1>3, <1>4, ReceivedCarries, MsgCarries
<1> HIDE DEF m, topic
<1>6. queue'[g][o] = Tail(queue[g][o])
  BY <1>2, <1>4, FirstAnswer DEF Given, Answered
<1>7. c # NoCoupon /\ queue'[g][o] = <<>>
  BY <1>1, <1>3, <1>6, UsesCoupon
<1>8. ~Failing(o)
  BY <1>3, <1>5, <1>7 DEF StockFlow, Carries
<1> QED
  BY <1>2, <1>3, <1>4, <1>5, <1>7, <1>8, FailureKeeps

\* A refused deduction has the stock restored once.
LEMMA PaymentFailedKeeps ==
  ASSUME FailuresAreReported, NEW o \in Orders, Given(o), StockFlow(o), PaymentFailed(o)
  PROVE  Keeps(o)
<1>1. PICK c \in MaybeCoupon : Payment(o, c)
  BY CouponOfPayment
<1> DEFINE g == DeductGroup
           m == Msg(Received(g, o).coupon)
           topic == "order.payment.fail"
<1>2. /\ queue[g][o] # <<>> /\ task[g][o].pc = "idle"
      /\ attempts' = attempts /\ orders' = orders /\ options' = options
      /\ Return(g, o, Published(topic, o, m))
  BY DEF PaymentFailed, At, FailuresAreReported, DeductGroup
<1>3. /\ g \in Groups /\ g \notin Subscribers(topic) /\ topic \in FailureTopics
      /\ UseGroup \in Groups \ {g} /\ UseGroup \notin Subscribers(topic)
  BY GroupsAre DEF Subscribers, UseGroup, DeductGroup, FailureTopics
<1>4. m \in Message
  BY <1>1, <1>2, <1>3, ReceivedCarries, MsgCarries
<1> HIDE DEF m, topic
<1>5. queue'[UseGroup][o] = queue[UseGroup][o]
  BY <1>2, <1>3, FirstAnswer DEF Given, Answered
<1>6. ~CouponOut(o)
  BY <1>2, DeductWorks
<1>7. queue[UseGroup][o] = <<>> \/ Received(UseGroup, o).coupon = NoCoupon
  <2>1. queue[UseGroup][o] = <<>> \/ c = NoCoupon
    BY <1>1, <1>6 DEF Payment, CouponHalf
  <2>2. CASE c = NoCoupon /\ queue[UseGroup][o] # <<>>
    BY <1>1, <1>3, <2>2, ReceivedCarries DEF Carries
  <2> QED
    BY <2>1, <2>2
<1>8. ~Failing(o)
  <2> SUFFICES ASSUME Failing(o) PROVE FALSE
    OBVIOUS
  <2>1. Dead(o, c)
    <3>1. CASE \E h \in OrderFailGroups : queue[h][o] # <<>>
      BY <1>1, <3>1, FailedIsDead
    <3>2. CASE ~Untouched(o) /\ orders[o].status = "PENDING"
      BY <1>1, <3>2 DEF Untouched, Payment, Statuses
    <3> QED
      BY <3>1, <3>2 DEF Failing
  <2>2. queue[DeductGroup][o] = <<>>
    BY <1>2, <2>1, DeadIsOut
  <2> QED
    BY <1>2, <2>2
<1>9. queue'[UseGroup][o] = <<>> \/ Received(UseGroup, o)'.coupon = NoCoupon
  BY <1>5, <1>7 DEF Received
<1> QED
  BY <1>2, <1>3, <1>4, <1>8, <1>9, FailureKeeps

-----------------------------------------------------------------------------
(***************************************************************************)
(* The order is taken back.                                                *)
(***************************************************************************)
LEMMA CancelKeeps ==
  ASSUME NEW o \in Orders, Given(o), StockFlow(o), NEW g \in OrderFailGroups,
         Consumes(g, o), \A h \in Groups \ {g} : queue'[h][o] = queue[h][o],
         NEW t, TaskOf(g, o, t), options' = options,
         \/ orders'[o].status = "PENDING"
         \/ queue'[g][o] # <<>> /\ orders' = orders /\ t.pc # "clear"
  PROVE  Keeps(o)
<1>1. ~Untouched(o) /\ ~Untouched(o)'
  BY Works
<1>2. Failing(o) /\ Failing(o)'
  <2>1. Failing(o)
    BY DEF Failing, Consumes
  <2>2. CASE orders'[o].status = "PENDING"
    BY <1>1, <2>1, <2>2 DEF Failing
  <2>3. CASE queue'[g][o] # <<>>
    BY <2>1, <2>3 DEF Failing
  <2> QED
    BY <2>1, <2>2, <2>3
<1>3. \A h \in StockHandlers : queue'[h][o] = queue[h][o] /\ task'[h][o] = task[h][o]
  BY StockGroupsAre, GroupsAre DEF TaskOf
<1>4. queue'[UseGroup][o] = queue[UseGroup][o]
  BY StockGroupsAre
<1>5. SameNet(o)
  BY <1>1, <1>2, <1>3 DEF SameNet, Confirmed, Restored, StockHandlers
<1>6. (task[ClearGroup][o].pc = "clear" => orders[o].status = "PENDING")'
  <2>1. CASE orders'[o].status = "PENDING"
    BY <2>1
  <2>2. CASE orders' = orders /\ t.pc # "clear"
    <3>1. CASE g = ClearGroup
      BY <2>2, <3>1 DEF TaskOf
    <3>2. CASE g # ClearGroup
      <4>1. task'[ClearGroup][o] = task[ClearGroup][o]
        BY <3>2, StockGroupsAre, GroupsAre DEF TaskOf
      <4> QED
        BY <2>2, <4>1 DEF StockFlow
    <3> QED
      BY <3>1, <3>2
  <2> QED
    BY <2>1, <2>2
<1>7. (queue[UseGroup][o] # <<>> /\ Received(UseGroup, o).coupon # NoCoupon => ~Failing(o))'
  <2>1. queue[UseGroup][o] # <<>> => Received(UseGroup, o).coupon = NoCoupon
    BY <1>2 DEF StockFlow
  <2>2. queue'[UseGroup][o] # <<>> => Received(UseGroup, o)'.coupon = NoCoupon
    BY <1>4, <2>1 DEF Received
  <2> QED
    BY <2>2
<1>8. StockFlow(o)'
  <2>1. (\A h \in ProductFailGroups : queue[h][o] # <<>> => Failing(o))'
    BY <1>2
  <2>2. /\ Len(queue'[ConfirmGroup][o]) <= 1
        /\ Len(queue'[RestoreFirst][o]) + Len(queue'[RestoreLast][o]) <= 1
        /\ \A h \in StockHandlers : /\ task'[h][o].done \in 0..Len(Items[o])
                                    /\ queue'[h][o] = <<>> => task'[h][o].done = 0
    BY <1>3 DEF StockFlow, StockHandlers
  <2> QED
    BY <1>6, <1>7, <2>1, <2>2, Zenon DEF StockFlow
<1> QED
  BY <1>5, <1>8 DEF Keeps

\* Reading the order to be cancelled moves no stock.
LEMMA ReadForCancelKeeps ==
  ASSUME NEW o \in Orders, Given(o), StockFlow(o), NEW g \in OrderFailGroups, ReadForCancel(g, o)
  PROVE  Keeps(o)
<1>1. PICK c \in MaybeCoupon : Payment(o, c)
  BY CouponOfPayment
<1>2. /\ g \in Groups /\ queue[g][o] # <<>>
      /\ orders' = orders /\ options' = options /\ attempts' = attempts
  BY GroupsAre DEF ReadForCancel, At
<1>3. CASE Cancellable(orders[o])
  <2> DEFINE t == Holding("update", CancelPayment(orders[o]))
  <2>1. Goto(g, o, t) /\ queue' = queue
    BY <1>3 DEF ReadForCancel
  <2>2. t.pc # "clear"
    BY DEF Holding
  <2> HIDE DEF t
  <2> QED
    BY <1>2, <2>1, <2>2, Goes, CancelKeeps
<1>4. CASE ~Cancellable(orders[o])
  <2>1. AfterCancel(g, o)
    BY <1>4 DEF ReadForCancel
  <2>2. Consumes(g, o) /\ \A h \in Groups \ {g} : queue'[h][o] = queue[h][o]
    BY <1>2, <2>1, AfterCancelEffect
  <2>3. PICK t : TaskOf(g, o, t)
    BY <1>2, <2>1, AfterCancelEffect
  <2>4. orders'[o].status = "PENDING"
    BY <1>1, <1>2, <1>4 DEF Payment, Statuses, Cancellable
  <2> QED
    BY <1>2, <2>2, <2>3, <2>4, CancelKeeps
<1> QED
  BY <1>3, <1>4

\* The cancelled order was failing and is PENDING.
LEMMA WriteCancelKeeps ==
  ASSUME NEW o \in Orders, Given(o), StockFlow(o), NEW g \in OrderFailGroups, WriteCancel(g, o)
  PROVE  Keeps(o)
<1>1. PICK c \in MaybeCoupon : Payment(o, c)
  BY CouponOfPayment
<1>2. /\ g \in Groups /\ queue[g][o] # <<>> /\ task[g][o].pc = "update" /\ AfterCancel(g, o)
      /\ orders' = [orders EXCEPT ![o] = task[g][o].row]
      /\ options' = options /\ attempts' = attempts
  BY GroupsAre DEF WriteCancel, At
<1>3. Consumes(g, o) /\ \A h \in Groups \ {g} : queue'[h][o] = queue[h][o]
  BY <1>2, AfterCancelEffect
<1>4. PICK t : TaskOf(g, o, t)
  BY <1>2, AfterCancelEffect
<1>5. orders'[o].status = "PENDING"
  <2>1. orders'[o] = task[g][o].row
    BY <1>2 DEF Given, TypeOK
  <2> QED
    BY <1>1, <1>2, <2>1 DEF Payment, Statuses
<1> QED
  BY <1>2, <1>3, <1>4, <1>5, CancelKeeps

\* Clearing the coordinator's state moves no stock.
LEMMA ClearKeeps ==
  ASSUME NEW o \in Orders, Given(o), StockFlow(o), ClearStore(ClearGroup, o)
  PROVE  Keeps(o)
<1>1. /\ queue[ClearGroup][o] # <<>> /\ task[ClearGroup][o].pc = "clear"
      /\ Return(ClearGroup, o, queue)
      /\ orders' = orders /\ options' = options /\ attempts' = attempts
  BY DEF ClearStore, At
<1>2. ClearGroup \in OrderFailGroups /\ ClearGroup \in Groups
  BY StockGroupsAre
<1>3. orders'[o].status = "PENDING"
  BY <1>1 DEF StockFlow
<1>4. /\ Consumes(ClearGroup, o) /\ TaskOf(ClearGroup, o, Idle)
      /\ \A h \in Groups \ {ClearGroup} : queue'[h][o] = queue[h][o]
  BY <1>1, <1>2, Returns
<1> QED
  BY <1>1, <1>2, <1>3, <1>4, CancelKeeps

-----------------------------------------------------------------------------
(***************************************************************************)
(* The stock moves, item by item.                                          *)
(***************************************************************************)
Moves(o) ==
  /\ StockFlow(o)'
  /\ \A p \in Options : Takes(options[p], options'[p], NetOf(o, p)' - NetOf(o, p))

\* A queue of one message is empty when it is taken.
LEMMA TookOne ==
  ASSUME TypeOK, TypeOK', NEW o \in Orders, NEW h \in Groups, queue[h][o] # <<>>,
         Len(queue[h][o]) <= 1, queue'[h][o] = Tail(queue[h][o])
  PROVE  queue'[h][o] = <<>>
<1>1. Len(queue'[h][o]) = Len(queue[h][o]) - 1
  BY MessagesTook
<1>2. Len(queue[h][o]) \in Nat
  BY MessagesAre
<1>3. queue'[h][o] \in Seq(Message)
  BY DEF TypeOK
<1>4. Len(queue'[h][o]) \in Nat
  BY <1>3
<1> QED
  BY <1>1, <1>2, <1>3, <1>4

\* Stock and reservation of one option move together.
LEMMA OptionMoves ==
  ASSUME TypeOK, NEW q \in Options, NEW d \in Int,
         options' = [options EXCEPT ![q] = [stock |-> options[q].stock - d,
                                            reserved |-> options[q].reserved - d]],
         NEW p \in Options
  PROVE  Takes(options[p], options'[p], IF p = q THEN d ELSE 0)
<1>1. options \in [Options -> Option]
  BY DEF TypeOK
<1>2. CASE p = q
  BY <1>1, <1>2 DEF Takes
<1>3. CASE p # q
  <2>1. options'[p] = options[p]
    BY <1>1, <1>3
  <2>2. /\ options[p].stock \in Int /\ options[p].reserved \in Int
        /\ options[p] = [stock |-> options[p].stock, reserved |-> options[p].reserved]
    BY <1>1 DEF Option
  <2>3. options[p].stock - 0 = options[p].stock /\ options[p].reserved - 0 = options[p].reserved
    BY <2>2
  <2> QED
    BY <1>3, <2>1, <2>2, <2>3 DEF Takes
<1> QED
  BY <1>2, <1>3

\* The confirmation of an item takes what the order's net gains.
LEMMA ConfirmStockMoves ==
  ASSUME NEW o \in Orders, Given(o), StockFlow(o), ConfirmStock(o)
  PROVE  Moves(o)
<1> DEFINE g == ConfirmGroup
           n == task[g][o].done
           q == Items[o][n + 1].option
           d == Items[o][n + 1].quantity
<1>1. /\ queue[g][o] # <<>> /\ n < Len(Items[o])
      /\ options' = [options EXCEPT ![q] = DecreaseStock(options[q], d)]
      /\ Goto(g, o, Doing("update", n + 1))
      /\ orders' = orders /\ queue' = queue /\ attempts' = attempts
  BY DEF ConfirmStock, At, ItemDone, ItemsLeft, CurrentItem, ConfirmGroup
<1>2. /\ TypeOK /\ g \in Groups /\ g \in StockHandlers /\ Len(Items[o]) \in Nat
      /\ n \in 0..Len(Items[o]) /\ StockTypes(o)
  BY StockGroupsAre, ItemsAre, NetIs DEF Given, StockFlow, StockHandlers
<1> HIDE DEF n, q, d
<1>3. Consumes(g, o) /\ TaskOf(g, o, Doing("update", n + 1))
  BY <1>1, <1>2, Goes
<1>4. /\ task'[g][o].done = n + 1
      /\ \A h \in Groups \ {g} : task'[h][o] = task[h][o]
  BY <1>2, <1>3, GroupsAre DEF TaskOf, Doing
<1>5. ~Untouched(o) /\ ~Untouched(o)'
  BY <1>3, Works
<1>6. Failing(o)' = Failing(o)
  <2>1. (Untouched(o))' <=> Untouched(o)
    BY <1>5
  <2> QED
    BY <1>1, <2>1, Zenon DEF Failing
<1>7. Confirmed(o) = n /\ Confirmed(o)' = n + 1
  BY <1>1, <1>4, <1>5 DEF Confirmed, n
<1>8. \A h \in {RestoreFirst, RestoreLast, ClearGroup} : task'[h][o] = task[h][o]
  <2>1. {RestoreFirst, RestoreLast, ClearGroup} \subseteq Groups \ {g}
    BY StockGroupsAre DEF StockHandlers, RestoreFirst, RestoreLast, ClearGroup, ConfirmGroup
  <2> QED
    BY <1>4, <2>1
<1>9. Restored(o)' = Restored(o)
  BY <1>1, <1>6, <1>8 DEF Restored
<1>10. ASSUME NEW p \in Options
       PROVE  Takes(options[p], options'[p], NetOf(o, p)' - NetOf(o, p))
  <2> DEFINE r == PartOf(o, p, Restored(o))
             s == PartOf(o, p, n)
             e == IF p = q THEN d ELSE 0
  <2>1. q \in Options /\ d \in Int
    BY <1>1, <1>2, ItemsAre DEF q, d
  <2>2. options' = [options EXCEPT ![q] = [stock |-> options[q].stock - d,
                                           reserved |-> options[q].reserved - d]]
    BY <1>1 DEF DecreaseStock
  <2>3. Takes(options[p], options'[p], e)
    BY <1>2, <2>1, <2>2, OptionMoves
  <2>4. NetOf(o, p) = s - r /\ NetOf(o, p)' = PartOf(o, p, n + 1) - r
    BY <1>7, <1>9 DEF NetOf
  <2>5. PartOf(o, p, n + 1) = s + e
    BY <1>1, <1>2, PartNext DEF q, d
  <2>6. r \in Nat /\ s \in Nat /\ e \in Int
    BY <1>2, <2>1, PartIs DEF StockTypes
  <2> HIDE DEF r, s, e
  <2>7. NetOf(o, p)' - NetOf(o, p) = e
    BY <2>4, <2>5, <2>6
  <2> QED
    BY <2>3, <2>7
<1>11. StockFlow(o)'
  <2>1. /\ Len(queue'[ConfirmGroup][o]) <= 1
        /\ Len(queue'[RestoreFirst][o]) + Len(queue'[RestoreLast][o]) <= 1
    BY <1>1 DEF StockFlow
  <2>2. \A h \in StockHandlers : /\ task'[h][o].done \in 0..Len(Items[o])
                                 /\ queue'[h][o] = <<>> => task'[h][o].done = 0
    BY <1>1, <1>2, <1>4, <1>8 DEF StockFlow, StockHandlers
  <2>3. (\A h \in ProductFailGroups : queue[h][o] # <<>> => Failing(o))'
    BY <1>1, <1>6 DEF StockFlow
  <2>4. (queue[UseGroup][o] # <<>> /\ Received(UseGroup, o).coupon # NoCoupon => ~Failing(o))'
    BY <1>1, <1>6 DEF StockFlow, Received
  <2>5. (task[ClearGroup][o].pc = "clear" => orders[o].status = "PENDING")'
    BY <1>1, <1>8 DEF StockFlow
  <2> QED
    BY <2>1, <2>2, <2>3, <2>4, <2>5, Zenon DEF StockFlow
<1> QED
  BY <1>10, <1>11 DEF Moves


\* Only one of the two restorations is at work.
LEMMA RestoresOnce ==
  ASSUME NEW o \in Orders, TypeOK, StockFlow(o), NEW g \in ProductFailGroups, queue[g][o] # <<>>
  PROVE  /\ Len(queue[g][o]) <= 1 /\ Failing(o) /\ Restored(o) = task[g][o].done
         /\ \A h \in ProductFailGroups \ {g} : queue[h][o] = <<>> /\ task[h][o].done = 0
<1> DEFINE a == queue[RestoreFirst][o]
           b == queue[RestoreLast][o]
<1>1. ProductFailGroups = {RestoreFirst, RestoreLast} /\ RestoreFirst # RestoreLast
  BY StockGroupsAre DEF RestoreFirst, RestoreLast
<1>2. /\ Len(a) \in Nat /\ (a = <<>> <=> Len(a) = 0)
      /\ Len(b) \in Nat /\ (b = <<>> <=> Len(b) = 0)
  BY <1>1, StockGroupsAre, MessagesAre DEF StockHandlers
<1>3. Len(a) + Len(b) <= 1
  BY DEF StockFlow
<1>4. Failing(o)
  BY DEF StockFlow
<1>5. /\ a = <<>> => task[RestoreFirst][o].done = 0
      /\ b = <<>> => task[RestoreLast][o].done = 0
      /\ task[RestoreFirst][o].done \in Int /\ task[RestoreLast][o].done \in Int
  BY DEF StockFlow, StockHandlers
<1> HIDE DEF a, b
<1>6. CASE g = RestoreFirst
  <2>0. a # <<>>
    BY <1>6 DEF a
  <2>1. Len(a) = 1 /\ b = <<>>
    <3> DEFINE m == Len(a)
               n == Len(b)
    <3>1. m # 0 /\ m \in Nat /\ n \in Nat /\ m + n <= 1
      BY <1>2, <1>3, <2>0
    <3> HIDE DEF m, n
    <3>2. m = 1 /\ n = 0
      BY <3>1
    <3> QED
      BY <1>2, <3>2 DEF m, n
  <2>2. Restored(o) = task[RestoreFirst][o].done + task[RestoreLast][o].done
    BY <1>4, <2>0 DEF Restored, a, b
  <2>3. Restored(o) = task[RestoreFirst][o].done
    BY <1>5, <2>1, <2>2
  <2> QED
    BY <1>1, <1>4, <1>5, <1>6, <2>1, <2>3 DEF a, b
<1>7. CASE g = RestoreLast
  <2>0. b # <<>>
    BY <1>7 DEF b
  <2>1. Len(b) = 1 /\ a = <<>>
    <3> DEFINE m == Len(b)
               n == Len(a)
    <3>1. m # 0 /\ m \in Nat /\ n \in Nat /\ m + n <= 1
      BY <1>2, <1>3, <2>0
    <3> HIDE DEF m, n
    <3>2. m = 1 /\ n = 0
      BY <3>1
    <3> QED
      BY <1>2, <3>2 DEF m, n
  <2>2. Restored(o) = task[RestoreFirst][o].done + task[RestoreLast][o].done
    BY <1>4, <2>0 DEF Restored, a, b
  <2>3. Restored(o) = task[RestoreLast][o].done
    BY <1>5, <2>1, <2>2
  <2> QED
    BY <1>1, <1>4, <1>5, <1>7, <2>1, <2>3 DEF a, b
<1> QED
  BY <1>1, <1>6, <1>7

RestoresAreOnce ==
  \A o \in Orders : TypeOK /\ StockFlow(o) =>
    \A g \in ProductFailGroups : queue[g][o] # <<>> => Restored(o) = task[g][o].done

\* The same as an operator that hides the queues
LEMMA RestoredOnce == RestoresAreOnce
  BY RestoresOnce DEF RestoresAreOnce

\* The same after a step
LEMMA RestoredOnceNext == RestoresAreOnce'
  BY RestoredOnce, PTL

\* The restoration of an item gives back what the order's net loses.
LEMMA RestoreItemMoves ==
  ASSUME NEW o \in Orders, Given(o), StockFlow(o), NEW g \in ProductFailGroups, RestoreItem(g, o)
  PROVE  Moves(o)
<1> DEFINE n == task[g][o].done
           q == Items[o][n + 1].option
           d == Items[o][n + 1].quantity
<1>1. /\ queue[g][o] # <<>> /\ n < Len(Items[o])
      /\ options' = [options EXCEPT ![q] = RestoreStock(options[q], d)]
      /\ Goto(g, o, Doing("update", n + 1))
      /\ orders' = orders /\ queue' = queue /\ attempts' = attempts
  BY DEF RestoreItem, At, ItemDone, ItemsLeft, CurrentItem
<1>2. /\ TypeOK /\ TypeOK' /\ g \in Groups /\ g \in StockHandlers /\ g # ConfirmGroup
      /\ g # ClearGroup /\ Len(Items[o]) \in Nat
      /\ n \in 0..Len(Items[o]) /\ StockTypes(o)
  <2>1. g \in Groups /\ g \in StockHandlers /\ g # ConfirmGroup /\ g # ClearGroup
    BY StockGroupsAre DEF StockHandlers, RestoreFirst, RestoreLast, ConfirmGroup, ClearGroup
  <2> QED
    BY <2>1, ItemsAre, NetIs DEF Given, StockFlow
<1> HIDE DEF n, q, d
<1>3. Consumes(g, o) /\ TaskOf(g, o, Doing("update", n + 1))
  BY <1>1, <1>2, Goes
<1>4. /\ task'[g][o].done = n + 1
      /\ \A h \in Groups \ {g} : task'[h][o] = task[h][o]
  BY <1>2, <1>3, GroupsAre DEF TaskOf, Doing
<1>5. ~Untouched(o) /\ ~Untouched(o)'
  BY <1>3, Works
<1>6. Failing(o)' = Failing(o)
  <2>1. (Untouched(o))' <=> Untouched(o)
    BY <1>5
  <2> QED
    BY <1>1, <2>1, Zenon DEF Failing
<1>7. Confirmed(o)' = Confirmed(o)
  <2>1. task'[ConfirmGroup][o] = task[ConfirmGroup][o]
    BY <1>2, <1>4, StockGroupsAre DEF StockHandlers
  <2> QED
    BY <1>1, <1>5, <2>1 DEF Confirmed
<1>8. StockFlow(o)'
  <2>1. /\ Len(queue'[ConfirmGroup][o]) <= 1
        /\ Len(queue'[RestoreFirst][o]) + Len(queue'[RestoreLast][o]) <= 1
    BY <1>1 DEF StockFlow
  <2>2. \A h \in StockHandlers : /\ task'[h][o].done \in 0..Len(Items[o])
                                 /\ queue'[h][o] = <<>> => task'[h][o].done = 0
    <3>1. \A h \in StockHandlers \ {g} : task'[h][o] = task[h][o]
      BY <1>4, StockGroupsAre
    <3> QED
      BY <1>1, <1>2, <1>4, <3>1 DEF StockFlow
  <2>3. (\A h \in ProductFailGroups : queue[h][o] # <<>> => Failing(o))'
    BY <1>1, <1>6 DEF StockFlow
  <2>4. (queue[UseGroup][o] # <<>> /\ Received(UseGroup, o).coupon # NoCoupon => ~Failing(o))'
    BY <1>1, <1>6 DEF StockFlow, Received
  <2>5. (task[ClearGroup][o].pc = "clear" => orders[o].status = "PENDING")'
    <3>1. task'[ClearGroup][o] = task[ClearGroup][o]
      BY <1>2, <1>4, StockGroupsAre
    <3> QED
      BY <1>1, <3>1 DEF StockFlow
  <2> QED
    BY <2>1, <2>2, <2>3, <2>4, <2>5, Zenon DEF StockFlow
<1>9. Restored(o) = n /\ Restored(o)' = n + 1
  <2>1. Restored(o) = n
    BY <1>1, <1>2, RestoredOnce DEF RestoresAreOnce, n
  <2>2. queue'[g][o] # <<>>
    BY <1>1
  <2>3. Restored(o)' = task'[g][o].done
    BY <1>2, <1>8, <2>2, RestoredOnceNext DEF RestoresAreOnce
  <2> QED
    BY <1>4, <2>1, <2>3
<1>10. ASSUME NEW p \in Options
       PROVE  Takes(options[p], options'[p], NetOf(o, p)' - NetOf(o, p))
  <2> DEFINE r == PartOf(o, p, n)
             s == PartOf(o, p, Confirmed(o))
             e == IF p = q THEN d ELSE 0
             f == IF p = q THEN 0 - d ELSE 0
  <2>1. q \in Options /\ d \in Int /\ 0 - d \in Int
    BY <1>1, <1>2, ItemsAre DEF q, d
  <2>2. options' = [options EXCEPT ![q] = [stock |-> options[q].stock - (0 - d),
                                           reserved |-> options[q].reserved - (0 - d)]]
    <3>1. options[q].stock \in Int /\ options[q].reserved \in Int
      BY <1>2, <2>1 DEF TypeOK, Option
    <3>2. /\ options[q].stock + d = options[q].stock - (0 - d)
          /\ options[q].reserved + d = options[q].reserved - (0 - d)
      BY <2>1, <3>1
    <3> QED
      BY <1>1, <3>2 DEF RestoreStock
  <2>3. Takes(options[p], options'[p], f)
    <3> DEFINE b == 0 - d
    <3>1. b \in Int
      BY <2>1
    <3>2. options' = [options EXCEPT ![q] = [stock |-> options[q].stock - b,
                                             reserved |-> options[q].reserved - b]]
      BY <2>2
    <3> HIDE DEF b
    <3>3. Takes(options[p], options'[p], IF p = q THEN b ELSE 0)
      BY <1>2, <2>1, <3>1, <3>2, OptionMoves
    <3> QED
      BY <3>3 DEF b
  <2>4. NetOf(o, p) = s - r /\ NetOf(o, p)' = s - PartOf(o, p, n + 1)
    BY <1>7, <1>9 DEF NetOf
  <2>5. PartOf(o, p, n + 1) = r + e
    BY <1>1, <1>2, PartNext DEF q, d
  <2>6. r \in Nat /\ s \in Nat /\ e \in Int
    BY <1>2, <2>1, PartIs DEF StockTypes
  <2>7. f = 0 - e
    BY <2>1
  <2> HIDE DEF r, s, e, f
  <2>8. NetOf(o, p)' - NetOf(o, p) = f
    BY <2>4, <2>5, <2>6, <2>7
  <2> QED
    BY <2>3, <2>8
<1> QED
  BY <1>8, <1>10 DEF Moves


\* All items are confirmed when the stock's half is answered.
LEMMA StockConfirmedKeeps ==
  ASSUME NEW o \in Orders, Given(o), StockFlow(o), StockConfirmed(o)
  PROVE  Keeps(o)
<1> DEFINE g == ConfirmGroup
           n == task[g][o].done
           m == Msg(Received(g, o).coupon)
           topic == "order.processing.stock.success"
<1>1. /\ queue[g][o] # <<>> /\ ~(n < Len(Items[o])) /\ Return(g, o, Published(topic, o, m))
      /\ orders' = orders /\ options' = options /\ attempts' = attempts
  BY DEF StockConfirmed, At, ItemsLeft, ConfirmGroup
<1>2. /\ TypeOK /\ TypeOK' /\ g \in Groups /\ g \in StockHandlers /\ Len(Items[o]) \in Nat
      /\ n \in 0..Len(Items[o]) /\ Len(queue[g][o]) <= 1
  BY StockGroupsAre, ItemsAre DEF Given, StockFlow, StockHandlers
<1>3. g \notin Subscribers(topic) /\ topic \in QuietTopics
  BY DEF Subscribers, ConfirmGroup, QuietTopics
<1> HIDE DEF n, m, topic
<1>4. /\ Consumes(g, o) /\ TaskOf(g, o, Idle) /\ queue'[g][o] = Tail(queue[g][o])
      /\ \A h \in Groups \ {g} : queue'[h][o] = IF h \in Subscribers(topic)
                                                THEN Append(queue[h][o], m) ELSE queue[h][o]
  BY <1>1, <1>2, <1>3, Answers
<1>5. queue'[g][o] = <<>>
  BY <1>1, <1>2, <1>4, TookOne
<1>6. /\ task'[g][o].done = 0
      /\ \A h \in Groups \ {g} : task'[h][o] = task[h][o]
  BY <1>2, <1>4, GroupsAre DEF TaskOf, Idle
<1>7. ~Untouched(o) /\ ~Untouched(o)'
  BY <1>4, Works
<1>8. {RestoreFirst, RestoreLast, UseGroup} \cup OrderFailGroups \subseteq Groups \ {g}
  BY StockGroupsAre
  DEF StockHandlers, RestoreFirst, RestoreLast, ConfirmGroup
<1>9. \A h \in {RestoreFirst, RestoreLast, UseGroup} \cup OrderFailGroups :
        queue'[h][o] = queue[h][o] /\ task'[h][o] = task[h][o]
  <2>1. \A h \in {RestoreFirst, RestoreLast, UseGroup} \cup OrderFailGroups : h \notin Subscribers(topic)
    BY <1>3, QuietTopicsAre DEF StockHandlers
  <2> QED
    BY <1>4, <1>6, <1>8, <2>1
<1>10. Failing(o)' = Failing(o)
  <2>1. (Untouched(o))' <=> Untouched(o)
    BY <1>7
  <2>2. \A h \in OrderFailGroups : queue'[h][o] = queue[h][o]
    BY <1>9
  <2> QED
    BY <1>1, <2>1, <2>2, Zenon DEF Failing
<1>11. SameNet(o)
  <2>1. n = Len(Items[o])
    BY <1>1, <1>2
  <2>2. Confirmed(o) = Len(Items[o]) /\ Confirmed(o)' = Len(Items[o])
    BY <1>1, <1>5, <1>7, <2>1 DEF Confirmed, n
  <2>3. Restored(o)' = Restored(o)
    BY <1>9, <1>10 DEF Restored
  <2> QED
    BY <2>2, <2>3 DEF SameNet
<1>12. StockFlow(o)'
  <2>1. Len(queue'[ConfirmGroup][o]) <= 1
    <3>1. Len(<<>>) = 0
      OBVIOUS
    <3> QED
      BY <1>5, <3>1
  <2>2. Len(queue'[RestoreFirst][o]) + Len(queue'[RestoreLast][o]) <= 1
    BY <1>9 DEF StockFlow
  <2>3. \A h \in StockHandlers : /\ task'[h][o].done \in 0..Len(Items[o])
                                 /\ queue'[h][o] = <<>> => task'[h][o].done = 0
    BY <1>2, <1>6, <1>9 DEF StockFlow, StockHandlers
  <2>4. (\A h \in ProductFailGroups : queue[h][o] # <<>> => Failing(o))'
    BY <1>9, <1>10, StockGroupsAre DEF StockFlow
  <2>5. (queue[UseGroup][o] # <<>> /\ Received(UseGroup, o).coupon # NoCoupon => ~Failing(o))'
    BY <1>9, <1>10 DEF StockFlow, Received
  <2>6. (task[ClearGroup][o].pc = "clear" => orders[o].status = "PENDING")'
    BY <1>1, <1>9, StockGroupsAre DEF StockFlow
  <2> QED
    BY <2>1, <2>2, <2>3, <2>4, <2>5, <2>6, Zenon DEF StockFlow
<1> QED
  BY <1>1, <1>11, <1>12 DEF Keeps

\* All items are restored when the restoration returns.
LEMMA StockRestoredKeeps ==
  ASSUME NEW o \in Orders, Given(o), StockFlow(o), NEW g \in ProductFailGroups, StockRestored(g, o)
  PROVE  Keeps(o)
<1> DEFINE n == task[g][o].done
<1>1. /\ queue[g][o] # <<>> /\ ~(n < Len(Items[o])) /\ Return(g, o, queue)
      /\ orders' = orders /\ options' = options /\ attempts' = attempts
  BY DEF StockRestored, At, ItemsLeft
<1>2. /\ TypeOK /\ TypeOK' /\ g \in Groups /\ g \in StockHandlers /\ g # ConfirmGroup
      /\ g # ClearGroup /\ g # UseGroup /\ g \notin OrderFailGroups
      /\ Len(Items[o]) \in Nat /\ n \in 0..Len(Items[o])
  <2>1. /\ g \in Groups /\ g \in StockHandlers /\ g # ConfirmGroup /\ g # ClearGroup
        /\ g # UseGroup /\ g \notin OrderFailGroups
    BY StockGroupsAre DEF StockHandlers, RestoreFirst, RestoreLast, ConfirmGroup, ClearGroup
  <2> QED
    BY <2>1, ItemsAre DEF Given, StockFlow
<1>3. /\ Len(queue[g][o]) <= 1 /\ Restored(o) = n /\ Failing(o)
      /\ \A h \in ProductFailGroups \ {g} : queue[h][o] = <<>>
  BY <1>1, <1>2, RestoresOnce
<1> HIDE DEF n
<1>4. /\ Consumes(g, o) /\ TaskOf(g, o, Idle) /\ Took(g, o)
      /\ \A h \in Groups \ {g} : queue'[h][o] = queue[h][o]
  BY <1>1, <1>2, Returns
<1>5. queue'[g][o] = <<>>
  BY <1>1, <1>2, <1>3, <1>4, TookOne DEF Took
<1>6. /\ task'[g][o].done = 0
      /\ \A h \in Groups \ {g} : task'[h][o] = task[h][o]
  BY <1>2, <1>4, GroupsAre DEF TaskOf, Idle
<1>7. ~Untouched(o) /\ ~Untouched(o)'
  BY <1>4, Works
<1>8. {ConfirmGroup, UseGroup} \cup OrderFailGroups \subseteq Groups \ {g}
  BY <1>2, StockGroupsAre DEF StockHandlers
<1>9. \A h \in {ConfirmGroup, UseGroup} \cup OrderFailGroups :
        queue'[h][o] = queue[h][o] /\ task'[h][o] = task[h][o]
  BY <1>4, <1>6, <1>8
<1>10. Failing(o)'
  <2>1. (Untouched(o))' <=> Untouched(o)
    BY <1>7
  <2>2. \A h \in OrderFailGroups : queue'[h][o] = queue[h][o]
    BY <1>9
  <2>3. Failing(o)' <=> Failing(o)
    BY <1>1, <2>1, <2>2, Zenon DEF Failing
  <2> QED
    BY <1>3, <2>3
<1>11. \A h \in ProductFailGroups : queue'[h][o] = <<>>
  <2>1. ASSUME NEW h \in ProductFailGroups \ {g}
        PROVE  queue'[h][o] = <<>>
    <3>1. h \in Groups \ {g}
      BY StockGroupsAre DEF StockHandlers
    <3>2. queue'[h][o] = queue[h][o]
      BY <1>4, <3>1
    <3> QED
      BY <1>3, <3>2
  <2> QED
    BY <1>5, <2>1
<1>12. SameNet(o)
  <2>1. n = Len(Items[o])
    BY <1>1, <1>2
  <2>2. Confirmed(o)' = Confirmed(o)
    BY <1>7, <1>9 DEF Confirmed
  <2>3. Restored(o)' = Len(Items[o])
    BY <1>10, <1>11, StockGroupsAre DEF Restored
  <2> QED
    BY <1>3, <2>1, <2>2, <2>3 DEF SameNet
<1>13. StockFlow(o)'
  <2>1. Len(queue'[ConfirmGroup][o]) <= 1
    BY <1>9 DEF StockFlow
  <2>2. Len(queue'[RestoreFirst][o]) + Len(queue'[RestoreLast][o]) <= 1
    <3>1. Len(<<>>) = 0
      OBVIOUS
    <3>2. Len(queue'[RestoreFirst][o]) = 0 /\ Len(queue'[RestoreLast][o]) = 0
      BY <1>11, <3>1, StockGroupsAre
    <3> QED
      BY <3>2
  <2>3. \A h \in StockHandlers : /\ task'[h][o].done \in 0..Len(Items[o])
                                 /\ queue'[h][o] = <<>> => task'[h][o].done = 0
    <3>1. \A h \in StockHandlers \ {g} : task'[h][o] = task[h][o] /\ queue'[h][o] = queue[h][o]
      BY <1>4, <1>6, StockGroupsAre
    <3> QED
      BY <1>2, <1>6, <3>1 DEF StockFlow
  <2>4. (\A h \in ProductFailGroups : queue[h][o] # <<>> => Failing(o))'
    BY <1>11
  <2>5. (queue[UseGroup][o] # <<>> /\ Received(UseGroup, o).coupon # NoCoupon => ~Failing(o))'
    <3>1. queue[UseGroup][o] # <<>> => Received(UseGroup, o).coupon = NoCoupon
      BY <1>3 DEF StockFlow
    <3>2. queue'[UseGroup][o] # <<>> => Received(UseGroup, o)'.coupon = NoCoupon
      BY <1>9, <3>1 DEF Received
    <3> QED
      BY <3>2
  <2>6. (task[ClearGroup][o].pc = "clear" => orders[o].status = "PENDING")'
    BY <1>1, <1>9, StockGroupsAre DEF StockFlow
  <2> QED
    BY <2>1, <2>2, <2>3, <2>4, <2>5, <2>6, Zenon DEF StockFlow
<1> QED
  BY <1>1, <1>12, <1>13 DEF Keeps

-----------------------------------------------------------------------------
(***************************************************************************)
(* The reservations cover what is confirmed.                               *)
(***************************************************************************)
Quantities(p) == [o \in Orders |-> QuantityOf(o, p)]

\* The reservations' assumption speaks of the sum that the lemmas are about.
LEMMA SumOfQuantities ==
  ASSUME NEW p, NEW S \in SUBSET Orders
  PROVE  MapThenSumSet(LAMBDA o : QuantityOf(o, p), S) = SumOver(Quantities(p), S)
<1> DEFINE f == Quantities(p)
           op(x) == QuantityOf(x, p)
           B(g) == [s \in SUBSET S |-> IF s = {} THEN 0
                     ELSE QuantityOf(CHOOSE x \in s : TRUE, p)
                          + g[s \ {CHOOSE x \in s : TRUE}]]
           C(g) == [s \in SUBSET S |-> IF s = {} THEN 0
                     ELSE f[CHOOSE x \in s : TRUE] + g[s \ {CHOOSE x \in s : TRUE}]]
<1>1. \A x \in S : f[x] = QuantityOf(x, p)
  BY DEF Quantities
<1>2. \A g : B(g) = C(g)
  <2> SUFFICES ASSUME NEW g PROVE B(g) = C(g)
    OBVIOUS
  <2>1. \A s \in SUBSET S : s # {} => (CHOOSE x \in s : TRUE) \in S
    OBVIOUS
  <2> HIDE DEF f
  <2> QED
    BY <1>1, <2>1
<1>3. MapThenSumSet(op, S) = (CHOOSE g : g = B(g))[S]
  BY Zenon DEF MapThenSumSet, MapThenFoldSet
<1>4. SumOver(f, S) = (CHOOSE g : g = C(g))[S]
  <2> HIDE DEF f
  <2> QED
    BY Zenon DEF SumOver, MapThenSumSet, MapThenFoldSet
<1>5. MapThenSumSet(op, S) = SumOver(f, S)
  <2> HIDE DEF B, C, f, op
  <2>1. (CHOOSE g : g = B(g)) = (CHOOSE g : g = C(g))
    BY <1>2, Zenon
  <2> QED
    BY <1>3, <1>4, <2>1, Zenon
<1> QED
  BY <1>5

\* The quantities of an option in the orders, as a function
LEMMA QuantitiesAre ==
  ASSUME NEW p
  PROVE  Quantities(p) \in [Orders -> Int] /\ \A o \in Orders : Quantities(p)[o] = QuantityOf(o, p)
<1>1. \A o \in Orders : QuantityOf(o, p) \in Int
  <2> SUFFICES ASSUME NEW o \in Orders PROVE QuantityOf(o, p) \in Int
    OBVIOUS
  <2>1. QuantityOf(o, p) = PartOf(o, p, Len(Items[o])) /\ Len(Items[o]) \in 0..Len(Items[o])
    BY QuantityIs, ItemsAre
  <2>2. PartOf(o, p, Len(Items[o])) \in Nat
    BY <2>1, PartIs
  <2> QED
    BY <2>1, <2>2
<1> QED
  BY <1>1 DEF Quantities

\* An option's reservation covers what all orders contain of it.
LEMMA ReservedEnough ==
  ASSUME NEW p \in Options
  PROVE  SumOver(Quantities(p), Orders) <= InitialOptions[p].reserved
  BY SumOfQuantities, ReservationAssumption

\* The stock of the next item of an order that is being confirmed is there.
LEMMA NeverShort ==
  ASSUME TypeOK, \A x \in Orders : StockFlow(x), StockAccount, NEW o \in Orders,
         ~Untouched(o), queue[ConfirmGroup][o] # <<>>, ItemsLeft(ConfirmGroup, o)
  PROVE  LET item == CurrentItem(ConfirmGroup, o) IN
         ValidStock(DecreaseStock(options[item.option], item.quantity))
<1> DEFINE n == task[ConfirmGroup][o].done
           p == Items[o][n + 1].option
           d == Items[o][n + 1].quantity
           N == Len(Items[o])
           r == PartOf(o, p, Restored(o))
           f == Nets(p)
           h == [f EXCEPT ![o] = @ + d]
           k == Quantities(p)
<1>1. /\ N \in Nat /\ n \in 0..N /\ n < N /\ n + 1 \in 0..N /\ N \in 0..N
      /\ p \in Options /\ d \in Nat
  <2>1. N \in Nat /\ n \in 0..N /\ n < N
    BY ItemsAre DEF StockFlow, StockHandlers, ItemsLeft
  <2>2. n + 1 \in 1..N /\ n + 1 \in 0..N /\ N \in 0..N
    BY <2>1
  <2> QED
    BY <2>1, <2>2, ItemsAre
<1>2. \A x \in Orders : StockTypes(x)
  BY NetIs
<1>3. Confirmed(o) = n
  BY DEF Confirmed
<1> HIDE DEF n, p, d, N
<1>4. r \in Nat /\ PartOf(o, p, n) \in Nat
  BY <1>1, <1>2, PartIs DEF StockTypes, N
<1>5. NetOf(o, p) + d <= QuantityOf(o, p)
  <2>1. PartOf(o, p, n + 1) = PartOf(o, p, n) + d
    BY <1>1, PartNext DEF p, d, N
  <2>2. PartOf(o, p, n + 1) <= PartOf(o, p, N) /\ PartOf(o, p, N) \in Nat
    BY <1>1, PartIs DEF N
  <2>3. QuantityOf(o, p) = PartOf(o, p, N)
    BY QuantityIs DEF N
  <2>4. NetOf(o, p) = PartOf(o, p, n) - r
    BY <1>3 DEF NetOf
  <2> HIDE DEF r
  <2> QED
    BY <1>1, <1>4, <2>1, <2>2, <2>3, <2>4
<1>6. f \in [Orders -> Int] /\ \A x \in Orders : f[x] = NetOf(x, p)
  BY <1>2 DEF Nets, StockTypes
<1>7. k \in [Orders -> Int] /\ \A x \in Orders : k[x] = QuantityOf(x, p)
  BY QuantitiesAre
<1>8. \A x \in Orders : NetOf(x, p) <= QuantityOf(x, p)
  BY <1>2 DEF StockTypes
<1> HIDE DEF f, k
<1>9. /\ h \in [Orders -> Int] /\ h[o] = f[o] + d
      /\ \A x \in Orders \ {o} : f[x] = h[x]
  BY <1>1, <1>6
<1> HIDE DEF h
<1>10. \A x \in Orders : h[x] <= k[x]
  <2> SUFFICES ASSUME NEW x \in Orders PROVE h[x] <= k[x]
    OBVIOUS
  <2>1. CASE x = o
    BY <1>5, <1>6, <1>7, <1>9, <2>1
  <2>2. CASE x # o
    BY <1>6, <1>7, <1>8, <1>9, <2>2
  <2> QED
    BY <2>1, <2>2
<1>11. SumOver(f, Orders) \in Int /\ SumOver(h, Orders) = SumOver(f, Orders) + (h[o] - f[o])
  BY <1>6, <1>9, ReservationAssumption, SumChange
<1>12. SumOver(h, Orders) <= SumOver(k, Orders)
  BY <1>7, <1>9, <1>10, ReservationAssumption, SumPointwise
<1>13. SumOver(k, Orders) <= InitialOptions[p].reserved /\ SumOver(k, Orders) \in Int
  <2>1. IsFiniteSet(Orders) /\ Orders \in SUBSET Orders
    BY ReservationAssumption
  <2> QED
    BY <1>1, <1>7, <2>1, ReservedEnough, SumType DEF k
<1>14. /\ InitialOptions[p].stock \in Int /\ InitialOptions[p].reserved \in Int
       /\ InitialOptions[p].reserved <= InitialOptions[p].stock
  BY <1>1, SagaAssumption DEF Option, ValidStock
<1>15. SumOver(f, Orders) + d <= InitialOptions[p].reserved
  <2> DEFINE a == SumOver(f, Orders)
             b == SumOver(h, Orders)
             e == SumOver(k, Orders)
  <2>1. h[o] = f[o] + d /\ f[o] \in Int /\ d \in Int
    BY <1>1, <1>6, <1>9
  <2>2. a \in Int /\ b = a + (h[o] - f[o])
    BY <1>11
  <2>3. b <= e /\ e <= InitialOptions[p].reserved /\ e \in Int
    BY <1>12, <1>13
  <2> HIDE DEF a, b, e
  <2>4. b = a + d
    BY <2>1, <2>2
  <2>5. a + d <= InitialOptions[p].reserved
    BY <1>14, <2>1, <2>2, <2>3, <2>4
  <2> QED
    BY <2>5 DEF a
<1>16. options[p] = [stock    |-> InitialOptions[p].stock - SumOver(f, Orders),
                     reserved |-> InitialOptions[p].reserved - SumOver(f, Orders)]
  BY <1>1 DEF StockAccount, f
<1>17. ValidStock(DecreaseStock(options[p], d))
  <2> DEFINE a == SumOver(f, Orders)
  <2>1. a \in Int /\ d \in Int /\ a + d <= InitialOptions[p].reserved
    BY <1>1, <1>11, <1>15
  <2>2. options[p].stock = InitialOptions[p].stock - a /\ options[p].reserved = InitialOptions[p].reserved - a
    BY <1>16
  <2> HIDE DEF a
  <2> QED
    BY <1>14, <2>1, <2>2 DEF ValidStock, DecreaseStock
<1> QED
  BY <1>17 DEF CurrentItem, p, d, n

-----------------------------------------------------------------------------
(***************************************************************************)
(* The account is kept by every step.                                      *)
(***************************************************************************)
\* The coupons and the balances may refuse; every other operation succeeds.
OnlyRefusals == Faults \subseteq {"coupon", "balance"}

\* A step of the stock's handler keeps the flow or moves the stock by its net.
LEMMA StockStepKeeps ==
  ASSUME OnlyRefusals, NEW o \in Orders, Given(o), \A x \in Orders : StockFlow(x), StockAccount,
         ProcessStock(o)
  PROVE  Keeps(o) \/ Moves(o)
<1>1. CASE ConfirmStock(o)
  BY <1>1, ConfirmStockMoves
<1>2. CASE StockConfirmed(o)
  BY <1>2, StockConfirmedKeeps
<1>3. ~ConfirmStockFails(o)
  <2> SUFFICES ASSUME ConfirmStockFails(o) PROVE FALSE
    OBVIOUS
  <2> DEFINE g == ConfirmGroup
             item == CurrentItem(g, o)
  <2>1. "stock" \notin Faults /\ "publish" \notin Faults
    BY DEF OnlyRefusals
  <2>2. /\ queue[g][o] # <<>> /\ ItemsLeft(g, o)
        /\ ~ValidStock(DecreaseStock(options[item.option], item.quantity))
    BY <2>1 DEF ConfirmStockFails, At, ConfirmGroup
  <2>3. ~Untouched(o)
    <3>1. g \in Groups
      BY StockGroupsAre DEF StockHandlers
    <3> QED
      BY <2>2, <3>1 DEF Given, FirstPayment, Fresh
  <2> QED
    BY <2>2, <2>3, NeverShort DEF Given
<1> QED
  BY <1>1, <1>2, <1>3 DEF ProcessStock

\* The coordinator keeps the flow.
LEMMA AggregateKeeps ==
  ASSUME NEW o \in Orders, Given(o), StockFlow(o), Aggregate(o)
  PROVE  Keeps(o)
<1>1. CASE ClearStore(ClearGroup, o)
  BY <1>1, ClearKeeps
<1>2. CASE ~ClearStore(ClearGroup, o)
  <2>1. \/ InitCoordinator(o)
        \/ \E g \in MarkGroups : MarkOk(g, o) \/ PublishReady(g, o)
        \/ \E g \in MarkGroups \cup {DiscountGroup} : ClearStore(g, o)
    BY <1>2 DEF Aggregate, DiscountGroup, ClearGroup
  <2> QED
    BY <2>1, AggregateAway, AwayKeeps
<1> QED
  BY <1>1, <1>2

\* The coupon's handler keeps the flow.
LEMMA CouponKeeps ==
  ASSUME NEW o \in Orders, Given(o), StockFlow(o), ProcessCoupon(o)
  PROVE  Keeps(o)
<1>1. CASE CouponProcessingFailed(o) /\ (CancelCheck(o) \/ CancelUse(o))
  BY <1>1, CouponFailureKeeps
<1>2. CASE ~ (CouponProcessingFailed(o) /\ (CancelCheck(o) \/ CancelUse(o)))
  BY <1>2, CouponAway, AwayKeeps
<1> QED
  BY <1>1, <1>2

\* A compensation keeps the flow or moves the stock by its net.
LEMMA CompensationKeeps ==
  ASSUME OnlyRefusals, NEW o \in Orders, Given(o), StockFlow(o), Compensate(o)
  PROVE  Keeps(o) \/ Moves(o)
<1>1. ASSUME NEW g \in OrderFailGroups, ReadForCancel(g, o) \/ WriteCancel(g, o) \/ CancelFails(g, o)
      PROVE  Keeps(o)
  <2>1. ~CancelFails(g, o)
    BY DEF CancelFails, OnlyRefusals
  <2> QED
    BY <1>1, <2>1, ReadForCancelKeeps, WriteCancelKeeps
<1>2. ASSUME NEW g \in ProductFailGroups, RestoreItem(g, o) \/ StockRestored(g, o)
      PROVE  Keeps(o) \/ Moves(o)
  BY <1>2, RestoreItemMoves, StockRestoredKeeps
<1>3. ASSUME NEW g \in CouponFailGroups,
             SkipRelease(g, o) \/ ReleaseCheck(g, o) \/ ReleaseUse(g, o) \/ DeleteUserCoupon(g, o)
      PROVE  Keeps(o)
  BY <1>3, ReleaseAway, AwayKeeps
<1> QED
  BY <1>1, <1>2, <1>3 DEF Compensate

\* A step of an order keeps its flow, and moves the stock by its net.
LEMMA OwnStep ==
  ASSUME OnlyRefusals, NEW o \in Orders, Given(o), \A x \in Orders : StockFlow(x), StockAccount,
         Step(o)
  PROVE  Keeps(o) \/ Moves(o)
<1>1. FailuresAreReported /\ StockFlow(o)
  BY DEF FailuresAreReported, OnlyRefusals
<1>2. CASE Request(o)
  <2>1. ~RequestFails(o)
    BY DEF RequestFails, OnlyRefusals
  <2> QED
    BY <1>1, <1>2, <2>1, RequestWaits, PublishProcessingKeeps DEF Request
<1>3. CASE Aggregate(o)
  BY <1>1, <1>3, AggregateKeeps
<1>4. CASE ProcessStock(o)
  BY <1>4, StockStepKeeps
<1>5. CASE ProcessCoupon(o)
  BY <1>1, <1>5, CouponKeeps
<1>6. CASE ProcessOrder(o)
  BY <1>1, <1>6, OrderAway, AwayKeeps, WriteDiscountKeeps, WritePaidKeeps DEF ProcessOrder
<1>7. CASE ProcessPayment(o)
  BY <1>1, <1>7, DeductAway, AwayKeeps, PaymentFailedKeeps DEF ProcessPayment
<1>8. CASE Compensate(o)
  BY <1>1, <1>8, CompensationKeeps
<1>9. CASE Finish(o)
  BY <1>1, <1>9, FinishAway, AwayKeeps
<1>10. \A g \in Groups : ~Swallow(g, o)
  BY DEF Swallow, OnlyRefusals
<1>11. \A g \in Groups : ~Crash(g, o)
  <2>1. redeliveries = 0 /\ redeliveries' = 0
    BY DEF Given, First
  <2> QED
    BY <2>1 DEF Crash
<1>12. CASE Expire(o)
  BY <1>1, <1>12, ExpireKeeps
<1> QED
  BY <1>2, <1>3, <1>4, <1>5, <1>6, <1>7, <1>8, <1>9, <1>10, <1>11, <1>12 DEF Step

\* An order that a step leaves alone keeps its flow and its net.
LEMMA OthersKeep ==
  ASSUME NEW x \in Orders, StockFlow(x), SameFlow(x), SameRows(x)
  PROVE  StockFlow(x)' /\ SameNet(x)
<1>1. StockHandlers \cup OrderFailGroups \cup {UseGroup, ClearGroup} \subseteq Groups
  BY StockGroupsAre
<1>2. \A g \in StockHandlers \cup OrderFailGroups \cup {UseGroup, ClearGroup} :
        queue'[g][x] = queue[g][x] /\ task'[g][x] = task[g][x]
  BY <1>1, GroupsAre DEF SameFlow
<1>3. orders'[x] = orders[x] /\ attempts'[x] = attempts[x] /\ task'["client"][x] = task["client"][x]
  BY GroupsAre DEF SameFlow, SameRows
<1>4. (Untouched(x))' <=> Untouched(x)
  BY <1>3 DEF Untouched
<1>5. Failing(x)' = Failing(x)
  BY <1>2, <1>3, <1>4, Zenon DEF Failing
<1>6. SameNet(x)
  BY <1>2, <1>4, <1>5 DEF SameNet, Confirmed, Restored, StockHandlers
<1>7. StockFlow(x)'
  BY <1>2, <1>3, <1>5, StockGroupsAre DEF StockFlow, StockHandlers, Received
<1> QED
  BY <1>6, <1>7

-----------------------------------------------------------------------------
\* Where all payments are first ones after a step, they were before.
LEMMA FirstPaymentsBefore ==
  ASSUME TypeOK, NEW o \in Orders, Step(o), FirstPayments'
  PROVE  FirstPayments
<1>1. \A x \in Orders : First(x)'
  BY DEF FirstPayments, First
<1>2. \A x \in Orders : First(x)
  BY <1>1, FirstBefore
<1> QED
  BY <1>2 DEF FirstPayments, First

\* A step keeps the account of the stock.
LEMMA StockInvStep ==
  ASSUME OnlyRefusals, Ground, Ground', IInv, StockInv, [Next]_vars
  PROVE  StockInv'
<1> SUFFICES ASSUME FirstPayments'
             PROVE  (\A x \in Orders : StockFlow(x)') /\ StockAccount'
  BY DEF StockInv
<1>1. TypeOK /\ TypeOK' /\ TokensBounded /\ TokensBounded'
  BY DEF Ground
<1>2. CASE UNCHANGED vars
  <2>1. FirstPayments /\ options' = options
    BY <1>2 DEF vars, FirstPayments
  <2>2. (\A x \in Orders : StockFlow(x)) /\ StockAccount
    BY <2>1 DEF StockInv
  <2>3. \A x \in Orders : SameFlow(x) /\ SameRows(x)
    BY <1>2 DEF vars, SameFlow, SameRows
  <2>4. \A x \in Orders : StockFlow(x)' /\ SameNet(x)
    BY <2>2, <2>3, OthersKeep
  <2> QED
    BY <2>1, <2>2, <2>4, AccountStays
<1>3. CASE Next
  <2>1. PICK o \in Orders : Step(o)
    BY <1>3 DEF Next, Step
  <2>2. FirstPayments
    BY <1>1, <2>1, FirstPaymentsBefore
  <2>3. (\A x \in Orders : StockFlow(x)) /\ StockAccount
    BY <2>2 DEF StockInv
  <2>4. Given(o)
    <3>1. First(o) /\ First(o)' /\ FirstPayment(o)
      BY <2>2 DEF FirstPayments, First, IInv
    <3>2. NoTokenMade(o)
      BY <1>1, TokensStep DEF TokensBounded
    <3>3. logs[o] = <<>> => Unpaid(o)
      BY DEF Ground, UndeductedIsUnpaid
    <3> QED
      BY <1>1, <3>1, <3>2, <3>3 DEF Given
  <2>5. Keeps(o) \/ Moves(o)
    BY <2>1, <2>3, <2>4, OwnStep
  <2>6. \A x \in Orders \ {o} : StockFlow(x)' /\ SameNet(x)
    BY <1>1, <2>1, <2>3, StepLeaves, OthersKeep DEF Leaves
  <2>7. \A x \in Orders : StockFlow(x)'
    BY <2>5, <2>6 DEF Keeps, Moves
  <2>8. CASE Keeps(o)
    <3>1. options' = options /\ \A x \in Orders : SameNet(x)
      BY <2>6, <2>8 DEF Keeps
    <3> QED
      BY <2>3, <2>7, <3>1, AccountStays
  <2>9. CASE Moves(o)
    <3>1. \A x \in Orders : StockTypes(x)
      BY <1>1, <2>3, FlowTyped DEF FlowsAreTyped
    <3>2. \A x \in Orders : StockTypes(x)'
      BY <1>1, <2>7, FlowTypedNext DEF FlowsAreTyped
    <3>3. \A p \in Options : Takes(options[p], options'[p], NetOf(o, p)' - NetOf(o, p))
      BY <2>9 DEF Moves
    <3>4. \A x \in Orders \ {o} : SameNet(x)
      BY <2>6
    <3> QED
      BY <2>3, <2>7, <3>1, <3>2, <3>3, <3>4, ReservationAssumption, AccountMoves
  <2> QED
    BY <2>5, <2>8, <2>9
<1> QED
  BY <1>2, <1>3

\* Nothing is confirmed at first.
LEMMA StockInvInit ==
  ASSUME Init
  PROVE  StockInv
<1>1. \A o \in Orders : \A g \in Groups : queue[g][o] = <<>>
  BY DEF Init
<1>2. \A o \in Orders : Untouched(o)
  BY DEF Init, Untouched
<1>3. \A o \in Orders : ~Failing(o) /\ Confirmed(o) = 0 /\ Restored(o) = 0
  BY <1>1, <1>2, UntouchedIdle DEF UntouchedIsIdle
<1>4. ASSUME NEW o \in Orders
      PROVE  StockFlow(o)
  <2>1. \A g \in StockHandlers \cup {ClearGroup} : task[g][o].done = 0 /\ task[g][o].pc = "idle"
    <3>1. StockHandlers \cup {ClearGroup} \subseteq Workers
      BY StockGroupsAre, GroupsAre
    <3>2. Idle.done = 0 /\ Idle.pc = "idle"
      BY DEF Idle
    <3>3. \A w \in Workers : task[w][o] = Idle
      BY DEF Init
    <3> QED
      BY <3>1, <3>2, <3>3
  <2>2. /\ Len(queue[ConfirmGroup][o]) = 0 /\ Len(queue[RestoreFirst][o]) = 0
        /\ Len(queue[RestoreLast][o]) = 0 /\ queue[UseGroup][o] = <<>>
        /\ \A g \in ProductFailGroups : queue[g][o] = <<>>
    BY <1>1, StockGroupsAre DEF StockHandlers
  <2>3. 0 \in 0..Len(Items[o])
    BY ItemsAre
  <2> QED
    BY <2>1, <2>2, <2>3 DEF StockFlow
<1>5. StockAccount
  <2> SUFFICES ASSUME NEW p \in Options
               PROVE  options[p] =
                        [stock    |-> InitialOptions[p].stock - SumOver(Nets(p), Orders),
                         reserved |-> InitialOptions[p].reserved - SumOver(Nets(p), Orders)]
    BY DEF StockAccount
  <2>1. \A o \in Orders : NetOf(o, p) = 0
    <3> SUFFICES ASSUME NEW o \in Orders PROVE NetOf(o, p) = 0
      OBVIOUS
    <3>1. 0 \in 0..Len(Items[o])
      BY ItemsAre
    <3>2. PartOf(o, p, 0) = 0
      BY <3>1, PartIs
    <3> QED
      BY <1>3, <3>2 DEF NetOf
  <2>2. Nets(p) \in [Orders -> Int] /\ \A o \in Orders \ {} : Nets(p)[o] = 0
    BY <2>1 DEF Nets
  <2>3. SumOver(Nets(p), Orders) = 0
    <3> DEFINE f == Nets(p)
               S == {}
    <3>1. f \in [Orders -> Int] /\ S \in SUBSET Orders /\ \A o \in Orders \ S : f[o] = 0
      BY <2>2
    <3> HIDE DEF f, S
    <3>2. SumOver(f, Orders) = SumOver(f, S)
      BY <3>1, ReservationAssumption, SumSupport
    <3>3. SumOver(f, S) = 0
      BY SumEmpty DEF S
    <3> QED
      BY <3>2, <3>3 DEF f
  <2>4. /\ InitialOptions[p] \in Option /\ options[p] = InitialOptions[p]
    BY SagaAssumption DEF Init
  <2> QED
    BY <2>3, <2>4 DEF Option
<1> QED
  BY <1>4, <1>5 DEF StockInv

\* What a quiet order has taken from the stock
LEMMA NetAtRest ==
  ASSUME Ground, IInv, FirstPayments, NEW o \in Orders, Quiet(o), NEW p
  PROVE  NetOf(o, p) = IF Cancellable(orders[o]) THEN QuantityOf(o, p) ELSE 0
<1>1. FirstPayment(o) /\ \A g \in Groups : queue[g][o] = <<>>
  BY QuietIs
<1>2. PICK c \in MaybeCoupon : Payment(o, c)
  BY <1>1 DEF FirstPayment
<1>3. Cancellable(orders[o]) <=> orders[o].status # "PENDING"
  BY <1>2 DEF Payment, Statuses, Cancellable
<1>4. /\ PartOf(o, p, 0) = 0 /\ PartOf(o, p, Len(Items[o])) \in Nat
      /\ QuantityOf(o, p) = PartOf(o, p, Len(Items[o]))
  <2>1. 0 \in 0..Len(Items[o]) /\ Len(Items[o]) \in 0..Len(Items[o])
    BY ItemsAre
  <2> QED
    BY <2>1, PartIs, QuantityIs
<1>5. CASE Untouched(o)
  <2>1. orders[o].status = "PENDING"
    BY <1>1, <1>5 DEF FirstPayment, Fresh, Quiet, PendingRow
  <2>2. Confirmed(o) = 0 /\ Restored(o) = 0
    BY <1>1, <1>5, UntouchedFails
  <2> QED
    BY <1>3, <1>4, <2>1, <2>2 DEF NetOf
<1>6. CASE ~Untouched(o)
  <2>1. /\ queue[ConfirmGroup][o] = <<>> /\ queue[RestoreFirst][o] = <<>>
        /\ queue[RestoreLast][o] = <<>> /\ \A g \in OrderFailGroups : queue[g][o] = <<>>
    BY <1>1, StockGroupsAre DEF StockHandlers
  <2>2. Confirmed(o) = Len(Items[o])
    BY <1>6, <2>1 DEF Confirmed
  <2>3. CASE orders[o].status = "PENDING"
    <3>1. Failing(o)
      BY <1>6, <2>3, Zenon DEF Failing
    <3>2. Restored(o) = Len(Items[o])
      BY <2>1, <3>1 DEF Restored
    <3> HIDE DEF QuantityOf
    <3> QED
      BY <1>3, <1>4, <2>2, <2>3, <3>2 DEF NetOf
  <2>4. CASE orders[o].status # "PENDING"
    <3>1. ~Failing(o)
      BY <2>1, <2>4 DEF Failing
    <3>2. Restored(o) = 0
      BY <3>1 DEF Restored
    <3> HIDE DEF QuantityOf
    <3> QED
      BY <1>3, <1>4, <2>2, <2>4, <3>2 DEF NetOf
  <2> QED
    BY <2>3, <2>4
<1> QED
  BY <1>5, <1>6

\* At rest the account is the settled stock.
LEMMA StockComesOut ==
  ASSUME Ground, IInv, StockInv
  PROVE  StockSettled
<1> SUFFICES ASSUME FirstPayments, \A o \in Orders : Quiet(o), NEW p \in Options
             PROVE  options[p] = [stock    |-> InitialOptions[p].stock - Sold(p),
                                  reserved |-> InitialOptions[p].reserved - Sold(p)]
  BY DEF StockSettled
<1> DEFINE S == {o \in Orders : Cancellable(orders[o])}
           f == Nets(p)
           h == Quantities(p)
<1>1. Sold(p) = SumOver(h, S)
  <2>1. Sold(p) = MapThenSumSet(LAMBDA o : QuantityOf(o, p), S)
    BY Zenon DEF Sold
  <2>2. S \in SUBSET Orders
    OBVIOUS
  <2> HIDE DEF S
  <2> QED
    BY <2>1, <2>2, SumOfQuantities
<1>2. h \in [Orders -> Int] /\ \A o \in Orders : h[o] = QuantityOf(o, p)
  BY QuantitiesAre
<1>3. \A o \in Orders : f[o] = IF o \in S THEN h[o] ELSE 0
  BY <1>2, NetAtRest DEF Nets
<1>4. f \in [Orders -> Int]
  <2>1. f = [o \in Orders |-> NetOf(o, p)]
    BY DEF Nets
  <2> HIDE DEF f, h, S
  <2> QED
    BY <1>2, <1>3, <2>1
<1>5. IsFiniteSet(Orders) /\ IsFiniteSet(S) /\ S \in SUBSET Orders
  BY ReservationAssumption, FS_Subset
<1>6. options[p] = [stock    |-> InitialOptions[p].stock - SumOver(f, Orders),
                    reserved |-> InitialOptions[p].reserved - SumOver(f, Orders)]
  BY DEF StockInv, StockAccount
<1> HIDE DEF f, h, S
<1>7. SumOver(f, Orders) = SumOver(f, S)
  BY <1>3, <1>4, <1>5, SumSupport
<1>8. SumOver(f, S) = SumOver(h, S)
  BY <1>3, <1>5, SumSame
<1> QED
  BY <1>1, <1>6, <1>7, <1>8

\* The coupon and the balance may be refused at any time, and the orders
\* share their options.  When every order was asked for once at most and all
\* of them have come to rest, every option is down by what the orders that
\* were not taken back contain: no reservation is lost and no piece is sold
\* or given back twice (order.processing, order.*.fail of the product's
\* consumers).
THEOREM StockIsSettled ==
  ASSUME OnlyRefusals
  PROVE  Spec => []StockSettled
<1>1. FailuresAreReported
  BY DEF FailuresAreReported, OnlyRefusals
<1>2. Init => StockInv
  BY StockInvInit
<1>3. Ground /\ Ground' /\ IInv /\ StockInv /\ [Next]_vars => StockInv'
  BY StockInvStep
<1>4. Spec => []Ground /\ []IInv
  BY <1>1, Grounded, FirstPaymentsGoRight, PTL
<1>5. Ground /\ IInv /\ StockInv => StockSettled
  BY StockComesOut
<1> QED
  BY <1>2, <1>3, <1>4, <1>5, PTL DEF Spec

(***************************************************************************)
(* The coupons.                                                            *)
(***************************************************************************)
ReleaseGroup == "coupon-order-payment-fail"
SkipGroup == "coupon-order-processing-fail"
CouponHandlers == {UseGroup, ReleaseGroup, SkipGroup}

\* The orders that may want the coupon of o
Rivals(o) == {x \in Orders \ {o} : UserOf[x] = UserOf[o]}

\* The coupon's handler was at work on the message of o.
Past(o) == ~Untouched(o) /\ (queue[UseGroup][o] = <<>> \/ task[UseGroup][o].pc # "idle")

\* The user-coupon hash, and the row, of the payment's coupon are o's.
Used(o) ==
  /\ ~Untouched(o)
  /\ IF queue[UseGroup][o] # <<>> THEN task[UseGroup][o].pc \in {"create", "publish"}
     ELSE IF queue[ReleaseGroup][o] # <<>> THEN task[ReleaseGroup][o].pc # "delete"
     ELSE ~Failing(o)

Recorded(o) ==
  /\ ~Untouched(o)
  /\ IF queue[UseGroup][o] # <<>> THEN task[UseGroup][o].pc = "publish"
     ELSE queue[ReleaseGroup][o] # <<>> \/ ~Failing(o)

\* Its use was refused or could not be recorded, and is being cancelled.
Cancelling(o) ==
  /\ ~Untouched(o) /\ queue[UseGroup][o] # <<>>
  /\ task[UseGroup][o].pc \in {"cancelCheck", "cancel"}

\* Every message carries the coupon c of the request.
Carried(o, c) == \A g \in Groups : \A m \in Messages(g, o) : Carries(m, c)

\* Where the coupon's handlers are
CouponPlaces(o) ==
  /\ task[UseGroup][o].pc \in {"idle", "create", "publish", "cancelCheck", "cancel"}
  /\ task[ReleaseGroup][o].pc \in {"idle", "cancel", "delete"}
  /\ task[SkipGroup][o].pc = "idle"
  /\ Len(queue[ReleaseGroup][o]) <= 1
  /\ queue[ReleaseGroup][o] # <<>> => Failing(o)
  /\ \A m \in Messages(SkipGroup, o) : m.by = "UseUserCouponByOrder"

\* No other coupon is marked with o.
Elsewhere(o, c) ==
  \A u \in Users, k \in Coupons :
    u # UserOf[o] \/ k # c => userCoupons[u][k] # o /\ couponRows[u][k] # o

CouponMarks(o, c) ==
  LET hash == userCoupons[UserOf[o]][c] IN
  /\ couponRows[UserOf[o]][c] = o <=> Recorded(o)
  /\ Used(o) => hash = o
  /\ hash = o => Used(o) \/ Cancelling(o)
  /\ Cancelling(o) /\ task[UseGroup][o].pc = "cancel" => hash \notin Orders \ {o}
  /\ Cancelling(o) => hash \in {"absent", "phantom"} \/ \A x \in Rivals(o) : Past(x)

CouponFlow(o, c) ==
  /\ Carried(o, c) /\ CouponPlaces(o) /\ Elsewhere(o, c)
  /\ orders[o].status # "PENDING" => orders[o].coupon \in {NoCoupon, c}
  /\ c = NoCoupon => task[ReleaseGroup][o].pc = "idle"
  /\ c # NoCoupon => CouponMarks(o, c)

CouponInv == FirstPayments => \A o \in Orders : \E c \in MaybeCoupon : CouponFlow(o, c)

\* An order that shares its user shares it with one other, and then no
\* operation on a coupon is refused for reasons of its own.
FewRivals ==
  \A o \in Orders : Rivals(o) # {} =>
    "coupon" \notin Faults /\ \A x, y \in Rivals(o) : x = y
-----------------------------------------------------------------------------
\* Nothing that the coupon's handlers of o know has changed.
SameCoupon(o) ==
  /\ \A h \in CouponHandlers : queue'[h][o] = queue[h][o] /\ task'[h][o] = task[h][o]
  /\ Untouched(o)' <=> Untouched(o)
  /\ Failing(o)' <=> Failing(o)

\* What a step of o may do to the marks on the coupons
Touches(o) ==
  /\ \A u \in Users, k \in Coupons :
       \/ userCoupons'[u][k] = userCoupons[u][k]
       \/ /\ u = UserOf[o] /\ userCoupons[u][k] = "unused" /\ userCoupons'[u][k] = o
          /\ ~Past(o)
       \/ /\ userCoupons[u][k] \notin Orders \ {o}
          /\ userCoupons'[u][k] = Cancelled(userCoupons[u][k])
  /\ \A u \in Users, k \in Coupons :
       \/ couponRows'[u][k] = couponRows[u][k]
       \/ {couponRows[u][k], couponRows'[u][k]} \subseteq {o, NoOrder}
  /\ Past(o) => Past(o)'

\* The coupon's handlers are different groups, and neither stock's nor order's.
LEMMA CouponGroupsAre ==
  /\ CouponHandlers \subseteq Groups /\ CouponHandlers \subseteq Workers
  /\ CouponHandlers = {UseGroup, ReleaseGroup, SkipGroup}
  /\ UseGroup # ReleaseGroup /\ UseGroup # SkipGroup /\ ReleaseGroup # SkipGroup
  /\ CouponHandlers \cap (StockHandlers \cup OrderFailGroups) = {}
  /\ CouponFailGroups = {ReleaseGroup, SkipGroup} /\ "client" \notin CouponHandlers
  BY DEF CouponHandlers, UseGroup, ReleaseGroup, SkipGroup, Groups, Workers, StockHandlers,
         OrderFailGroups, ConfirmGroup, RestoreFirst, RestoreLast, CouponFailGroups

\* Where the coupon's handlers see nothing of a step, their marks stand.
LEMMA SameMarks ==
  ASSUME NEW o \in Orders, SameCoupon(o)
  PROVE  /\ Used(o)' <=> Used(o)
         /\ Recorded(o)' <=> Recorded(o)
         /\ Cancelling(o)' <=> Cancelling(o)
         /\ Past(o)' <=> Past(o)
         /\ task'[UseGroup][o].pc = task[UseGroup][o].pc
<1>1. /\ queue'[UseGroup][o] = queue[UseGroup][o] /\ task'[UseGroup][o] = task[UseGroup][o]
      /\ queue'[ReleaseGroup][o] = queue[ReleaseGroup][o]
      /\ task'[ReleaseGroup][o] = task[ReleaseGroup][o]
  BY CouponGroupsAre DEF SameCoupon
<1>2. (Untouched(o)' <=> Untouched(o)) /\ (Failing(o)' <=> Failing(o))
  BY DEF SameCoupon
<1> QED
  BY <1>1, <1>2 DEF Used, Recorded, Cancelling, Past

\* Where the coupon's handlers see nothing of a step, they stay in place.
LEMMA PlacesKept ==
  ASSUME NEW o \in Orders, CouponPlaces(o), SameCoupon(o)
  PROVE  CouponPlaces(o)'
<1>1. \A h \in {UseGroup, ReleaseGroup, SkipGroup} :
        queue'[h][o] = queue[h][o] /\ task'[h][o] = task[h][o]
  BY CouponGroupsAre DEF SameCoupon
<1>2. Failing(o)' <=> Failing(o)
  BY DEF SameCoupon
<1>3. Messages(SkipGroup, o)' = Messages(SkipGroup, o)
  BY <1>1 DEF Messages
<1> QED
  BY <1>1, <1>2, <1>3 DEF CouponPlaces

\* A mark that names no order is not an order.
LEMMA MarksAreNoOrders ==
  /\ NoOrder \notin Orders
  /\ "absent" \notin Orders /\ "phantom" \notin Orders /\ "unused" \notin Orders
  BY SagaAssumption

\* A step of o leaves the marks of another order.
LEMMA OthersMarks ==
  ASSUME NEW o \in Orders, NEW x \in Orders \ {o}, NEW c \in Coupons, CouponMarks(x, c),
         SameCoupon(x), Touches(o), \A y \in Rivals(x) : Past(y) => Past(y)', UserOf[x] \in Users
  PROVE  CouponMarks(x, c)'
<1> DEFINE u == UserOf[x]
           hash == userCoupons[u][c]
           row == couponRows[u][c]
<1>1. /\ Used(x)' <=> Used(x)
      /\ Recorded(x)' <=> Recorded(x)
      /\ Cancelling(x)' <=> Cancelling(x)
      /\ task'[UseGroup][x].pc = task[UseGroup][x].pc
  BY SameMarks
<1>2. /\ row = x <=> Recorded(x)
      /\ Used(x) => hash = x
      /\ hash = x => Used(x) \/ Cancelling(x)
      /\ Cancelling(x) /\ task[UseGroup][x].pc = "cancel" => hash \notin Orders \ {x}
      /\ Cancelling(x) => hash \in {"absent", "phantom"} \/ \A y \in Rivals(x) : Past(y)
  BY DEF CouponMarks
<1>3. row' = x <=> row = x
  BY MarksAreNoOrders DEF Touches
<1>4. \/ hash' = hash
      \/ u = UserOf[o] /\ hash = "unused" /\ hash' = o /\ ~Past(o)
      \/ hash \notin Orders \ {o} /\ hash' = Cancelled(hash)
  BY DEF Touches
<1> HIDE DEF hash, row
<1>5. CASE hash' = hash
  BY <1>1, <1>2, <1>3, <1>5 DEF CouponMarks, hash, row, u, Rivals
<1>6. CASE u = UserOf[o] /\ hash = "unused" /\ hash' = o /\ ~Past(o)
  <2>1. o \in Rivals(x)
    BY <1>6 DEF Rivals
  <2>2. ~Cancelling(x)
    BY <1>2, <1>6, <2>1
  <2>3. hash # x /\ hash' # x
    BY <1>6, MarksAreNoOrders
  <2> QED
    BY <1>1, <1>2, <1>3, <2>2, <2>3 DEF CouponMarks, hash, row
<1>7. CASE hash \notin Orders \ {o} /\ hash' = Cancelled(hash)
  <2>1. hash # x /\ hash' \notin Orders /\ (hash \in {"absent", "phantom"} => hash' = "phantom")
    BY <1>7, MarksAreNoOrders DEF Cancelled
  <2>2. Cancelling(x)' => hash' \in {"absent", "phantom"} \/ \A y \in Rivals(x) : Past(y)'
    BY <1>1, <1>2, <2>1
  <2>3. ~Used(x)' /\ hash' # x
    BY <1>1, <1>2, <2>1
  <2> QED
    BY <1>1, <1>2, <1>3, <2>1, <2>2, <2>3 DEF CouponMarks, hash, row, Rivals
<1> QED
  BY <1>4, <1>5, <1>6, <1>7

\* Another order's coupon is safe from a step that touches as it may.
LEMMA OthersCoupon ==
  ASSUME TypeOK, NEW o \in Orders, NEW x \in Orders \ {o}, NEW c \in MaybeCoupon,
         CouponFlow(x, c), Touches(o), SameFlow(x), SameRows(x), SameCoupon(x),
         \A y \in Rivals(x) : Past(y) => Past(y)'
  PROVE  CouponFlow(x, c)'
<1>1. Carried(x, c)'
  <2>1. \A g \in Groups : Messages(g, x)' = Messages(g, x)
    BY DEF SameFlow, Messages
  <2> QED
    BY <2>1 DEF CouponFlow, Carried
<1>2. CouponPlaces(x)'
  BY PlacesKept DEF CouponFlow
<1>3. UserOf[x] \in Users
  BY SagaAssumption
<1>4. Elsewhere(x, c)'
  <2> SUFFICES ASSUME NEW u \in Users, NEW k \in Coupons, u # UserOf[x] \/ k # c
               PROVE  userCoupons'[u][k] # x /\ couponRows'[u][k] # x
    BY DEF Elsewhere
  <2>1. userCoupons[u][k] # x /\ couponRows[u][k] # x
    BY DEF CouponFlow, Elsewhere
  <2> QED
    BY <2>1, MarksAreNoOrders DEF Touches, Cancelled
<1>5. c # NoCoupon => CouponMarks(x, c)'
  <2> SUFFICES ASSUME c # NoCoupon PROVE CouponMarks(x, c)'
    OBVIOUS
  <2>1. c \in Coupons /\ CouponMarks(x, c)
    BY DEF MaybeCoupon, CouponFlow
  <2> QED
    BY <1>3, <2>1, OthersMarks
<1>6. orders'[x] = orders[x]
  BY DEF SameRows
<1>7. task'[ReleaseGroup][x] = task[ReleaseGroup][x]
  BY CouponGroupsAre DEF SameCoupon
<1> QED
  BY <1>1, <1>2, <1>4, <1>5, <1>6, <1>7 DEF CouponFlow

\* An order that a step leaves alone is the same to the coupon's handlers.
LEMMA OthersAreSame ==
  ASSUME NEW x \in Orders, SameFlow(x), SameRows(x)
  PROVE  SameCoupon(x)
<1>1. \A h \in CouponHandlers \cup OrderFailGroups :
        queue'[h][x] = queue[h][x] /\ task'[h][x] = task[h][x]
  BY CouponGroupsAre, StockGroupsAre, GroupsAre DEF SameFlow
<1>2. orders'[x] = orders[x] /\ attempts'[x] = attempts[x] /\ task'["client"][x] = task["client"][x]
  BY GroupsAre DEF SameFlow, SameRows
<1>3. (Untouched(x))' <=> Untouched(x)
  BY <1>2 DEF Untouched
<1>4. Failing(x)' = Failing(x)
  BY <1>1, <1>2, <1>3, Zenon DEF Failing
<1> QED
  BY <1>1, <1>3, <1>4 DEF SameCoupon
-----------------------------------------------------------------------------
(***************************************************************************)
(* The steps of an order that do not touch its coupon.                     *)
(***************************************************************************)
\* What is known of a step of o, whose coupon is c
Known(o, c) ==
  /\ Given(o) /\ StockFlow(o) /\ c \in MaybeCoupon /\ CouponFlow(o, c)
  /\ \A x \in Rivals(o) : Past(x)' <=> Past(x)

OwnCoupon(o, c) == CouponFlow(o, c)' /\ Touches(o)

RowCoupon(o, c) == orders[o].status # "PENDING" => orders[o].coupon \in {NoCoupon, c}

\* The message received carries the coupon of the payment.
LEMMA PaymentIsOf ==
  ASSUME NEW o \in Orders, NEW c, Known(o, c), NEW g \in Groups, queue[g][o] # <<>>
  PROVE  /\ Payment(o, c) /\ Received(g, o) \in Message /\ Received(g, o) \in Messages(g, o)
         /\ Carries(Received(g, o), c)
<1>1. PICK d \in MaybeCoupon : Payment(o, d)
  BY CouponOfPayment DEF Known
<1>2. /\ Received(g, o) \in Message /\ Received(g, o) \in Messages(g, o)
      /\ Carries(Received(g, o), d)
  BY <1>1, ReceivedCarries DEF Known
<1>3. Carries(Received(g, o), c)
  BY <1>2 DEF Known, CouponFlow, Carried
<1> QED
  BY <1>1, <1>2, <1>3 DEF Carries

\* Messages carry the coupon on where queues shrink or grow by such messages.
LEMMA CarriedOn ==
  ASSUME NEW o \in Orders, NEW c, Known(o, c),
         \A h \in Groups : Shrinks(h, o) \/ Grows(h, o, c)
  PROVE  Carried(o, c)'
<1> SUFFICES ASSUME NEW h \in Groups, NEW m \in Messages(h, o)'
             PROVE  Carries(m, c)
  BY DEF Carried, Carries
<1>1. \A n \in Messages(h, o) : Carries(n, c)
  BY DEF Known, CouponFlow, Carried
<1>2. CASE Shrinks(h, o)
  <2>1. Messages(h, o)' \subseteq Messages(h, o)
    BY <1>2, ShrinksMessages DEF Known, Given
  <2> QED
    BY <1>1, <2>1
<1>3. CASE Grows(h, o, c)
  <2>1. PICK n \in Message : Carries(n, c) /\ queue'[h][o] = Append(queue[h][o], n)
    BY <1>3 DEF Grows
  <2>2. Messages(h, o)' = Messages(h, o) \cup {n}
    BY <2>1, MessagesSent DEF Known, Given
  <2> QED
    BY <1>1, <2>1, <2>2
<1> QED
  BY <1>2, <1>3

\* A step that leaves the coupons alone touches as it may.
LEMMA QuietTouches ==
  ASSUME NEW o \in Orders, couponVars' = couponVars, Past(o) => Past(o)'
  PROVE  Touches(o)
  BY DEF Touches

\* The coupon's handlers see nothing of the step.
LEMMA UnseenKeeps ==
  ASSUME NEW o \in Orders, NEW c, Known(o, c), SameCoupon(o), couponVars' = couponVars,
         Carried(o, c)', RowCoupon(o, c)'
  PROVE  OwnCoupon(o, c)
<1>1. /\ Used(o)' <=> Used(o)
      /\ Recorded(o)' <=> Recorded(o)
      /\ Cancelling(o)' <=> Cancelling(o)
      /\ Past(o)' <=> Past(o)
      /\ task'[UseGroup][o].pc = task[UseGroup][o].pc
  BY SameMarks
<1>2. Touches(o)
  BY <1>1, QuietTouches
<1>3. CouponPlaces(o)'
  BY PlacesKept DEF Known, CouponFlow
<1>4. Elsewhere(o, c)'
  BY DEF Known, CouponFlow, Elsewhere
<1>5. c # NoCoupon => CouponMarks(o, c)'
  <2> SUFFICES ASSUME CouponMarks(o, c) PROVE CouponMarks(o, c)'
    BY DEF Known, CouponFlow
  <2>1. \A x \in Rivals(o) : Past(x)' <=> Past(x)
    BY DEF Known
  <2>2. userCoupons' = userCoupons /\ couponRows' = couponRows
    OBVIOUS
  <2> QED
    BY <1>1, <2>1, <2>2 DEF CouponMarks, Rivals
<1>6. task'[ReleaseGroup][o] = task[ReleaseGroup][o]
  BY CouponGroupsAre DEF SameCoupon
<1> QED
  BY <1>2, <1>3, <1>4, <1>5, <1>6 DEF OwnCoupon, Known, CouponFlow, RowCoupon

\* The ways in which a handler away from the coupon goes on
PlainFlow(g, o, c) ==
  \/ (\E t : Goto(g, o, t)) /\ queue' = queue
  \/ \E m \in Message, topic \in QuietTopics :
       Carries(m, c) /\ (\E t : Goto(g, o, t)) /\ queue' = Published(topic, o, m)
  \/ Return(g, o, queue)
  \/ \E m \in Message, topic \in QuietTopics :
       /\ Carries(m, c) /\ g \notin Subscribers(topic)
       /\ Return(g, o, Published(topic, o, m))

Plain(g, o, c) ==
  /\ g \in Groups \ CouponHandlers /\ queue[g][o] # <<>> /\ PlainFlow(g, o, c)
  /\ UNCHANGED <<couponVars, attempts>>

\* The quiet topics reach neither the coupon's handlers nor the order's.
LEMMA PlainTopics ==
  \A topic \in QuietTopics : Subscribers(topic) \cap (CouponHandlers \cup OrderFailGroups) = {}
  BY DEF QuietTopics, Subscribers, CouponHandlers, UseGroup, ReleaseGroup, SkipGroup,
         OrderFailGroups

\* A message that carries the coupon lets a queue grow as it may.
LEMMA SentGrows ==
  ASSUME NEW o \in Orders, NEW c, Known(o, c), NEW m \in Message, Carries(m, c), NEW topic,
         NEW h \in Groups,
         queue'[h][o] = IF h \in Subscribers(topic) THEN Append(queue[h][o], m) ELSE queue[h][o]
  PROVE  Shrinks(h, o) \/ Grows(h, o, c)
  BY DEF Shrinks, Grows

\* A plain step leaves the coupon's handlers and the request's publish alone.
LEMMA PlainEffect ==
  ASSUME NEW o \in Orders, NEW c, Known(o, c), NEW g, Plain(g, o, c)
  PROVE  /\ Untouched(o)' <=> Untouched(o)
         /\ \A h \in CouponHandlers \cup (OrderFailGroups \ {g}) :
              queue'[h][o] = queue[h][o] /\ task'[h][o] = task[h][o]
         /\ Carried(o, c)'
<1> DEFINE H == CouponHandlers \cup (OrderFailGroups \ {g})
           Quiets == /\ \A h \in H : queue'[h][o] = queue[h][o]
                     /\ \A h \in Groups : Shrinks(h, o) \/ Grows(h, o, c)
<1>1. g \in Groups \ CouponHandlers /\ queue[g][o] # <<>> /\ PlainFlow(g, o, c)
      /\ couponVars' = couponVars /\ attempts' = attempts
  BY DEF Plain
<1>2. TypeOK /\ Given(o) /\ g \in Workers /\ "client" \in Workers /\ g # "client"
      /\ H \subseteq Groups \ {g} /\ H \subseteq Workers \ {g}
  BY <1>1, GroupsAre, CouponGroupsAre DEF Known, Given
<1>3. \E t : Goto(g, o, t)
  BY <1>1 DEF PlainFlow, Return
<1>4. \A v \in Workers \ {g} : task'[v][o] = task[v][o]
  BY <1>2, <1>3, GotoTask DEF TaskOf
<1>5. \A topic \in QuietTopics, h \in H : h \notin Subscribers(topic)
  BY PlainTopics
<1> HIDE DEF H
<1>6. Quiets
  <2>1. CASE queue' = queue
    BY <1>2, <2>1 DEF Shrinks
  <2>2. ASSUME NEW m \in Message, NEW topic \in QuietTopics, Carries(m, c),
               queue' = Published(topic, o, m)
        PROVE  Quiets
    <3>1. Sent(o, topic, m)
      BY <1>2, <2>2, FirstSend
    <3>2. \A h \in H : queue'[h][o] = queue[h][o]
      BY <1>2, <1>5, <3>1 DEF Sent
    <3>3. \A h \in Groups : Shrinks(h, o) \/ Grows(h, o, c)
      BY <2>2, <3>1, SentGrows DEF Sent
    <3> QED
      BY <3>2, <3>3
  <2>3. CASE Return(g, o, queue)
    <3>1. Shrinks(g, o) /\ \A h \in Groups \ {g} : queue'[h][o] = queue[h][o]
      BY <1>1, <1>2, <2>3, Returns
    <3> QED
      BY <1>2, <3>1 DEF Shrinks
  <2>4. ASSUME NEW m \in Message, NEW topic \in QuietTopics, Carries(m, c),
               g \notin Subscribers(topic), Return(g, o, Published(topic, o, m))
        PROVE  Quiets
    <3>1. /\ Shrinks(g, o)
          /\ \A h \in Groups \ {g} : queue'[h][o] = IF h \in Subscribers(topic)
                                                    THEN Append(queue[h][o], m) ELSE queue[h][o]
      BY <1>1, <1>2, <2>4, Answers
    <3>2. \A h \in H : queue'[h][o] = queue[h][o]
      BY <1>2, <1>5, <3>1
    <3>3. \A h \in Groups \ {g} : Shrinks(h, o) \/ Grows(h, o, c)
      BY <2>4, <3>1, SentGrows
    <3> QED
      BY <3>1, <3>2, <3>3
  <2> QED
    BY <1>1, <2>1, <2>2, <2>3, <2>4 DEF PlainFlow
<1>7. Untouched(o)' <=> Untouched(o)
  BY <1>1, <1>2, <1>4 DEF Untouched
<1>8. Carried(o, c)'
  BY <1>6, CarriedOn
<1>9. \A h \in H : queue'[h][o] = queue[h][o] /\ task'[h][o] = task[h][o]
  BY <1>2, <1>4, <1>6
<1> QED
  BY <1>7, <1>8, <1>9 DEF H

\* A plain step keeps the coupon's flow if the row keeps its status or is failing.
LEMMA PlainStep ==
  ASSUME NEW o \in Orders, NEW c, Known(o, c), NEW g, Plain(g, o, c), RowCoupon(o, c)',
         \/ g \notin OrderFailGroups /\ (orders'[o].status = "PENDING" <=> orders[o].status = "PENDING")
         \/ Failing(o) /\ Failing(o)'
  PROVE  OwnCoupon(o, c)
<1>1. Failing(o)' <=> Failing(o)
  <2> SUFFICES ASSUME g \notin OrderFailGroups,
                      orders'[o].status = "PENDING" <=> orders[o].status = "PENDING"
               PROVE  Failing(o)' <=> Failing(o)
    OBVIOUS
  <2>1. \A h \in OrderFailGroups : queue'[h][o] = queue[h][o]
    BY PlainEffect
  <2>2. Untouched(o)' <=> Untouched(o)
    BY PlainEffect
  <2> QED
    BY <2>1, <2>2, Zenon DEF Failing
<1>2. SameCoupon(o)
  BY <1>1, PlainEffect DEF SameCoupon
<1>3. Carried(o, c)' /\ couponVars' = couponVars
  BY PlainEffect DEF Plain
<1> QED
  BY <1>2, <1>3, UnseenKeeps
-----------------------------------------------------------------------------
\* A message made of the payment's coupon carries it.
LEMMA MsgFields ==
  ASSUME NEW c \in MaybeCoupon, NEW m,
         \/ m = Msg(c)
         \/ \E a \in {NoCoupon, c} : m = [Msg(c) EXCEPT !.applied = a]
         \/ \E n \in Int : m = [Msg(c) EXCEPT !.amount = n]
  PROVE  m \in Message /\ Carries(m, c)
<1>1. NoCoupon \in MaybeCoupon
  BY DEF MaybeCoupon
<1>2. CASE m = Msg(c)
  BY <1>1, <1>2 DEF Msg, Message, Carries
<1>3. ASSUME NEW a \in {NoCoupon, c}, m = [Msg(c) EXCEPT !.applied = a]
      PROVE  m \in Message /\ Carries(m, c)
  <2>1. m = [coupon |-> c, applied |-> a, amount |-> 0, by |-> "none"]
    BY <1>3 DEF Msg
  <2> QED
    BY <1>1, <2>1 DEF Message, Carries
<1>4. ASSUME NEW n \in Int, m = [Msg(c) EXCEPT !.amount = n]
      PROVE  m \in Message /\ Carries(m, c)
  <2>1. m = [coupon |-> c, applied |-> NoCoupon, amount |-> n, by |-> "none"]
    BY <1>4 DEF Msg
  <2> QED
    BY <1>1, <2>1 DEF Message, Carries
<1> QED
  BY <1>2, <1>3, <1>4

\* The groups that have nothing to do with coupons
LEMMA PlainGroupsAre ==
  /\ MarkGroups \cup OrderFailGroups \cup ProductFailGroups
       \cup {"order-order-processing-init", ConfirmGroup, DiscountGroup, DeductGroup, CompleteGroup,
             ExportGroup, RankGroup}
     \subseteq Groups \ CouponHandlers
  /\ MarkGroups \cup ProductFailGroups
       \cup {"order-order-processing-init", ConfirmGroup, DiscountGroup, DeductGroup, CompleteGroup,
             ExportGroup, RankGroup}
     \subseteq Groups \ OrderFailGroups
  BY DEF MarkGroups, OrderFailGroups, ProductFailGroups, CouponHandlers, UseGroup, ReleaseGroup,
         SkipGroup, ConfirmGroup, DiscountGroup, DeductGroup, CompleteGroup, ExportGroup, RankGroup,
         Groups

\* A handler that returns without a message flows plainly.
LEMMA PlainReturn ==
  ASSUME NEW o, NEW g, NEW c, Return(g, o, queue)
  PROVE  PlainFlow(g, o, c)
  BY DEF PlainFlow

\* A handler that goes on flows plainly.
LEMMA PlainContinue ==
  ASSUME NEW o, NEW g, NEW c, NEW p, Continue(g, o, p)
  PROVE  PlainFlow(g, o, c)
  BY DEF PlainFlow, Continue

\* A row that does not change keeps its coupon and its status.
LEMMA RowStays ==
  ASSUME NEW o, NEW c, Known(o, c), orders' = orders
  PROVE  /\ RowCoupon(o, c)'
         /\ orders'[o].status = "PENDING" <=> orders[o].status = "PENDING"
  BY DEF Known, CouponFlow, RowCoupon

\* The steps of the aggregation
LEMMA AggregateCoupon ==
  ASSUME NEW o \in Orders, NEW c, Known(o, c), Aggregate(o)
  PROVE  OwnCoupon(o, c)
<1>1. orders' = orders /\ couponVars' = couponVars /\ attempts' = attempts
  BY DEF Aggregate, InitCoordinator, MarkOk, PublishReady, ClearStore
<1>2. CASE InitCoordinator(o)
  <2> DEFINE g == "order-order-processing-init"
  <2>1. queue[g][o] # <<>> /\ Return(g, o, queue)
    BY <1>2 DEF InitCoordinator, At
  <2>2. Plain(g, o, c) /\ g \notin OrderFailGroups
    BY <1>1, <2>1, PlainReturn, PlainGroupsAre DEF Plain
  <2> QED
    BY <1>1, <2>2, PlainStep, RowStays
<1>3. ASSUME NEW g \in MarkGroups, MarkOk(g, o) \/ PublishReady(g, o)
      PROVE  OwnCoupon(o, c)
  <2>1. queue[g][o] # <<>> /\ g \in Groups \ CouponHandlers /\ g \notin OrderFailGroups
    BY <1>3, PlainGroupsAre DEF MarkOk, PublishReady, At
  <2>2. PlainFlow(g, o, c)
    <3>1. CASE MarkOk(g, o)
      BY <3>1, PlainReturn, PlainContinue DEF MarkOk
    <3>2. CASE PublishReady(g, o) /\ ~store[o].inited
      BY <3>2, PlainReturn DEF PublishReady
    <3>3. CASE PublishReady(g, o) /\ store[o].inited
      <4> DEFINE m == [Msg(store[o].coupon) EXCEPT !.applied = store[o].applied]
                 topic == "order.processing.success"
      <4>1. queue' = Published(topic, o, m) /\ \E t : Goto(g, o, t)
        BY <3>3 DEF PublishReady
      <4>2. store[o].coupon = c /\ store[o].applied \in {NoCoupon, c} /\ c \in MaybeCoupon
        BY <2>1, <3>3, PaymentIsOf DEF Payment, OneCoupon, Known
      <4>3. m \in Message /\ Carries(m, c)
        <5>1. \E a \in {NoCoupon, c} : m = [Msg(c) EXCEPT !.applied = a]
          BY <4>2
        <5> HIDE DEF m
        <5> QED
          BY <4>2, <5>1, MsgFields
      <4>4. topic \in QuietTopics
        BY DEF QuietTopics
      <4> HIDE DEF m, topic
      <4> QED
        BY <4>1, <4>3, <4>4 DEF PlainFlow
    <3> QED
      BY <1>3, <3>1, <3>2, <3>3
  <2>3. Plain(g, o, c)
    BY <1>1, <2>1, <2>2 DEF Plain
  <2> QED
    BY <1>1, <2>1, <2>3, PlainStep, RowStays
<1>4. ASSUME NEW g \in MarkGroups \cup {DiscountGroup, ClearGroup}, ClearStore(g, o)
      PROVE  OwnCoupon(o, c)
  <2>1. queue[g][o] # <<>> /\ Return(g, o, queue) /\ g \in Groups /\ task[g][o].pc = "clear"
    BY <1>4, PlainGroupsAre, StockGroupsAre DEF ClearStore, At
  <2>2. Plain(g, o, c)
    BY <1>1, <2>1, PlainReturn, PlainGroupsAre, StockGroupsAre DEF Plain
  <2>3. CASE g # ClearGroup
    <3>1. g \notin OrderFailGroups
      BY <1>4, <2>3, PlainGroupsAre
    <3> QED
      BY <1>1, <2>2, <3>1, PlainStep, RowStays
  <2>4. CASE g = ClearGroup
    <3>1. orders[o].status = "PENDING"
      BY <2>1, <2>4 DEF Known, StockFlow
    <3>2. Untouched(o)' <=> Untouched(o)
      BY <2>2, PlainEffect
    <3>3. Failing(o)
      BY <2>1, <2>4, StockGroupsAre DEF Failing
    <3>4. ~Untouched(o)
      BY <2>1 DEF Known, Given, FirstPayment, Fresh
    <3>5. Failing(o)'
      BY <1>1, <3>1, <3>2, <3>4 DEF Failing
    <3> QED
      BY <1>1, <2>2, <3>3, <3>5, PlainStep, RowStays
  <2> QED
    BY <2>3, <2>4
<1> QED
  BY <1>2, <1>3, <1>4 DEF Aggregate, DiscountGroup, ClearGroup

\* The steps of the stock's handlers
LEMMA StockCoupon ==
  ASSUME NEW o \in Orders, NEW c, Known(o, c),
         \/ ConfirmStock(o) \/ StockConfirmed(o)
         \/ \E g \in ProductFailGroups : RestoreItem(g, o) \/ StockRestored(g, o)
  PROVE  OwnCoupon(o, c)
<1>1. orders' = orders /\ couponVars' = couponVars /\ attempts' = attempts
  BY DEF ConfirmStock, StockConfirmed, RestoreItem, StockRestored, ItemDone
<1>2. ASSUME NEW g \in ProductFailGroups \cup {ConfirmGroup}, queue[g][o] # <<>>,
             PlainFlow(g, o, c)
      PROVE  OwnCoupon(o, c)
  <2>1. g \notin OrderFailGroups /\ Plain(g, o, c)
    BY <1>1, <1>2, PlainGroupsAre DEF Plain
  <2> QED
    BY <1>1, <2>1, PlainStep, RowStays
<1>3. CASE ConfirmStock(o)
  <2>1. queue[ConfirmGroup][o] # <<>> /\ (\E t : Goto(ConfirmGroup, o, t)) /\ queue' = queue
    BY <1>3 DEF ConfirmStock, ItemDone, At, ConfirmGroup
  <2> QED
    BY <1>2, <2>1 DEF PlainFlow
<1>4. CASE StockConfirmed(o)
  <2> DEFINE g == ConfirmGroup
             topic == "order.processing.stock.success"
             m == Msg(Received(g, o).coupon)
  <2>1. queue[g][o] # <<>> /\ Return(g, o, Published(topic, o, m))
    BY <1>4 DEF StockConfirmed, At, ConfirmGroup
  <2>2. g \in Groups /\ g \notin Subscribers(topic) /\ topic \in QuietTopics
    BY PlainGroupsAre DEF Subscribers, ConfirmGroup, QuietTopics
  <2>3. Received(g, o).coupon = c /\ c \in MaybeCoupon
    BY <2>1, <2>2, PaymentIsOf DEF Carries, Known
  <2>4. m \in Message /\ Carries(m, c)
    BY <2>3, MsgFields
  <2> HIDE DEF m, topic
  <2> QED
    BY <1>2, <2>1, <2>2, <2>4 DEF PlainFlow
<1>5. ASSUME NEW g \in ProductFailGroups, RestoreItem(g, o) \/ StockRestored(g, o)
      PROVE  OwnCoupon(o, c)
  <2>1. /\ queue[g][o] # <<>>
        /\ ((\E t : Goto(g, o, t)) /\ queue' = queue) \/ Return(g, o, queue)
    BY <1>5 DEF RestoreItem, StockRestored, ItemDone, At
  <2>2. PlainFlow(g, o, c)
    BY <2>1, Zenon DEF PlainFlow
  <2> QED
    BY <1>2, <2>1, <2>2
<1> QED
  BY <1>3, <1>4, <1>5

\* A row in payment that is written back is of the coupon of its payment.
LEMMA InPayment ==
  ASSUME NEW o \in Orders, NEW c, Known(o, c), NEW g \in {DiscountGroup, CompleteGroup},
         queue[g][o] # <<>>, task[g][o].pc = "update", attempts' = attempts
  PROVE  orders[o].status # "PENDING" /\ orders[o] \in Row
<1>1. g \in Groups
  BY PlainGroupsAre
<1>2. Payment(o, c) /\ Given(o) /\ c \in MaybeCoupon
  BY <1>1, PaymentIsOf DEF Known
<1>3. task["client"][o].pc = "idle"
  BY <1>1, <1>2 DEF Given, FirstPayment, Untouched, Fresh
<1>4. ~Dead(o, c)
  <2> SUFFICES ASSUME Dead(o, c) PROVE FALSE
    OBVIOUS
  <2>1. /\ task[DiscountGroup][o].pc \notin {"update", "publish"}
        /\ task[CompleteGroup][o].pc = "idle"
    BY <1>2, DeadIsOut
  <2> QED
    BY <2>1
<1>5. orders[o] \in Row
  BY <1>2 DEF Given, TypeOK
<1> QED
  BY <1>2, <1>3, <1>4, <1>5 DEF Payment, Statuses

\* The steps of the order's handlers of the successes
LEMMA OrderCoupon ==
  ASSUME NEW o \in Orders, NEW c, Known(o, c), ProcessOrder(o)
  PROVE  OwnCoupon(o, c)
<1>1. couponVars' = couponVars /\ attempts' = attempts /\ c \in MaybeCoupon /\ TypeOK
  BY DEF ProcessOrder, ReadForPayment, WriteDiscount, PublishPayment, ReadForCompletion, WritePaid,
         PublishProcessed, Known, Given
<1>2. ASSUME NEW g \in {DiscountGroup, CompleteGroup}, queue[g][o] # <<>>, PlainFlow(g, o, c),
             RowCoupon(o, c)', orders'[o].status = "PENDING" <=> orders[o].status = "PENDING"
      PROVE  OwnCoupon(o, c)
  <2>1. g \notin OrderFailGroups /\ Plain(g, o, c)
    BY <1>1, <1>2, PlainGroupsAre DEF Plain
  <2> QED
    BY <1>2, <2>1, PlainStep
<1>3. CASE ReadForPayment(o)
  <2> DEFINE g == DiscountGroup
  <2>1. orders' = orders /\ queue[g][o] # <<>>
    BY <1>3 DEF ReadForPayment, At, DiscountGroup
  <2>2. PlainFlow(g, o, c)
    <3>1. CASE orders[o].status # "PAYMENT_PROCESSING"
      <4>1. Return(g, o, queue)
        BY <1>3, <3>1 DEF ReadForPayment, DiscountGroup
      <4> QED
        BY <4>1, PlainReturn
    <3>2. CASE orders[o].status = "PAYMENT_PROCESSING"
      <4>1. queue' = queue
        BY <1>3, <3>2 DEF ReadForPayment
      <4>2. \E t : Goto(g, o, t)
        BY <1>3, <3>2, Zenon DEF ReadForPayment, DiscountGroup
      <4> QED
        BY <4>1, <4>2 DEF PlainFlow
    <3> QED
      BY <3>1, <3>2
  <2> QED
    BY <1>2, <2>1, <2>2, RowStays
<1>4. CASE WriteDiscount(o)
  <2> DEFINE g == DiscountGroup
  <2>1. /\ queue[g][o] # <<>> /\ task[g][o].pc = "update" /\ Continue(g, o, "publish")
        /\ orders' = [orders EXCEPT ![o] = task[g][o].row]
    BY <1>4 DEF WriteDiscount, At, DiscountGroup
  <2>2. orders[o].status # "PENDING" /\ orders[o] \in Row /\ g \in Groups
    BY <1>1, <2>1, InPayment, PlainGroupsAre
  <2>3. task[g][o].row = ApplyCoupon(orders[o], c)
    BY <2>1, <2>2, PaymentIsOf DEF Payment, Amounts
  <2>4. orders'[o].status = orders[o].status /\ orders'[o].coupon = c
    BY <1>1, <2>1, <2>2, <2>3 DEF TypeOK, ApplyCoupon, Row
  <2> QED
    BY <1>2, <2>1, <2>4, PlainContinue DEF RowCoupon
<1>5. CASE PublishPayment(o)
  <2> DEFINE g == DiscountGroup
             m == [Msg(Received(g, o).coupon) EXCEPT !.amount = AmountDue(o)]
             topic == "order.payment"
  <2>1. /\ orders' = orders /\ queue[g][o] # <<>> /\ task[g][o].pc = "publish"
        /\ queue' = Published(topic, o, m) /\ \E t : Goto(g, o, t)
    BY <1>5 DEF PublishPayment, At, DiscountGroup
  <2>2. g \in Groups /\ topic \in QuietTopics
    BY PlainGroupsAre DEF QuietTopics
  <2>3. Received(g, o).coupon = c /\ task[g][o].row = orders[o]
    BY <2>1, <2>2, PaymentIsOf DEF Carries, Payment, Amounts
  <2>4. AmountDue(o) \in Int
    <3>1. orders[o] \in Row /\ TotalAmount[o] \in Nat
      BY <1>1, SagaAssumption DEF TypeOK
    <3> QED
      BY <2>3, <3>1, FinalAmountType DEF AmountDue, DiscountGroup
  <2>5. \E n \in Int : m = [Msg(c) EXCEPT !.amount = n]
    BY <2>3, <2>4
  <2> HIDE DEF m, topic
  <2>6. m \in Message /\ Carries(m, c)
    BY <1>1, <2>5, MsgFields
  <2>7. PlainFlow(g, o, c)
    BY <2>1, <2>2, <2>6 DEF PlainFlow
  <2> QED
    BY <1>2, <2>1, <2>7, RowStays
<1>6. CASE ReadForCompletion(o)
  <2> DEFINE g == CompleteGroup
  <2>1. /\ orders' = orders /\ queue[g][o] # <<>>
        /\ \/ Return(g, o, queue) \/ Continue(g, o, "publish")
           \/ (\E t : Goto(g, o, t)) /\ queue' = queue
    BY <1>6 DEF ReadForCompletion, At, CompleteGroup
  <2>2. PlainFlow(g, o, c)
    BY <2>1, PlainContinue DEF PlainFlow
  <2> QED
    BY <1>2, <2>1, <2>2, RowStays
<1>7. CASE WritePaid(o)
  <2> DEFINE g == CompleteGroup
  <2>1. /\ queue[g][o] # <<>> /\ task[g][o].pc = "update"
        /\ (\E t : Goto(g, o, t)) /\ queue' = queue
        /\ orders' = [orders EXCEPT ![o] = task[g][o].row]
    BY <1>7 DEF WritePaid, At, CompleteGroup
  <2>2. orders[o].status # "PENDING" /\ orders[o] \in Row
    BY <1>1, <2>1, InPayment
  <2>3. task[g][o].row = CompletePayment(orders[o])
    BY <2>1 DEF Known, Given, FirstPayment, Completion
  <2>4. orders'[o].status = "PAID" /\ orders'[o].coupon = orders[o].coupon
    BY <1>1, <2>1, <2>2, <2>3 DEF TypeOK, CompletePayment, Row
  <2>5. RowCoupon(o, c)'
    BY <2>2, <2>4 DEF Known, CouponFlow, RowCoupon
  <2>6. PlainFlow(g, o, c)
    BY <2>1 DEF PlainFlow
  <2> QED
    BY <1>2, <2>1, <2>2, <2>4, <2>5, <2>6
<1>8. CASE PublishProcessed(o)
  <2> DEFINE g == CompleteGroup
             m == Msg(Received(g, o).coupon)
             topic == "order.processed"
  <2>1. orders' = orders /\ queue[g][o] # <<>> /\ Return(g, o, Published(topic, o, m))
    BY <1>8 DEF PublishProcessed, At, CompleteGroup
  <2>2. g \in Groups /\ g \notin Subscribers(topic) /\ topic \in QuietTopics
    BY PlainGroupsAre DEF Subscribers, CompleteGroup, QuietTopics
  <2>3. Received(g, o).coupon = c
    BY <2>1, <2>2, PaymentIsOf DEF Carries
  <2>4. m \in Message /\ Carries(m, c)
    BY <1>1, <2>3, MsgFields
  <2> HIDE DEF m, topic
  <2>5. PlainFlow(g, o, c)
    BY <2>1, <2>2, <2>4 DEF PlainFlow
  <2> QED
    BY <1>2, <2>1, <2>5, RowStays
<1> QED
  BY <1>3, <1>4, <1>5, <1>6, <1>7, <1>8 DEF ProcessOrder

\* The steps of the balance's handler that report no failure, and the two
\* that follow the payment
LEMMA PaidCoupon ==
  ASSUME NEW o \in Orders, NEW c, Known(o, c), DeductBalance(o) \/ PaymentSucceeded(o) \/ Finish(o)
  PROVE  OwnCoupon(o, c)
<1>1. orders' = orders /\ couponVars' = couponVars /\ attempts' = attempts /\ c \in MaybeCoupon
  BY DEF DeductBalance, PaymentSucceeded, Finish, ExportOrder, RecordSales, Known
<1>2. ASSUME NEW g \in {DeductGroup, ExportGroup, RankGroup}, queue[g][o] # <<>>,
             PlainFlow(g, o, c)
      PROVE  OwnCoupon(o, c)
  <2>1. g \notin OrderFailGroups /\ Plain(g, o, c)
    BY <1>1, <1>2, PlainGroupsAre DEF Plain
  <2> QED
    BY <1>1, <2>1, PlainStep, RowStays
<1>3. CASE DeductBalance(o)
  <2>1. queue[DeductGroup][o] # <<>> /\ Continue(DeductGroup, o, "publish")
    BY <1>3 DEF DeductBalance, At, DeductGroup
  <2> QED
    BY <1>2, <2>1, PlainContinue
<1>4. CASE PaymentSucceeded(o)
  <2> DEFINE g == DeductGroup
             topic == "order.payment.success"
             m == Msg(Received(g, o).coupon)
  <2>1. queue[g][o] # <<>> /\ Return(g, o, Published(topic, o, m))
    BY <1>4 DEF PaymentSucceeded, At, DeductGroup
  <2>2. g \in Groups /\ g \notin Subscribers(topic) /\ topic \in QuietTopics
    BY PlainGroupsAre DEF Subscribers, DeductGroup, QuietTopics
  <2>3. Received(g, o).coupon = c
    BY <2>1, <2>2, PaymentIsOf DEF Carries
  <2>4. m \in Message /\ Carries(m, c)
    BY <1>1, <2>3, MsgFields
  <2> HIDE DEF m, topic
  <2> QED
    BY <1>2, <2>1, <2>2, <2>4 DEF PlainFlow
<1>5. CASE Finish(o)
  <2>1. \E g \in {ExportGroup, RankGroup} : queue[g][o] # <<>> /\ Return(g, o, queue)
    BY <1>5 DEF Finish, ExportOrder, RecordSales, At, ExportGroup, RankGroup
  <2> QED
    BY <1>2, <2>1, PlainReturn
<1> QED
  BY <1>3, <1>4, <1>5

\* The order is taken back: its payment goes on failing.
LEMMA CancelCoupon ==
  ASSUME NEW o \in Orders, NEW c, Known(o, c), NEW g \in OrderFailGroups,
         ReadForCancel(g, o) \/ WriteCancel(g, o)
  PROVE  OwnCoupon(o, c)
<1>1. /\ queue[g][o] # <<>> /\ couponVars' = couponVars /\ attempts' = attempts
      /\ g \in Groups \ CouponHandlers
  BY PlainGroupsAre DEF ReadForCancel, WriteCancel, At
<1>2. PlainFlow(g, o, c)
  <2>1. CASE AfterCancel(g, o)
    <3>1. ((\E t : Goto(g, o, t)) /\ queue' = queue) \/ Return(g, o, queue)
      BY <2>1 DEF AfterCancel
    <3> QED
      BY <3>1, Zenon DEF PlainFlow
  <2>2. CASE ~AfterCancel(g, o)
    <3>1. (\E t : Goto(g, o, t)) /\ queue' = queue
      BY <2>2, Zenon DEF ReadForCancel, WriteCancel
    <3> QED
      BY <3>1 DEF PlainFlow
  <2> QED
    BY <2>1, <2>2
<1>3. Plain(g, o, c)
  BY <1>1, <1>2 DEF Plain
<1>4. Failing(o) /\ ~Untouched(o)
  BY <1>1 DEF Failing, Known, Given, FirstPayment, Fresh
<1>5. ~Untouched(o)'
  BY <1>3, <1>4, PlainEffect
<1>6. Payment(o, c) /\ TypeOK
  BY <1>1, PaymentIsOf DEF Known, Given
<1>7. CASE ReadForCancel(g, o) /\ Cancellable(orders[o])
  <2>1. orders' = orders /\ queue' = queue
    BY <1>7 DEF ReadForCancel
  <2>2. Failing(o)'
    BY <1>1, <2>1 DEF Failing
  <2> QED
    BY <1>3, <1>4, <2>1, <2>2, PlainStep, RowStays
<1>8. CASE ReadForCancel(g, o) /\ ~Cancellable(orders[o])
  <2>1. orders' = orders
    BY <1>8 DEF ReadForCancel
  <2>2. orders[o].status = "PENDING"
    BY <1>6, <1>8 DEF Payment, Statuses, Cancellable
  <2>3. Failing(o)'
    BY <1>5, <2>1, <2>2 DEF Failing
  <2> QED
    BY <1>3, <1>4, <2>1, <2>3, PlainStep, RowStays
<1>9. CASE WriteCancel(g, o)
  <2>1. orders'[o].status = "PENDING"
    <3>1. orders'[o] = task[g][o].row /\ task[g][o].pc = "update"
      BY <1>6, <1>9 DEF WriteCancel, TypeOK, At
    <3> QED
      BY <1>6, <3>1 DEF Payment, Statuses
  <2>2. Failing(o)' /\ RowCoupon(o, c)'
    BY <1>5, <2>1 DEF Failing, RowCoupon
  <2> QED
    BY <1>3, <1>4, <2>2, PlainStep
<1> QED
  BY <1>7, <1>8, <1>9

-----------------------------------------------------------------------------
(***************************************************************************)
(* The request.                                                            *)
(***************************************************************************)
LEMMA UnmarkedBefore ==
  ASSUME NEW o \in Orders, NEW c, Known(o, c), Untouched(o)
  PROVE  \A u \in Users, k \in Coupons : userCoupons[u][k] # o /\ couponRows[u][k] # o
<1> SUFFICES ASSUME NEW u \in Users, NEW k \in Coupons
             PROVE  userCoupons[u][k] # o /\ couponRows[u][k] # o
  OBVIOUS
<1>1. queue[UseGroup][o] = <<>>
  BY CouponGroupsAre DEF Known, Given, FirstPayment, Fresh
<1>2. ~Used(o) /\ ~Recorded(o) /\ ~Cancelling(o)
  BY <1>1 DEF Used, Recorded, Cancelling
<1>3. CASE u = UserOf[o] /\ k = c
  <2>1. CouponMarks(o, c)
    BY <1>3, CouponAssumption DEF Known, CouponFlow
  <2> QED
    BY <1>2, <1>3, <2>1 DEF CouponMarks
<1>4. CASE u # UserOf[o] \/ k # c
  BY <1>4 DEF Known, CouponFlow, Elsewhere
<1> QED
  BY <1>3, <1>4

\* Before its publish the request leaves queues and handlers alone.
LEMMA RequestIsUntouched ==
  ASSUME NEW o \in Orders, Given(o), BeginPayment(o) \/ MarkProcessing(o)
  PROVE  Untouched(o) /\ Untouched(o)' /\ (\E t : Goto("client", o, t)) /\ queue' = queue
<1>1. CASE BeginPayment(o)
  <2> DEFINE t == Holding("update", BeginPaymentProcessing(orders[o]))
  <2>1. /\ Goto("client", o, t) /\ queue' = queue
        /\ task["client"][o].pc = "idle" /\ attempts' = [attempts EXCEPT ![o] = @ + 1]
    BY <1>1 DEF BeginPayment
  <2>2. attempts[o] = 0
    <3>1. attempts \in [Orders -> Nat] /\ attempts'[o] <= 1
      BY DEF Given, TypeOK, First
    <3> QED
      BY <2>1, <3>1
  <2>3. t.pc # "idle"
    BY DEF Holding
  <2> HIDE DEF t
  <2>4. task'["client"][o] = t
    BY <2>1, RequestTask
  <2> QED
    BY <2>1, <2>2, <2>3, <2>4 DEF Untouched
<1>2. CASE MarkProcessing(o)
  <2> DEFINE t == [Idle EXCEPT !.pc = "publish"]
  <2>1. /\ Goto("client", o, t) /\ queue' = queue
        /\ task["client"][o].pc = "update"
    BY <1>2 DEF MarkProcessing
  <2>2. t.pc # "idle"
    BY DEF Idle
  <2> HIDE DEF t
  <2>3. task'["client"][o] = t
    BY <2>1, RequestTask
  <2> QED
    BY <2>1, <2>2, <2>3 DEF Untouched
<1> QED
  BY <1>1, <1>2

\* The request marks no coupon before its publish.
LEMMA RequestCoupon ==
  ASSUME NEW o \in Orders, NEW c, Known(o, c), BeginPayment(o) \/ MarkProcessing(o)
  PROVE  OwnCoupon(o, c)
<1>1. Untouched(o) /\ Untouched(o)' /\ (\E t : Goto("client", o, t)) /\ queue' = queue
      /\ couponVars' = couponVars
  BY RequestIsUntouched DEF Known, BeginPayment, MarkProcessing
<1>2. \A g \in Groups : queue[g][o] = <<>> /\ queue'[g][o] = <<>>
  BY <1>1, UntouchedIsBare DEF Bare, Known
<1>3. \A g \in Groups : task'[g][o] = task[g][o]
  BY <1>1, RequestTask DEF Known
<1>4. ~Failing(o) /\ ~Failing(o)'
  BY <1>1, <1>2, UntouchedIdle, UntouchedIdleNext DEF UntouchedIsIdle
<1>5. SameCoupon(o)
  BY <1>1, <1>2, <1>3, <1>4, CouponGroupsAre DEF SameCoupon
<1>6. \A h \in Groups : Shrinks(h, o) \/ Grows(h, o, c)
  BY <1>2 DEF Shrinks
<1>7. Carried(o, c)'
  BY <1>6, CarriedOn
<1>8. RowCoupon(o, c)'
  <2>1. CASE BeginPayment(o)
    BY <2>1, RowStays DEF BeginPayment
  <2>2. CASE MarkProcessing(o)
    <3>1. /\ orders'[o] = task["client"][o].row
          /\ task["client"][o].row = BeginPaymentProcessing(PendingRow)
      BY <1>1, <2>2, UntouchedIsBare DEF MarkProcessing, Known, Given, TypeOK, Fresh
    <3> QED
      BY <3>1 DEF BeginPaymentProcessing, PendingRow, RowCoupon
  <2> QED
    BY <2>1, <2>2
<1> QED
  BY <1>1, <1>5, <1>7, <1>8, UnseenKeeps

\* The request names its coupon.
LEMMA PublishCoupon ==
  ASSUME NEW o \in Orders, NEW c, Known(o, c), PublishProcessing(o)
  PROVE  \E d \in MaybeCoupon : OwnCoupon(o, d)
<1> DEFINE topic == "order.processing"
<1>1. PICK d \in MaybeCoupon : queue' = Published(topic, o, Msg(d))
  BY DEF PublishProcessing
<1>2. /\ task["client"][o].pc = "publish" /\ Goto("client", o, Idle)
      /\ UNCHANGED <<orders, userCoupons, couponRows, attempts>>
  BY DEF PublishProcessing
<1>3. Given(o) /\ TypeOK /\ Untouched(o)
  BY <1>2 DEF Known, Given, Untouched
<1>4. Bare(o) /\ Fresh(o)
  BY <1>3, UntouchedIsBare
<1>5. \A g \in Groups : queue[g][o] = <<>> /\ task[g][o].pc = "idle"
  BY <1>4 DEF Bare
<1>6. \A g \in Groups : task'[g][o] = task[g][o]
  BY <1>2, <1>3, RequestTask
<1>7. \A u \in Users, k \in Coupons : userCoupons'[u][k] # o /\ couponRows'[u][k] # o
  BY <1>2, <1>3, UnmarkedBefore
<1>8. Msg(d) \in Message /\ Carries(Msg(d), d)
  BY MsgFields
<1> DEFINE m == Msg(d)
<1> HIDE DEF m
<1>9. \A h \in Groups : queue'[h][o] = IF h \in Subscribers(topic)
                                       THEN Append(queue[h][o], m) ELSE queue[h][o]
  <2> HIDE DEF topic
  <2>1. Sent(o, topic, m)
    BY <1>1, <1>3, FirstSend DEF m
  <2> QED
    BY <2>1 DEF Sent
<1>10. Carried(o, d)'
  <2> SUFFICES ASSUME NEW h \in Groups, NEW n \in Messages(h, o)'
               PROVE  Carries(n, d)
    BY DEF Carried, Carries
  <2>1. Messages(h, o) = {}
    BY <1>5 DEF Messages
  <2>2. CASE queue'[h][o] = queue[h][o]
    BY <2>1, <2>2 DEF Messages
  <2>3. CASE queue'[h][o] = Append(queue[h][o], m)
    <3>1. Messages(h, o)' = Messages(h, o) \cup {m}
      BY <1>3, <1>8, <2>3, MessagesSent DEF m
    <3> QED
      BY <1>8, <2>1, <3>1 DEF m
  <2> QED
    BY <1>9, <2>2, <2>3
<1>11. /\ UseGroup \in Subscribers(topic) /\ ReleaseGroup \notin Subscribers(topic)
       /\ SkipGroup \notin Subscribers(topic)
  BY DEF Subscribers, UseGroup, ReleaseGroup, SkipGroup
<1>12. /\ queue'[UseGroup][o] # <<>> /\ queue'[ReleaseGroup][o] = <<>>
       /\ queue'[SkipGroup][o] = <<>>
       /\ \A h \in CouponHandlers : task'[h][o].pc = "idle"
  <2>1. queue'[UseGroup][o] = Append(<<>>, m)
    BY <1>5, <1>9, <1>11, CouponGroupsAre
  <2>2. queue'[UseGroup][o] # <<>>
    BY <1>8, <2>1, AppendOne DEF m
  <2> QED
    BY <1>5, <1>6, <1>9, <1>11, <2>2, CouponGroupsAre
<1>13. CouponPlaces(o)'
  <2>1. Messages(SkipGroup, o)' = {}
    BY <1>12 DEF Messages
  <2>2. Len(queue'[ReleaseGroup][o]) = 0
    BY <1>12
  <2> QED
    BY <1>12, <2>1, <2>2, CouponGroupsAre DEF CouponPlaces
<1>14. Elsewhere(o, d)'
  BY <1>7 DEF Elsewhere
<1>15. orders'[o].coupon = NoCoupon
  BY <1>2, <1>4 DEF Fresh, BeginPaymentProcessing, PendingRow
<1>16. d # NoCoupon => CouponMarks(o, d)'
  <2> SUFFICES ASSUME d # NoCoupon PROVE CouponMarks(o, d)'
    OBVIOUS
  <2>1. userCoupons'[UserOf[o]][d] # o /\ couponRows'[UserOf[o]][d] # o
    BY <1>7, SagaAssumption DEF MaybeCoupon
  <2>2. task'[UseGroup][o].pc = "idle"
    BY <1>12, CouponGroupsAre
  <2>3. ~Used(o)' /\ ~Recorded(o)' /\ ~Cancelling(o)'
    BY <1>12, <2>2 DEF Used, Recorded, Cancelling
  <2> QED
    BY <2>1, <2>2, <2>3 DEF CouponMarks
<1>17. Touches(o)
  <2>1. ~Past(o)
    BY <1>3 DEF Past
  <2> QED
    BY <1>2, <2>1, QuietTouches
<1>18. CouponFlow(o, d)'
  BY <1>10, <1>12, <1>13, <1>14, <1>15, <1>16, CouponGroupsAre DEF CouponFlow
<1> QED
  BY <1>17, <1>18 DEF OwnCoupon

\* A lapse of the coordinator's state does not concern the coupon.
LEMMA ExpireCoupon ==
  ASSUME NEW o \in Orders, NEW c, Known(o, c), Expire(o)
  PROVE  OwnCoupon(o, c)
<1>1. UNCHANGED <<queue, task, orders, attempts, userCoupons, couponRows>>
  BY DEF Expire
<1>2. SameFlow(o)
  BY <1>1 DEF SameFlow
<1>3. SameCoupon(o)
  <2>1. Untouched(o)' <=> Untouched(o)
    BY <1>1 DEF Untouched
  <2>2. Failing(o)' <=> Failing(o)
    BY <1>1, <2>1, Zenon DEF Failing
  <2> QED
    BY <1>1, <2>1, <2>2 DEF SameCoupon
<1>4. \A h \in Groups : Shrinks(h, o) \/ Grows(h, o, c)
  BY <1>1 DEF Shrinks
<1> QED
  BY <1>1, <1>3, <1>4, CarriedOn, RowStays, UnseenKeeps

-----------------------------------------------------------------------------
(***************************************************************************)
(* The coupon's handler of order.processing.                               *)
(***************************************************************************)
\* What the coupon's handler finds
LEMMA UseFinds ==
  ASSUME NEW o \in Orders, NEW c, Known(o, c), queue[UseGroup][o] # <<>>
  PROVE  /\ UseGroup \in Groups /\ Payment(o, c) /\ Received(UseGroup, o).coupon = c
         /\ ~Untouched(o) /\ UserOf[o] \in Users
         /\ task[UseGroup][o].pc # "idle" => c # NoCoupon
         /\ c # NoCoupon => /\ c \in Coupons /\ ~Failing(o) /\ queue[ReleaseGroup][o] = <<>>
                            /\ CouponMarks(o, c)
<1>1. UseGroup \in Groups
  BY CouponGroupsAre
<1>2. Payment(o, c) /\ Received(UseGroup, o).coupon = c /\ c \in MaybeCoupon
  BY <1>1, PaymentIsOf DEF Carries, Known
<1>3. ~Untouched(o)
  BY <1>1 DEF Known, Given, FirstPayment, Fresh
<1>4. task[UseGroup][o].pc # "idle" => c # NoCoupon
  BY <1>2, UsesCoupon DEF Known
<1>5. UserOf[o] \in Users
  BY SagaAssumption
<1>6. c # NoCoupon => c \in Coupons /\ ~Failing(o) /\ CouponMarks(o, c)
  BY <1>2 DEF MaybeCoupon, Known, StockFlow, CouponFlow
<1>7. queue[ReleaseGroup][o] # <<>> => Failing(o)
  BY DEF Known, CouponFlow, CouponPlaces
<1> QED
  BY <1>1, <1>2, <1>3, <1>4, <1>5, <1>6, <1>7

\* A step of one of the coupon's handlers leaves the rest of the order.
CouponStep(g, o) ==
  /\ g \in CouponHandlers /\ queue[g][o] # <<>>
  /\ attempts' = attempts /\ orders' = orders

\* A step of a coupon's handler leaves the row and the other handlers alone.
LEMMA CouponStepLeaves ==
  ASSUME NEW o \in Orders, NEW c, Known(o, c), NEW g, CouponStep(g, o), NEW t, TaskOf(g, o, t)
  PROVE  /\ ~Untouched(o) /\ ~Untouched(o)'
         /\ task'[g][o] = t /\ \A h \in CouponHandlers \ {g} : task'[h][o] = task[h][o]
         /\ RowCoupon(o, c)'
         /\ (\A h \in OrderFailGroups : queue'[h][o] = queue[h][o]) => (Failing(o)' <=> Failing(o))
<1>1. g \in Groups /\ "client" \in Workers \ {g}
  BY CouponGroupsAre, GroupsAre DEF CouponStep
<1>2. ~Untouched(o)
  BY <1>1 DEF CouponStep, Known, Given, FirstPayment, Fresh
<1>3. ~Untouched(o)'
  BY <1>1, <1>2 DEF Untouched, TaskOf, CouponStep
<1>4. task'[g][o] = t /\ \A h \in CouponHandlers \ {g} : task'[h][o] = task[h][o]
  BY CouponGroupsAre DEF TaskOf
<1>5. RowCoupon(o, c)' /\ orders'[o] = orders[o]
  BY RowStays DEF CouponStep
<1>6. ASSUME \A h \in OrderFailGroups : queue'[h][o] = queue[h][o]
      PROVE  Failing(o)' <=> Failing(o)
  BY <1>2, <1>3, <1>5, <1>6, Zenon DEF Failing
<1> QED
  BY <1>2, <1>3, <1>4, <1>5, <1>6

\* What the place of the coupon's handler says about the marks
LEMMA UseMarks ==
  ASSUME NEW o \in Orders, queue[UseGroup][o] # <<>>, ~Untouched(o)
  PROVE  /\ Used(o) <=> task[UseGroup][o].pc \in {"create", "publish"}
         /\ Recorded(o) <=> task[UseGroup][o].pc = "publish"
         /\ Cancelling(o) <=> task[UseGroup][o].pc \in {"cancelCheck", "cancel"}
         /\ Past(o) <=> task[UseGroup][o].pc # "idle"
  BY DEF Used, Recorded, Cancelling, Past

UseMarked ==
  \A o \in Orders : queue[UseGroup][o] # <<>> /\ ~Untouched(o) =>
    /\ Used(o) <=> task[UseGroup][o].pc \in {"create", "publish"}
    /\ Recorded(o) <=> task[UseGroup][o].pc = "publish"
    /\ Cancelling(o) <=> task[UseGroup][o].pc \in {"cancelCheck", "cancel"}
    /\ Past(o) <=> task[UseGroup][o].pc # "idle"

\* The same as an operator that hides the queues
LEMMA UseIsMarked == UseMarked
  BY UseMarks DEF UseMarked

\* The same after a step
LEMMA UseIsMarkedNext == UseMarked'
  BY UseIsMarked, PTL

\* The handler goes on to p.
LEMMA UseGoesOn ==
  ASSUME NEW o \in Orders, NEW c, Known(o, c), CouponStep(UseGroup, o),
         NEW p \in {"create", "publish", "cancelCheck", "cancel"}, Continue(UseGroup, o, p)
  PROVE  /\ Carried(o, c)' /\ CouponPlaces(o)' /\ RowCoupon(o, c)'
         /\ task'[UseGroup][o].pc = p /\ Past(o)'
         /\ Used(o)' <=> p \in {"create", "publish"}
         /\ Recorded(o)' <=> p = "publish"
         /\ Cancelling(o)' <=> p \in {"cancelCheck", "cancel"}
<1> DEFINE g == UseGroup
           t == [task[g][o] EXCEPT !.pc = p]
<1>1. Goto(g, o, t) /\ queue' = queue /\ queue[g][o] # <<>> /\ attempts' = attempts
  BY DEF Continue, CouponStep
<1>2. TypeOK /\ g \in Workers /\ g \in Groups
  BY CouponGroupsAre DEF Known, Given
<1>3. t.pc = p
  BY <1>2 DEF TypeOK, Task
<1> HIDE DEF t
<1>4. TaskOf(g, o, t)
  BY <1>1, <1>2, GotoTask
<1>5. /\ ~Untouched(o)' /\ task'[g][o].pc = p
      /\ \A h \in CouponHandlers \ {g} : task'[h][o] = task[h][o]
      /\ RowCoupon(o, c)' /\ (Failing(o)' <=> Failing(o))
  BY <1>1, <1>3, <1>4, CouponStepLeaves
<1>6. Carried(o, c)'
  <2>1. \A h \in Groups : Shrinks(h, o) \/ Grows(h, o, c)
    BY <1>1 DEF Shrinks
  <2> QED
    BY <2>1, CarriedOn
<1>7. CouponPlaces(o)'
  <2>1. /\ task'[ReleaseGroup][o] = task[ReleaseGroup][o]
        /\ task'[SkipGroup][o] = task[SkipGroup][o]
    BY <1>5, CouponGroupsAre
  <2>2. Messages(SkipGroup, o)' = Messages(SkipGroup, o)
    BY <1>1 DEF Messages
  <2> QED
    BY <1>1, <1>5, <2>1, <2>2 DEF Known, CouponFlow, CouponPlaces
<1>8. queue'[g][o] # <<>>
  BY <1>1
<1> QED
  BY <1>5, <1>6, <1>7, <1>8, UseIsMarkedNext DEF UseMarked

\* The order that has marked the coupon c of o's user has made its use before.
LEMMA RivalIsPast ==
  ASSUME NEW o \in Orders, NEW y \in Orders \ {o}, NEW d \in MaybeCoupon, CouponFlow(y, d),
         NEW c \in Coupons, UserOf[o] \in Users,
         userCoupons[UserOf[o]][c] = y \/ couponRows[UserOf[o]][c] = y
  PROVE  y \in Rivals(o) /\ Past(y)
<1>1. UserOf[o] = UserOf[y] /\ c = d
  BY DEF CouponFlow, Elsewhere
<1>2. CouponMarks(y, d)
  BY <1>1, CouponAssumption DEF CouponFlow
<1>3. Used(y) \/ Cancelling(y) \/ Recorded(y)
  BY <1>1, <1>2 DEF CouponMarks
<1>4. Past(y)
  BY <1>3 DEF Used, Cancelling, Recorded, Past
<1> QED
  BY <1>1, <1>4 DEF Rivals

-----------------------------------------------------------------------------
\* The other orders, and what the coupon's theorem asks of them
Company(o) ==
  /\ OnlyRefusals /\ FewRivals
  /\ \A x \in Orders : \E d \in MaybeCoupon : CouponFlow(x, d)

\* The handler goes on to p, and the marks are as they have to be there.
LEMMA UseSettles ==
  ASSUME NEW o \in Orders, NEW c \in Coupons, Known(o, c), CouponStep(UseGroup, o),
         NEW p \in {"create", "publish", "cancelCheck", "cancel"}, Continue(UseGroup, o, p),
         Past(o)' => Touches(o), Elsewhere(o, c)',
         couponRows'[UserOf[o]][c] = o <=> p = "publish",
         p \in {"create", "publish"} => userCoupons'[UserOf[o]][c] = o,
         p = "cancel" => userCoupons'[UserOf[o]][c] \notin Orders \ {o},
         p \in {"cancelCheck", "cancel"} =>
           \/ userCoupons'[UserOf[o]][c] \in {"absent", "phantom"}
           \/ \A x \in Rivals(o) : Past(x)
  PROVE  OwnCoupon(o, c)
<1>1. /\ Carried(o, c)' /\ CouponPlaces(o)' /\ RowCoupon(o, c)'
      /\ task'[UseGroup][o].pc = p /\ Past(o)'
      /\ Used(o)' <=> p \in {"create", "publish"}
      /\ Recorded(o)' <=> p = "publish"
      /\ Cancelling(o)' <=> p \in {"cancelCheck", "cancel"}
  BY UseGoesOn
<1>2. \A x \in Rivals(o) : Past(x)' <=> Past(x)
  BY DEF Known
<1>3. CouponMarks(o, c)'
  BY <1>1, <1>2 DEF CouponMarks, Rivals
<1> QED
  BY <1>1, <1>3, CouponAssumption DEF OwnCoupon, CouponFlow, RowCoupon

\* Where neither hash nor row changes, no other coupon is marked.
LEMMA MarksStand ==
  ASSUME NEW o \in Orders, NEW c, Known(o, c), couponVars' = couponVars
  PROVE  Elsewhere(o, c)' /\ (Past(o)' => Touches(o))
<1>1. Elsewhere(o, c)'
  BY DEF Known, CouponFlow, Elsewhere
<1>2. Past(o)' => Touches(o)
  BY QuietTouches
<1> QED
  BY <1>1, <1>2

\* UseCoupon and CreateUserCoupon
LEMMA UseSucceeds ==
  ASSUME NEW o \in Orders, NEW c, Known(o, c), UseCoupon(o) \/ CreateUserCoupon(o)
  PROVE  OwnCoupon(o, c)
<1> DEFINE g == UseGroup
           u == UserOf[o]
           hash == userCoupons[u][c]
           row == couponRows[u][c]
<1>1. /\ queue[g][o] # <<>> /\ CouponStep(g, o) /\ TypeOK
      /\ UseCoupon(o) => task[g][o].pc = "idle" /\ Received(g, o).coupon # NoCoupon
      /\ CreateUserCoupon(o) => task[g][o].pc = "create"
  BY CouponGroupsAre DEF UseCoupon, CreateUserCoupon, At, CouponStep, UseGroup, Known, Given
<1>2. /\ Received(g, o).coupon = c /\ c \in Coupons /\ u \in Users /\ CouponMarks(o, c)
      /\ ~Untouched(o)
  BY <1>1, UseFinds
<1>3. /\ Used(o) <=> task[g][o].pc \in {"create", "publish"}
      /\ Recorded(o) <=> task[g][o].pc = "publish"
      /\ Past(o) <=> task[g][o].pc # "idle"
  BY <1>1, <1>2, UseMarks
<1>4. /\ row = o <=> Recorded(o)
      /\ Used(o) => hash = o
  BY <1>2 DEF CouponMarks
<1>5. Elsewhere(o, c)
  BY DEF Known, CouponFlow
<1>6. CASE UseCoupon(o)
  <2>1. /\ hash = "unused" /\ userCoupons' = [userCoupons EXCEPT ![u][c] = o]
        /\ couponRows' = couponRows /\ Continue(g, o, "create")
    BY <1>2, <1>6 DEF UseCoupon, UseGroup
  <2>2. /\ userCoupons'[u][c] = o
        /\ \A w \in Users, k \in Coupons :
             w # u \/ k # c => userCoupons'[w][k] = userCoupons[w][k]
    <3>1. userCoupons \in [Users -> [Coupons -> UserCoupon]] /\ u \in Users /\ c \in Coupons
      BY <1>1, <1>2 DEF TypeOK
    <3>2. userCoupons' = [userCoupons EXCEPT ![u][c] = o]
      BY <2>1
    <3> HIDE DEF u
    <3> QED
      BY <3>1, <3>2
  <2>3. Elsewhere(o, c)'
    BY <1>5, <2>1, <2>2 DEF Elsewhere
  <2>4. ~Past(o) /\ ~Recorded(o)
    BY <1>1, <1>3, <1>6
  <2>5. Past(o)' => Touches(o)
    <3>1. \A w \in Users, k \in Coupons :
            \/ userCoupons'[w][k] = userCoupons[w][k]
            \/ w = UserOf[o] /\ userCoupons[w][k] = "unused" /\ userCoupons'[w][k] = o
      BY <2>1, <2>2
    <3> QED
      BY <2>1, <2>4, <3>1 DEF Touches
  <2>6. couponRows'[u][c] # o
    BY <1>4, <2>1, <2>4
  <2> QED
    BY <1>1, <1>2, <2>1, <2>2, <2>3, <2>5, <2>6, UseSettles
<1>7. CASE CreateUserCoupon(o)
  <2>1. /\ row = NoOrder /\ couponRows' = [couponRows EXCEPT ![u][c] = o]
        /\ userCoupons' = userCoupons /\ Continue(g, o, "publish")
    BY <1>2, <1>7 DEF CreateUserCoupon, UseGroup
  <2>2. /\ couponRows'[u][c] = o
        /\ \A w \in Users, k \in Coupons :
             w # u \/ k # c => couponRows'[w][k] = couponRows[w][k]
    <3>1. /\ couponRows \in [Users -> [Coupons -> Orders \cup {NoOrder}]]
          /\ u \in Users /\ c \in Coupons
      BY <1>1, <1>2 DEF TypeOK
    <3>2. couponRows' = [couponRows EXCEPT ![u][c] = o]
      BY <2>1
    <3> HIDE DEF u
    <3> QED
      BY <3>1, <3>2
  <2>3. Elsewhere(o, c)'
    <3> SUFFICES ASSUME NEW w \in Users, NEW k \in Coupons, w # u \/ k # c
                 PROVE  userCoupons'[w][k] # o /\ couponRows'[w][k] # o
      BY DEF Elsewhere
    <3>1. userCoupons[w][k] # o /\ couponRows[w][k] # o
      BY <1>5 DEF Elsewhere
    <3>2. couponRows'[w][k] = couponRows[w][k]
      BY <2>2
    <3> QED
      BY <2>1, <3>1, <3>2
  <2>4. hash = o
    BY <1>1, <1>3, <1>4, <1>7
  <2>5. Past(o)' => Touches(o)
    <3>1. \A w \in Users, k \in Coupons :
            \/ couponRows'[w][k] = couponRows[w][k]
            \/ {couponRows[w][k], couponRows'[w][k]} \subseteq {o, NoOrder}
      BY <2>1, <2>2
    <3> QED
      BY <2>1, <3>1 DEF Touches
  <2> QED
    BY <1>1, <1>2, <2>1, <2>2, <2>3, <2>4, <2>5, UseSettles
<1> QED
  BY <1>6, <1>7

\* Another order holds the coupon, and there is no third, or there is no
\* other order of the user.
LEMMA RivalsArePast ==
  ASSUME NEW o \in Orders, NEW c, Known(o, c), c \in Coupons, Company(o), UserOf[o] \in Users,
         \/ "coupon" \in Faults
         \/ userCoupons[UserOf[o]][c] \in Orders \ {o}
         \/ couponRows[UserOf[o]][c] \in Orders \ {o}
  PROVE  \A x \in Rivals(o) : Past(x)
<1>1. CASE "coupon" \in Faults
  BY <1>1 DEF Company, FewRivals
<1>2. ASSUME NEW y \in Orders \ {o},
             userCoupons[UserOf[o]][c] = y \/ couponRows[UserOf[o]][c] = y
      PROVE  \A x \in Rivals(o) : Past(x)
  <2>1. PICK d \in MaybeCoupon : CouponFlow(y, d)
    BY DEF Company
  <2>2. y \in Rivals(o) /\ Past(y)
    BY <1>2, <2>1, RivalIsPast
  <2>3. \A x \in Rivals(o) : x = y
    BY <2>2 DEF Company, FewRivals
  <2> QED
    BY <2>2, <2>3
<1> QED
  BY <1>1, <1>2

\* UseCouponFails and RecordCouponFails
LEMMA UseIsRefused ==
  ASSUME NEW o \in Orders, NEW c, Known(o, c), Company(o),
         UseCouponFails(o) \/ RecordCouponFails(o)
  PROVE  OwnCoupon(o, c)
<1> DEFINE g == UseGroup
           u == UserOf[o]
           hash == userCoupons[u][c]
           row == couponRows[u][c]
<1>1. "publish" \notin Faults
  BY DEF Company, OnlyRefusals
<1>2. /\ queue[g][o] # <<>> /\ CouponStep(g, o) /\ TypeOK /\ couponVars' = couponVars
      /\ UseCouponFails(o) => task[g][o].pc = "idle" /\ Received(g, o).coupon # NoCoupon
      /\ RecordCouponFails(o) => task[g][o].pc = "create"
      /\ Continue(g, o, "cancelCheck")
  BY <1>1, CouponGroupsAre
     DEF UseCouponFails, RecordCouponFails, At, CouponStep, UseGroup, Known, Given
<1>3. /\ Received(g, o).coupon = c /\ c \in Coupons /\ u \in Users /\ CouponMarks(o, c)
      /\ ~Untouched(o)
  BY <1>2, UseFinds
<1>4. /\ Used(o) <=> task[g][o].pc \in {"create", "publish"}
      /\ Recorded(o) <=> task[g][o].pc = "publish"
      /\ Cancelling(o) <=> task[g][o].pc \in {"cancelCheck", "cancel"}
  BY <1>2, <1>3, UseMarks
<1>5. row # o /\ (UseCouponFails(o) => hash # o)
  <2>1. ~Recorded(o) /\ (UseCouponFails(o) => ~Used(o) /\ ~Cancelling(o))
    BY <1>2, <1>4
  <2> QED
    BY <1>3, <2>1 DEF CouponMarks
<1>6. hash \in UserCoupon /\ row \in Orders \cup {NoOrder}
  <2>1. /\ userCoupons \in [Users -> [Coupons -> UserCoupon]]
        /\ couponRows \in [Users -> [Coupons -> Orders \cup {NoOrder}]]
    BY <1>2 DEF TypeOK
  <2> QED
    BY <1>3, <2>1
<1>7. \/ hash \in {"absent", "phantom"}
      \/ "coupon" \in Faults \/ hash \in Orders \ {o} \/ row \in Orders \ {o}
  <2>1. CASE UseCouponFails(o)
    <3>1. hash # "unused" \/ "coupon" \in Faults
      BY <1>3, <2>1 DEF UseCouponFails, UseGroup
    <3> QED
      BY <1>5, <1>6, <2>1, <3>1 DEF UserCoupon
  <2>2. CASE RecordCouponFails(o)
    <3>1. row # NoOrder \/ "coupon" \in Faults
      BY <1>1, <1>3, <2>2 DEF RecordCouponFails, UseGroup
    <3> QED
      BY <1>5, <1>6, <3>1
  <2> QED
    BY <2>1, <2>2
<1>8. hash \in {"absent", "phantom"} \/ \A x \in Rivals(o) : Past(x)
  BY <1>3, <1>7, RivalsArePast
<1>9. userCoupons'[u][c] = hash /\ couponRows'[u][c] = row
  BY <1>2
<1>10. Elsewhere(o, c)' /\ (Past(o)' => Touches(o))
  BY <1>2, MarksStand
<1> QED
  BY <1>2, <1>3, <1>5, <1>8, <1>9, <1>10, UseSettles

\* The cancelled use is reported.
LEMMA UseReports ==
  ASSUME NEW o \in Orders, NEW c, Known(o, c), CouponStep(UseGroup, o),
         task[UseGroup][o].pc # "idle", CouponProcessingFailed(o),
         Past(o)' => Touches(o), Elsewhere(o, c)',
         userCoupons'[UserOf[o]][c] # o, couponRows'[UserOf[o]][c] # o
  PROVE  OwnCoupon(o, c)
<1> DEFINE g == UseGroup
           m == [Msg(Received(g, o).coupon) EXCEPT !.by = "UseUserCouponByOrder"]
           topic == "order.processing.fail"
<1>1. /\ queue[g][o] # <<>> /\ attempts' = attempts /\ Return(g, o, Published(topic, o, m))
      /\ TypeOK /\ Given(o) /\ c \in MaybeCoupon
  BY DEF CouponStep, CouponProcessingFailed, UseGroup, Known, Given
<1>2. g \in Groups /\ Payment(o, c) /\ c # NoCoupon /\ queue[ReleaseGroup][o] = <<>>
  BY <1>1, UseFinds
<1>3. m \in Message /\ Carries(m, c) /\ m.by = "UseUserCouponByOrder"
  BY <1>1, <1>2, ReceivedCarries, MsgCarries
<1>4. /\ g \notin Subscribers(topic) /\ ReleaseGroup \notin Subscribers(topic)
      /\ SkipGroup \in Subscribers(topic) /\ ClearGroup \in Subscribers(topic)
      /\ ReleaseGroup \in Groups \ {g} /\ SkipGroup \in Groups \ {g} /\ ClearGroup \in Groups \ {g}
      /\ ClearGroup \in OrderFailGroups
  BY GroupsAre DEF Subscribers, UseGroup, ReleaseGroup, SkipGroup, ClearGroup, Groups,
                   OrderFailGroups, CouponFailGroups, ProductFailGroups
<1> HIDE DEF m, topic
<1>5. /\ TaskOf(g, o, Idle) /\ Shrinks(g, o) /\ queue'[g][o] = Tail(queue[g][o])
      /\ \A h \in Groups \ {g} : queue'[h][o] = IF h \in Subscribers(topic)
                                                THEN Append(queue[h][o], m) ELSE queue[h][o]
  BY <1>1, <1>2, <1>4, Answers
<1>6. queue'[g][o] = <<>>
  BY <1>1, <1>2, <1>5, UsesCoupon
<1>7. /\ ~Untouched(o)' /\ task'[g][o] = Idle
      /\ \A h \in CouponHandlers \ {g} : task'[h][o] = task[h][o]
      /\ RowCoupon(o, c)'
  BY <1>5, CouponStepLeaves
<1>8. Failing(o)'
  <2>1. queue'[ClearGroup][o] = Append(queue[ClearGroup][o], m)
    BY <1>4, <1>5
  <2>2. queue[ClearGroup][o] \in Seq(Message)
    BY <1>1, <1>4 DEF TypeOK
  <2>3. queue'[ClearGroup][o] # <<>>
    BY <1>3, <2>1, <2>2
  <2> QED
    BY <1>4, <2>3 DEF Failing
<1>9. queue'[ReleaseGroup][o] = <<>>
  BY <1>2, <1>4, <1>5
<1>10. Carried(o, c)'
  <2>1. \A h \in Groups \ {g} : Shrinks(h, o) \/ Grows(h, o, c)
    BY <1>3, <1>5, SentGrows
  <2> QED
    BY <1>5, <2>1, CarriedOn
<1>11. CouponPlaces(o)'
  <2>1. Idle.pc = "idle" /\ Len(<<>>) = 0
    BY DEF Idle
  <2>2. Messages(SkipGroup, o)' = Messages(SkipGroup, o) \cup {m}
    <3>1. queue'[SkipGroup][o] = Append(queue[SkipGroup][o], m) /\ SkipGroup \in Groups
      BY <1>4, <1>5
    <3> QED
      BY <1>1, <1>3, <3>1, MessagesSent
  <2>3. /\ task'[ReleaseGroup][o] = task[ReleaseGroup][o]
        /\ task'[SkipGroup][o] = task[SkipGroup][o]
    BY <1>7, CouponGroupsAre
  <2>4. CouponPlaces(o)
    BY DEF Known, CouponFlow
  <2> QED
    BY <1>3, <1>7, <1>9, <2>1, <2>2, <2>3, <2>4 DEF CouponPlaces
<1>12. ~Used(o)' /\ ~Recorded(o)' /\ ~Cancelling(o)' /\ Past(o)'
  BY <1>6, <1>7, <1>8, <1>9 DEF Used, Recorded, Cancelling, Past
<1>13. CouponMarks(o, c)'
  BY <1>12 DEF CouponMarks
<1> QED
  BY <1>2, <1>7, <1>10, <1>11, <1>12, <1>13 DEF OwnCoupon, CouponFlow, RowCoupon

\* CancelCheck and CancelUse
LEMMA UseIsCancelled ==
  ASSUME NEW o \in Orders, NEW c, Known(o, c), CancelCheck(o) \/ CancelUse(o)
  PROVE  OwnCoupon(o, c)
<1> DEFINE g == UseGroup
           u == UserOf[o]
           hash == userCoupons[u][c]
           row == couponRows[u][c]
<1>1. /\ queue[g][o] # <<>> /\ CouponStep(g, o) /\ TypeOK /\ couponRows' = couponRows
      /\ task[g][o].pc \in {"cancelCheck", "cancel"}
      /\ CancelUse(o) => task[g][o].pc = "cancel"
  BY CouponGroupsAre DEF CancelCheck, CancelUse, At, CouponStep, UseGroup, Known, Given
<1>2. /\ Received(g, o).coupon = c /\ c \in Coupons /\ u \in Users /\ CouponMarks(o, c)
      /\ ~Untouched(o)
  BY <1>1, UseFinds
<1>3. ~Used(o) /\ ~Recorded(o) /\ Cancelling(o)
  BY <1>1, <1>2, UseMarks
<1>4. /\ row # o
      /\ task[g][o].pc = "cancel" => hash \notin Orders \ {o}
      /\ hash \in {"absent", "phantom"} \/ \A x \in Rivals(o) : Past(x)
  BY <1>2, <1>3 DEF CouponMarks
<1>5. CASE CancelCheck(o)
  <2>1. Elsewhere(o, c)' /\ (Past(o)' => Touches(o)) /\ userCoupons' = userCoupons
    BY <1>5, MarksStand DEF CancelCheck
  <2>2. IF hash \in Orders \ {o} THEN CouponProcessingFailed(o) ELSE Continue(g, o, "cancel")
    BY <1>2, <1>5 DEF CancelCheck, UseGroup
  <2>3. userCoupons'[u][c] = hash /\ couponRows'[u][c] = row
    BY <1>1, <2>1
  <2>4. CASE hash \in Orders \ {o}
    BY <1>1, <1>4, <2>1, <2>2, <2>3, <2>4, UseReports
  <2>5. CASE hash \notin Orders \ {o}
    BY <1>1, <1>2, <1>4, <2>1, <2>2, <2>3, <2>5, UseSettles
  <2> QED
    BY <2>4, <2>5
<1>6. CASE CancelUse(o)
  <2>1. /\ userCoupons' = [userCoupons EXCEPT ![u][c] = Cancelled(hash)]
        /\ CouponProcessingFailed(o)
    BY <1>2, <1>6 DEF CancelUse, UseGroup
  <2>2. /\ userCoupons'[u][c] = Cancelled(hash)
        /\ \A w \in Users, k \in Coupons :
             w # u \/ k # c => userCoupons'[w][k] = userCoupons[w][k]
    <3> DEFINE v == Cancelled(hash)
    <3>1. userCoupons' = [userCoupons EXCEPT ![u][c] = v]
      BY <2>1
    <3>2. userCoupons \in [Users -> [Coupons -> UserCoupon]] /\ u \in Users /\ c \in Coupons
      BY <1>1, <1>2 DEF TypeOK
    <3> HIDE DEF u, v
    <3>3. userCoupons'[u][c] = v /\ \A w \in Users, k \in Coupons :
            w # u \/ k # c => userCoupons'[w][k] = userCoupons[w][k]
      BY <3>1, <3>2
    <3> QED
      BY <3>3 DEF v
  <2>3. Cancelled(hash) \notin Orders
    BY MarksAreNoOrders DEF Cancelled
  <2>4. Elsewhere(o, c)'
    <3>1. Elsewhere(o, c)
      BY DEF Known, CouponFlow
    <3> QED
      BY <1>1, <2>2, <3>1 DEF Elsewhere
  <2>5. Past(o)' => Touches(o)
    <3>1. hash \notin Orders \ {o}
      BY <1>1, <1>4, <1>6
    <3>2. \A w \in Users, k \in Coupons :
            \/ userCoupons'[w][k] = userCoupons[w][k]
            \/ /\ userCoupons[w][k] \notin Orders \ {o}
               /\ userCoupons'[w][k] = Cancelled(userCoupons[w][k])
      BY <2>2, <3>1
    <3> QED
      BY <1>1, <3>2 DEF Touches
  <2>6. couponRows'[u][c] # o /\ userCoupons'[u][c] # o
    BY <1>1, <1>4, <2>2, <2>3
  <2> QED
    BY <1>1, <2>1, <2>4, <2>5, <2>6, UseReports
<1> QED
  BY <1>5, <1>6

\* The use is reported.
LEMMA UseIsReported ==
  ASSUME NEW o \in Orders, NEW c, Known(o, c), CouponUsed(o)
  PROVE  OwnCoupon(o, c)
<1> DEFINE g == UseGroup
           u == UserOf[o]
           m == [Msg(Received(g, o).coupon) EXCEPT !.applied = Received(g, o).coupon]
           topic == "order.processing.coupon.success"
<1>1. /\ queue[g][o] # <<>> /\ CouponStep(g, o) /\ TypeOK /\ Given(o)
      /\ task[g][o].pc = "publish" /\ couponVars' = couponVars /\ attempts' = attempts
      /\ Return(g, o, Published(topic, o, m))
  BY CouponGroupsAre DEF CouponUsed, At, CouponStep, UseGroup, Known, Given
<1>2. /\ g \in Groups /\ Payment(o, c) /\ Received(g, o).coupon = c /\ c \in Coupons
      /\ u \in Users /\ ~Untouched(o) /\ ~Failing(o) /\ queue[ReleaseGroup][o] = <<>>
      /\ CouponMarks(o, c) /\ c \in MaybeCoupon
  BY <1>1, UseFinds DEF MaybeCoupon
<1>3. m \in Message /\ Carries(m, c)
  <2>1. \E a \in {NoCoupon, c} : m = [Msg(c) EXCEPT !.applied = a]
    BY <1>2
  <2> HIDE DEF m
  <2> QED
    BY <1>2, <2>1, MsgFields
<1>4. /\ g \notin Subscribers(topic) /\ topic \in QuietTopics
      /\ \A h \in CouponHandlers \cup OrderFailGroups : h \notin Subscribers(topic)
      /\ (CouponHandlers \cup OrderFailGroups) \ {g} \subseteq Groups \ {g}
      /\ ReleaseGroup \in CouponHandlers \ {g} /\ SkipGroup \in CouponHandlers \ {g}
  BY PlainTopics, CouponGroupsAre, StockGroupsAre DEF QuietTopics
<1> HIDE DEF m, topic
<1>5. /\ TaskOf(g, o, Idle) /\ Shrinks(g, o) /\ queue'[g][o] = Tail(queue[g][o])
      /\ \A h \in Groups \ {g} : queue'[h][o] = IF h \in Subscribers(topic)
                                                THEN Append(queue[h][o], m) ELSE queue[h][o]
  BY <1>1, <1>2, <1>4, Answers
<1>6. queue'[g][o] = <<>>
  BY <1>1, <1>2, <1>5, UsesCoupon
<1>7. \A h \in (CouponHandlers \cup OrderFailGroups) \ {g} : queue'[h][o] = queue[h][o]
  BY <1>4, <1>5
<1>8. /\ ~Untouched(o)' /\ task'[g][o] = Idle
      /\ \A h \in CouponHandlers \ {g} : task'[h][o] = task[h][o]
      /\ RowCoupon(o, c)' /\ ~Failing(o)'
  <2>1. \A h \in OrderFailGroups : queue'[h][o] = queue[h][o]
    BY <1>7, StockGroupsAre
  <2> QED
    BY <1>1, <1>2, <1>5, <2>1, CouponStepLeaves
<1>9. Carried(o, c)'
  <2>1. \A h \in Groups \ {g} : Shrinks(h, o) \/ Grows(h, o, c)
    BY <1>3, <1>5, SentGrows
  <2> QED
    BY <1>5, <2>1, CarriedOn
<1>10. CouponPlaces(o)'
  <2>1. Idle.pc = "idle"
    BY DEF Idle
  <2>2. queue'[ReleaseGroup][o] = <<>> /\ queue'[SkipGroup][o] = queue[SkipGroup][o]
    BY <1>2, <1>4, <1>7
  <2>3. Messages(SkipGroup, o)' = Messages(SkipGroup, o)
    BY <2>2 DEF Messages
  <2>4. CouponPlaces(o) /\ Len(<<>>) = 0
    BY DEF Known, CouponFlow
  <2> QED
    BY <1>4, <1>8, <2>1, <2>2, <2>3, <2>4 DEF CouponPlaces
<1>11. Used(o)' /\ Recorded(o)' /\ ~Cancelling(o)' /\ Past(o)'
  BY <1>2, <1>4, <1>6, <1>7, <1>8 DEF Used, Recorded, Cancelling, Past
<1>12. CouponMarks(o, c)'
  <2>1. Used(o) /\ Recorded(o)
    BY <1>1, <1>2, UseMarks
  <2>2. userCoupons[u][c] = o /\ couponRows[u][c] = o
    BY <1>2, <2>1 DEF CouponMarks
  <2> QED
    BY <1>1, <1>11, <2>2 DEF CouponMarks
<1>13. Elsewhere(o, c)' /\ Touches(o)
  BY <1>1, <1>11, MarksStand
<1> QED
  BY <1>2, <1>8, <1>9, <1>10, <1>12, <1>13, CouponAssumption DEF OwnCoupon, CouponFlow, RowCoupon

\* A coupon's handler that returns without a message
LEMMA CouponReturns ==
  ASSUME NEW o \in Orders, NEW c, Known(o, c), NEW g, CouponStep(g, o), Return(g, o, queue)
  PROVE  /\ Carried(o, c)' /\ CouponPlaces(o)' /\ RowCoupon(o, c)'
         /\ ~Untouched(o) /\ ~Untouched(o)' /\ (Failing(o)' <=> Failing(o))
         /\ queue'[g][o] = Tail(queue[g][o]) /\ task'[g][o] = Idle
         /\ \A h \in CouponHandlers \ {g} : queue'[h][o] = queue[h][o] /\ task'[h][o] = task[h][o]
<1>1. /\ queue[g][o] # <<>> /\ attempts' = attempts /\ g \in CouponHandlers /\ g \in Groups
      /\ Given(o) /\ TypeOK /\ TypeOK' /\ CouponPlaces(o)
  BY CouponGroupsAre DEF CouponStep, Known, Given, CouponFlow
<1>2. /\ TaskOf(g, o, Idle) /\ Took(g, o) /\ Shrinks(g, o)
      /\ \A h \in Groups \ {g} : queue'[h][o] = queue[h][o]
  BY <1>1, Returns
<1>3. \A h \in OrderFailGroups \cup (CouponHandlers \ {g}) : queue'[h][o] = queue[h][o]
  BY <1>1, <1>2, CouponGroupsAre, StockGroupsAre
<1>4. /\ ~Untouched(o) /\ ~Untouched(o)'
      /\ task'[g][o] = Idle /\ \A h \in CouponHandlers \ {g} : task'[h][o] = task[h][o]
      /\ RowCoupon(o, c)' /\ (Failing(o)' <=> Failing(o))
  BY <1>2, <1>3, CouponStepLeaves
<1>5. Carried(o, c)'
  <2>1. \A h \in Groups : Shrinks(h, o) \/ Grows(h, o, c)
    BY <1>2 DEF Shrinks
  <2> QED
    BY <2>1, CarriedOn
<1>6. \A h \in CouponHandlers : task'[h][o].pc \in {"idle", task[h][o].pc}
  <2>1. Idle.pc = "idle"
    BY DEF Idle
  <2> QED
    BY <1>4, <2>1
<1>7. Len(queue'[ReleaseGroup][o]) <= 1 /\ (queue'[ReleaseGroup][o] # <<>> => Failing(o)')
  <2>1. CASE g = ReleaseGroup
    <3>1. queue'[ReleaseGroup][o] = <<>>
      BY <1>1, <1>2, <2>1, TookOne DEF CouponPlaces, Took
    <3>2. Len(<<>>) = 0
      OBVIOUS
    <3> QED
      BY <3>1, <3>2
  <2>2. CASE g # ReleaseGroup
    BY <1>1, <1>3, <1>4, <2>2, CouponGroupsAre DEF CouponPlaces
  <2> QED
    BY <2>1, <2>2
<1>8. (\A m \in Messages(SkipGroup, o) : m.by = "UseUserCouponByOrder")'
  <2>1. Shrinks(SkipGroup, o) /\ SkipGroup \in Groups
    BY <1>2, CouponGroupsAre DEF Shrinks
  <2>2. Messages(SkipGroup, o)' \subseteq Messages(SkipGroup, o)
    BY <1>1, <2>1, ShrinksMessages
  <2> QED
    BY <1>1, <2>2 DEF CouponPlaces
<1>9. CouponPlaces(o)'
  <2>1. /\ task'[UseGroup][o].pc \in {"idle", task[UseGroup][o].pc}
        /\ task'[ReleaseGroup][o].pc \in {"idle", task[ReleaseGroup][o].pc}
        /\ task'[SkipGroup][o].pc \in {"idle", task[SkipGroup][o].pc}
    BY <1>6, CouponGroupsAre
  <2> QED
    BY <1>1, <1>7, <1>8, <2>1 DEF CouponPlaces
<1> QED
  BY <1>2, <1>3, <1>4, <1>5, <1>9 DEF Took

\* Without a coupon there are no marks.
LEMMA NoMarks ==
  ASSUME NEW o \in Orders, NEW c, Known(o, c), c = NoCoupon, NEW g, CouponStep(g, o),
         Return(g, o, queue), couponVars' = couponVars
  PROVE  OwnCoupon(o, c)
<1>1. /\ Carried(o, c)' /\ CouponPlaces(o)' /\ RowCoupon(o, c)' /\ ~Untouched(o)'
      /\ g # UseGroup => queue'[UseGroup][o] = queue[UseGroup][o]
                         /\ task'[UseGroup][o] = task[UseGroup][o]
  BY CouponReturns, CouponGroupsAre
<1>2. Past(o) => Past(o)'
  <2>1. CASE g # UseGroup
    BY <1>1, <2>1 DEF Past
  <2>2. CASE g = UseGroup
    <3>1. queue'[g][o] = Tail(queue[g][o]) /\ queue[g][o] # <<>>
      BY CouponReturns DEF CouponStep
    <3>2. Given(o) /\ \E d \in MaybeCoupon : Payment(o, d)
      BY CouponOfPayment DEF Known
    <3>3. queue'[UseGroup][o] = <<>>
      BY <2>2, <3>1, <3>2, UsesCoupon
    <3> QED
      BY <1>1, <3>3 DEF Past
  <2> QED
    BY <2>1, <2>2
<1>3. Touches(o)
  BY <1>2, QuietTouches
<1>4. Elsewhere(o, c)'
  BY MarksStand
<1>5. task'[ReleaseGroup][o].pc = "idle"
  <2>1. task[ReleaseGroup][o].pc = "idle" /\ Idle.pc = "idle"
    BY DEF Known, CouponFlow, Idle
  <2>2. task'[ReleaseGroup][o] \in {task[ReleaseGroup][o], Idle}
    BY CouponReturns, CouponGroupsAre
  <2> QED
    BY <2>1, <2>2
<1> QED
  BY <1>1, <1>3, <1>4, <1>5 DEF OwnCoupon, CouponFlow, RowCoupon

\* A payment without a coupon marks none.
LEMMA SkipCouponCoupon ==
  ASSUME NEW o \in Orders, NEW c, Known(o, c), SkipCoupon(o)
  PROVE  OwnCoupon(o, c)
<1>1. /\ queue[UseGroup][o] # <<>> /\ CouponStep(UseGroup, o) /\ Return(UseGroup, o, queue)
      /\ Received(UseGroup, o).coupon = NoCoupon /\ couponVars' = couponVars
  BY CouponGroupsAre DEF SkipCoupon, At, CouponStep, UseGroup
<1>2. c = NoCoupon
  BY <1>1, UseFinds
<1> QED
  BY <1>1, <1>2, NoMarks

\* The steps of the coupon's handler of order.processing
LEMMA UseCouponKeeps ==
  ASSUME NEW o \in Orders, NEW c, Known(o, c), Company(o), ProcessCoupon(o)
  PROVE  OwnCoupon(o, c)
  BY SkipCouponCoupon, UseSucceeds, UseIsRefused, UseIsReported, UseIsCancelled DEF ProcessCoupon

-----------------------------------------------------------------------------
(***************************************************************************)
(* The coupon is released.                                                 *)
(***************************************************************************)
\* What the handler of order.payment.fail finds
LEMMA ReleaseFinds ==
  ASSUME NEW o \in Orders, NEW c, Known(o, c), queue[ReleaseGroup][o] # <<>>, c # NoCoupon
  PROVE  /\ c \in Coupons /\ UserOf[o] \in Users /\ CouponMarks(o, c)
         /\ queue[UseGroup][o] = <<>> /\ Failing(o) /\ ~Untouched(o)
         /\ Used(o) <=> task[ReleaseGroup][o].pc # "delete"
         /\ Recorded(o) /\ ~Cancelling(o) /\ Past(o)
<1>1. ReleaseGroup \in Groups /\ UseGroup \in Groups
  BY CouponGroupsAre
<1>2. c \in Coupons /\ CouponMarks(o, c) /\ Failing(o)
  BY DEF Known, MaybeCoupon, CouponFlow, CouponPlaces
<1>3. ~Untouched(o)
  BY <1>1 DEF Known, Given, FirstPayment, Fresh
<1>4. queue[UseGroup][o] = <<>>
  <2> SUFFICES ASSUME queue[UseGroup][o] # <<>> PROVE FALSE
    OBVIOUS
  <2>1. ~Failing(o)
    BY UseFinds
  <2> QED
    BY <1>2, <2>1
<1> QED
  BY <1>2, <1>3, <1>4, SagaAssumption DEF Used, Recorded, Cancelling, Past

\* A step of that handler that leaves the marks as they have to be there
LEMMA ReleaseSettles ==
  ASSUME NEW o \in Orders, NEW c \in Coupons, Known(o, c), CouponStep(ReleaseGroup, o), c # NoCoupon,
         NEW p \in {"cancel", "delete"}, Continue(ReleaseGroup, o, p),
         Past(o)' => Touches(o), Elsewhere(o, c)',
         couponRows'[UserOf[o]][c] = o,
         userCoupons'[UserOf[o]][c] = o <=> p = "cancel"
  PROVE  OwnCoupon(o, c)
<1> DEFINE g == ReleaseGroup
           t == [task[g][o] EXCEPT !.pc = p]
<1>1. Goto(g, o, t) /\ queue' = queue /\ queue[g][o] # <<>> /\ attempts' = attempts
  BY DEF Continue, CouponStep
<1>2. TypeOK /\ g \in Workers /\ g \in Groups
  BY CouponGroupsAre DEF Known, Given
<1>3. t.pc = p
  BY <1>2 DEF TypeOK, Task
<1> HIDE DEF t
<1>4. TaskOf(g, o, t)
  BY <1>1, <1>2, GotoTask
<1>5. /\ ~Untouched(o)' /\ task'[g][o].pc = p
      /\ \A h \in CouponHandlers \ {g} : task'[h][o] = task[h][o]
      /\ RowCoupon(o, c)' /\ (Failing(o)' <=> Failing(o))
  BY <1>1, <1>3, <1>4, CouponStepLeaves
<1>6. Carried(o, c)'
  <2>1. \A h \in Groups : Shrinks(h, o) \/ Grows(h, o, c)
    BY <1>1 DEF Shrinks
  <2> QED
    BY <2>1, CarriedOn
<1>7. CouponPlaces(o)'
  <2>1. task'[UseGroup][o] = task[UseGroup][o] /\ task'[SkipGroup][o] = task[SkipGroup][o]
    BY <1>5, CouponGroupsAre
  <2>2. Messages(SkipGroup, o)' = Messages(SkipGroup, o)
    BY <1>1 DEF Messages
  <2> QED
    BY <1>1, <1>5, <2>1, <2>2 DEF Known, CouponFlow, CouponPlaces
<1>8. queue[UseGroup][o] = <<>>
  BY <1>1, ReleaseFinds
<1>9. /\ Used(o)' <=> p = "cancel"
      /\ Recorded(o)' /\ ~Cancelling(o)' /\ Past(o)'
  BY <1>1, <1>5, <1>8 DEF Used, Recorded, Cancelling, Past
<1>10. CouponMarks(o, c)'
  BY <1>9 DEF CouponMarks
<1> QED
  BY <1>5, <1>6, <1>7, <1>9, <1>10 DEF OwnCoupon, CouponFlow, RowCoupon

\* ReleaseCheck and ReleaseUse
LEMMA ReleaseIsCancelled ==
  ASSUME NEW o \in Orders, NEW c, Known(o, c),
         ReleaseCheck(ReleaseGroup, o) \/ ReleaseUse(ReleaseGroup, o)
  PROVE  OwnCoupon(o, c)
<1> DEFINE g == ReleaseGroup
           u == UserOf[o]
           hash == userCoupons[u][c]
           row == couponRows[u][c]
<1>1. /\ queue[g][o] # <<>> /\ CouponStep(g, o) /\ TypeOK /\ couponRows' = couponRows
      /\ ReleaseCheck(g, o) => task[g][o].pc = "idle" /\ Received(g, o).coupon # NoCoupon
      /\ ReleaseUse(g, o) => task[g][o].pc = "cancel"
  BY CouponGroupsAre
     DEF ReleaseCheck, ReleaseUse, At, CouponStep, NothingToRelease, Known, Given
<1>2. g \in Groups /\ Received(g, o).coupon = c
  BY <1>1, CouponGroupsAre, PaymentIsOf DEF Carries
<1>3. c # NoCoupon
  BY <1>1, <1>2 DEF Known, CouponFlow
<1>4. c \in Coupons /\ u \in Users /\ hash = o /\ row = o
  <2>1. CouponMarks(o, c) /\ Used(o) /\ Recorded(o) /\ c \in Coupons /\ u \in Users
    BY <1>1, <1>3, ReleaseFinds
  <2> QED
    BY <2>1 DEF CouponMarks
<1>5. couponRows'[u][c] = o
  BY <1>1, <1>4
<1>6. CASE ReleaseCheck(g, o)
  <2>1. Continue(g, o, "cancel") /\ userCoupons' = userCoupons
    BY <1>2, <1>4, <1>6 DEF ReleaseCheck
  <2>2. Elsewhere(o, c)' /\ (Past(o)' => Touches(o))
    BY <1>1, <2>1, MarksStand
  <2>3. userCoupons'[u][c] = o
    BY <1>4, <2>1
  <2> QED
    BY <1>1, <1>3, <1>4, <1>5, <2>1, <2>2, <2>3, ReleaseSettles
<1>7. CASE ReleaseUse(g, o)
  <2>1. userCoupons' = [userCoupons EXCEPT ![u][c] = Cancelled(hash)] /\ Continue(g, o, "delete")
    BY <1>2, <1>7 DEF ReleaseUse
  <2>2. /\ userCoupons'[u][c] = Cancelled(hash)
        /\ \A w \in Users, k \in Coupons :
             w # u \/ k # c => userCoupons'[w][k] = userCoupons[w][k]
    <3> DEFINE v == Cancelled(hash)
    <3>1. userCoupons' = [userCoupons EXCEPT ![u][c] = v]
      BY <2>1
    <3>2. userCoupons \in [Users -> [Coupons -> UserCoupon]] /\ u \in Users /\ c \in Coupons
      BY <1>1, <1>4 DEF TypeOK
    <3> HIDE DEF u, v
    <3>3. userCoupons'[u][c] = v /\ \A w \in Users, k \in Coupons :
            w # u \/ k # c => userCoupons'[w][k] = userCoupons[w][k]
      BY <3>1, <3>2
    <3> QED
      BY <3>3 DEF v
  <2>3. Cancelled(hash) \notin Orders
    BY MarksAreNoOrders DEF Cancelled
  <2>4. Elsewhere(o, c)'
    <3>1. Elsewhere(o, c)
      BY DEF Known, CouponFlow
    <3> QED
      BY <1>1, <2>2, <3>1 DEF Elsewhere
  <2>5. Past(o)' => Touches(o)
    <3>1. \A w \in Users, k \in Coupons :
            \/ userCoupons'[w][k] = userCoupons[w][k]
            \/ /\ userCoupons[w][k] \notin Orders \ {o}
               /\ userCoupons'[w][k] = Cancelled(userCoupons[w][k])
      BY <1>4, <2>2
    <3> QED
      BY <1>1, <3>1 DEF Touches
  <2>6. userCoupons'[u][c] # o
    BY <2>2, <2>3
  <2> QED
    BY <1>1, <1>3, <1>4, <1>5, <2>1, <2>4, <2>5, <2>6, ReleaseSettles
<1> QED
  BY <1>6, <1>7

\* The row is deleted, and the release is over.
LEMMA ReleaseIsDone ==
  ASSUME NEW o \in Orders, NEW c, Known(o, c), DeleteUserCoupon(ReleaseGroup, o)
  PROVE  OwnCoupon(o, c)
<1> DEFINE g == ReleaseGroup
           u == UserOf[o]
<1>1. /\ queue[g][o] # <<>> /\ CouponStep(g, o) /\ TypeOK /\ TypeOK' /\ userCoupons' = userCoupons
      /\ task[g][o].pc = "delete" /\ Return(g, o, queue)
      /\ couponRows' = [w \in Users |-> [k \in Coupons |->
                          IF couponRows[w][k] = o THEN NoOrder ELSE couponRows[w][k]]]
  BY CouponGroupsAre DEF DeleteUserCoupon, At, CouponStep, Known, Given
<1>2. c # NoCoupon
  BY <1>1 DEF Known, CouponFlow
<1>3. /\ c \in Coupons /\ u \in Users /\ CouponMarks(o, c) /\ queue[UseGroup][o] = <<>>
      /\ Failing(o) /\ ~Used(o) /\ ~Cancelling(o)
  BY <1>1, <1>2, ReleaseFinds
<1>4. \A w \in Users, k \in Coupons :
        couponRows'[w][k] = IF couponRows[w][k] = o THEN NoOrder ELSE couponRows[w][k]
  BY <1>1
<1>5. /\ Carried(o, c)' /\ CouponPlaces(o)' /\ RowCoupon(o, c)'
      /\ ~Untouched(o)' /\ Failing(o)'
      /\ queue'[g][o] = Tail(queue[g][o]) /\ queue'[UseGroup][o] = <<>>
  BY <1>1, <1>3, CouponReturns, CouponGroupsAre
<1>6. queue'[g][o] = <<>>
  <2>1. g \in Groups /\ Len(queue[g][o]) <= 1
    BY CouponGroupsAre DEF Known, CouponFlow, CouponPlaces
  <2> QED
    BY <1>1, <1>5, <2>1, TookOne
<1>7. ~Used(o)' /\ ~Recorded(o)' /\ ~Cancelling(o)' /\ Past(o)'
  BY <1>5, <1>6 DEF Used, Recorded, Cancelling, Past
<1>8. CouponMarks(o, c)'
  <2>1. userCoupons[u][c] # o
    BY <1>3 DEF CouponMarks
  <2>2. couponRows'[u][c] # o
    BY <1>3, <1>4, MarksAreNoOrders
  <2> QED
    BY <1>1, <1>7, <2>1, <2>2 DEF CouponMarks
<1>9. Elsewhere(o, c)'
  <2> SUFFICES ASSUME NEW w \in Users, NEW k \in Coupons, w # u \/ k # c
               PROVE  userCoupons'[w][k] # o /\ couponRows'[w][k] # o
    BY DEF Elsewhere
  <2>1. userCoupons[w][k] # o
    BY DEF Known, CouponFlow, Elsewhere
  <2> QED
    BY <1>1, <1>4, <2>1, MarksAreNoOrders
<1>10. Touches(o)
  <2>1. \A w \in Users, k \in Coupons :
          \/ couponRows'[w][k] = couponRows[w][k]
          \/ {couponRows[w][k], couponRows'[w][k]} \subseteq {o, NoOrder}
    BY <1>4
  <2> QED
    BY <1>1, <1>7, <2>1 DEF Touches
<1> QED
  BY <1>2, <1>5, <1>8, <1>9, <1>10 DEF OwnCoupon, CouponFlow, RowCoupon

\* The handler of order.processing.fail has nothing to release.
LEMMA ReleaseIsSkipped ==
  ASSUME NEW o \in Orders, NEW c, Known(o, c), NEW g \in CouponFailGroups, SkipRelease(g, o)
  PROVE  OwnCoupon(o, c)
<1>1. /\ queue[g][o] # <<>> /\ g \in CouponHandlers /\ CouponStep(g, o)
      /\ Return(g, o, queue) /\ NothingToRelease(g, o) /\ couponVars' = couponVars
  BY CouponGroupsAre DEF SkipRelease, At, CouponStep
<1>2. Received(g, o).coupon = c
  BY <1>1, CouponGroupsAre, PaymentIsOf DEF Carries
<1>3. CASE c = NoCoupon
  BY <1>1, <1>3, NoMarks
<1>4. CASE c # NoCoupon
  <2>1. g # ReleaseGroup /\ g # UseGroup
    BY <1>1, <1>2, <1>4, CouponGroupsAre DEF NothingToRelease, ReleaseGroup
  <2>2. /\ Carried(o, c)' /\ CouponPlaces(o)' /\ RowCoupon(o, c)'
        /\ ~Untouched(o) /\ ~Untouched(o)' /\ (Failing(o)' <=> Failing(o))
        /\ \A h \in {UseGroup, ReleaseGroup} :
             queue'[h][o] = queue[h][o] /\ task'[h][o] = task[h][o]
    BY <1>1, <2>1, CouponReturns, CouponGroupsAre
  <2>3. /\ Used(o)' <=> Used(o)
        /\ Recorded(o)' <=> Recorded(o)
        /\ Cancelling(o)' <=> Cancelling(o)
        /\ Past(o)' <=> Past(o)
        /\ task'[UseGroup][o].pc = task[UseGroup][o].pc
    BY <2>2 DEF Used, Recorded, Cancelling, Past
  <2>4. CouponMarks(o, c)'
    <3>1. CouponMarks(o, c) /\ \A x \in Rivals(o) : Past(x)' <=> Past(x)
      BY <1>4 DEF Known, CouponFlow
    <3>2. userCoupons' = userCoupons /\ couponRows' = couponRows
      BY <1>1
    <3> QED
      BY <2>3, <3>1, <3>2 DEF CouponMarks, Rivals
  <2>5. Elsewhere(o, c)' /\ Touches(o)
    <3>1. Elsewhere(o, c)'
      BY <1>1, MarksStand
    <3>2. Touches(o)
      BY <1>1, <2>3, QuietTouches
    <3> QED
      BY <3>1, <3>2
  <2> QED
    BY <1>4, <2>2, <2>4, <2>5 DEF OwnCoupon, CouponFlow, RowCoupon
<1> QED
  BY <1>3, <1>4

\* The release after a failed payment keeps the coupon's flow.
LEMMA ReleaseKeeps ==
  ASSUME NEW o \in Orders, NEW c, Known(o, c), NEW g \in CouponFailGroups,
         SkipRelease(g, o) \/ ReleaseCheck(g, o) \/ ReleaseUse(g, o) \/ DeleteUserCoupon(g, o)
  PROVE  OwnCoupon(o, c)
<1>1. CASE g = ReleaseGroup
  BY <1>1, ReleaseIsSkipped, ReleaseIsCancelled, ReleaseIsDone
<1>2. CASE g = SkipGroup
  <2>1. CASE SkipRelease(g, o)
    BY <2>1, ReleaseIsSkipped
  <2>2. ~ReleaseUse(g, o) /\ ~DeleteUserCoupon(g, o)
    BY <1>2 DEF ReleaseUse, DeleteUserCoupon, At, Known, CouponFlow, CouponPlaces
  <2>3. ~ReleaseCheck(g, o)
    <3> SUFFICES ASSUME queue[g][o] # <<>> PROVE NothingToRelease(g, o)
      BY DEF ReleaseCheck, At
    <3>1. Received(g, o) \in Messages(g, o)
      BY <1>2, CouponGroupsAre, PaymentIsOf
    <3> QED
      BY <1>2, <3>1 DEF NothingToRelease, SkipGroup, Known, CouponFlow, CouponPlaces
  <2> QED
    BY <2>1, <2>2, <2>3
<1> QED
  BY <1>1, <1>2, CouponGroupsAre

\* The payment fails: the coupon is to be released.
LEMMA PaymentFailedCoupon ==
  ASSUME FailuresAreReported, NEW o \in Orders, NEW c, Known(o, c), PaymentFailed(o)
  PROVE  OwnCoupon(o, c)
<1> DEFINE g == DeductGroup
           u == UserOf[o]
           m == Msg(Received(g, o).coupon)
           topic == "order.payment.fail"
<1>1. /\ queue[g][o] # <<>> /\ task[g][o].pc = "idle"
      /\ attempts' = attempts /\ orders' = orders /\ couponVars' = couponVars
      /\ Return(g, o, Published(topic, o, m)) /\ TypeOK /\ Given(o)
  BY DEF PaymentFailed, At, FailuresAreReported, DeductGroup, Known, Given
<1>2. /\ g \in Groups \ CouponHandlers /\ g \notin Subscribers(topic)
      /\ CouponHandlers \subseteq Groups \ {g}
      /\ UseGroup \notin Subscribers(topic) /\ SkipGroup \notin Subscribers(topic)
      /\ ReleaseGroup \in Subscribers(topic)
      /\ \E h \in OrderFailGroups : h \in Subscribers(topic) /\ h \in Groups \ {g}
  BY PlainGroupsAre, CouponGroupsAre, StockGroupsAre, FailureTopicsAre
     DEF Subscribers, UseGroup, DeductGroup, ReleaseGroup, SkipGroup, FailureTopics
<1>3. Payment(o, c) /\ c \in MaybeCoupon /\ m \in Message /\ Carries(m, c)
  <2>1. Payment(o, c) /\ Received(g, o).coupon = c /\ c \in MaybeCoupon
    BY <1>1, <1>2, PaymentIsOf DEF Carries, Known
  <2> QED
    BY <2>1, MsgFields
<1> HIDE DEF m, topic
<1>4. /\ Consumes(g, o) /\ TaskOf(g, o, Idle) /\ Shrinks(g, o)
      /\ \A h \in Groups \ {g} : queue'[h][o] = IF h \in Subscribers(topic)
                                                THEN Append(queue[h][o], m) ELSE queue[h][o]
  BY <1>1, <1>2, Answers
<1>5. ~Untouched(o) /\ ~Untouched(o)'
  BY <1>1, <1>4, Works
<1>6. ~Failing(o)
  <2> SUFFICES ASSUME Failing(o) PROVE FALSE
    OBVIOUS
  <2>1. Dead(o, c)
    <3>1. CASE \E h \in OrderFailGroups : queue[h][o] # <<>>
      BY <1>1, <1>3, <3>1, FailedIsDead
    <3>2. CASE ~Untouched(o) /\ orders[o].status = "PENDING"
      BY <1>3, <3>2 DEF Untouched, Payment, Statuses
    <3> QED
      BY <3>1, <3>2 DEF Failing
  <2> QED
    BY <1>1, <1>3, <2>1, DeadIsOut
<1>7. c # NoCoupon => queue[UseGroup][o] = <<>>
  <2>1. ~CouponOut(o)
    BY <1>1, DeductWorks
  <2> QED
    BY <1>3, <2>1 DEF Payment, CouponHalf
<1>8. CouponPlaces(o) /\ queue[ReleaseGroup][o] = <<>> /\ task[ReleaseGroup][o].pc = "idle"
  <2>1. CouponPlaces(o) /\ queue[ReleaseGroup][o] = <<>>
    BY <1>6 DEF Known, CouponFlow, CouponPlaces
  <2> QED
    BY <2>1, CouponGroupsAre DEF Known, Given, FirstPayment, Busy
<1>9. /\ \A h \in CouponHandlers : task'[h][o] = task[h][o]
      /\ queue'[UseGroup][o] = queue[UseGroup][o] /\ queue'[SkipGroup][o] = queue[SkipGroup][o]
      /\ queue'[ReleaseGroup][o] = Append(<<>>, m)
  BY <1>2, <1>4, <1>8, CouponGroupsAre DEF TaskOf
<1>10. queue'[ReleaseGroup][o] # <<>> /\ Len(queue'[ReleaseGroup][o]) = 1
  BY <1>3, <1>9, AppendOne
<1>11. Failing(o)'
  <2>1. PICK h \in OrderFailGroups : h \in Subscribers(topic) /\ h \in Groups \ {g}
    BY <1>2
  <2>2. queue'[h][o] = Append(queue[h][o], m) /\ queue[h][o] = <<>>
    BY <1>4, <1>6, <2>1 DEF Failing
  <2>3. queue'[h][o] # <<>>
    BY <1>3, <2>2, AppendOne
  <2> QED
    BY <2>3 DEF Failing
<1>12. Carried(o, c)' /\ RowCoupon(o, c)'
  <2>1. \A h \in Groups \ {g} : Shrinks(h, o) \/ Grows(h, o, c)
    BY <1>3, <1>4, SentGrows
  <2>2. Carried(o, c)'
    BY <1>4, <2>1, CarriedOn
  <2> QED
    BY <1>1, <2>2, RowStays
<1>13. CouponPlaces(o)'
  <2>1. Messages(SkipGroup, o)' = Messages(SkipGroup, o)
    BY <1>9 DEF Messages
  <2>2. /\ task'[UseGroup][o] = task[UseGroup][o] /\ task'[SkipGroup][o] = task[SkipGroup][o]
        /\ task'[ReleaseGroup][o] = task[ReleaseGroup][o]
    BY <1>9, CouponGroupsAre
  <2> QED
    BY <1>8, <1>10, <1>11, <2>1, <2>2 DEF CouponPlaces
<1>14. task'[ReleaseGroup][o].pc = "idle" /\ task'[UseGroup][o] = task[UseGroup][o]
  BY <1>8, <1>9, CouponGroupsAre
<1>15. c # NoCoupon => CouponMarks(o, c)'
  <2> SUFFICES ASSUME c # NoCoupon PROVE CouponMarks(o, c)'
    OBVIOUS
  <2>1. queue[UseGroup][o] = <<>> /\ queue'[UseGroup][o] = <<>>
    BY <1>7, <1>9
  <2>2. Used(o) /\ Recorded(o)
    BY <1>5, <1>6, <1>8, <2>1 DEF Used, Recorded
  <2>3. Used(o)' /\ Recorded(o)' /\ ~Cancelling(o)'
    BY <1>5, <1>10, <1>14, <2>1 DEF Used, Recorded, Cancelling
  <2>4. CouponMarks(o, c)
    BY DEF Known, CouponFlow
  <2>5. userCoupons[u][c] = o /\ couponRows[u][c] = o
    BY <2>2, <2>4 DEF CouponMarks
  <2> QED
    BY <1>1, <2>3, <2>5 DEF CouponMarks
<1>16. Past(o) => Past(o)'
  BY <1>5, <1>9, <1>14 DEF Past
<1>17. Elsewhere(o, c)' /\ Touches(o)
  BY <1>1, <1>16, MarksStand, QuietTouches
<1> QED
  BY <1>12, <1>13, <1>14, <1>15, <1>17 DEF OwnCoupon, CouponFlow, RowCoupon

-----------------------------------------------------------------------------
\* The stock is never short of what was reserved, and is not refused.
LEMMA StockIsThere ==
  ASSUME OnlyRefusals, NEW o \in Orders, Given(o), \A x \in Orders : StockFlow(x), StockAccount
  PROVE  ~ConfirmStockFails(o)
<1> SUFFICES ASSUME ConfirmStockFails(o) PROVE FALSE
  OBVIOUS
<1> DEFINE g == ConfirmGroup
           item == CurrentItem(g, o)
<1>1. "stock" \notin Faults /\ "publish" \notin Faults
  BY DEF OnlyRefusals
<1>2. /\ queue[g][o] # <<>> /\ ItemsLeft(g, o)
      /\ ~ValidStock(DecreaseStock(options[item.option], item.quantity))
  BY <1>1 DEF ConfirmStockFails, At, ConfirmGroup
<1>3. ~Untouched(o)
  <2>1. g \in Groups
    BY StockGroupsAre DEF StockHandlers
  <2> QED
    BY <1>2, <2>1 DEF Given, FirstPayment, Fresh
<1> QED
  BY <1>2, <1>3, NeverShort DEF Given

\* What a step of o does to its coupon
LEMMA CouponOwnStep ==
  ASSUME NEW o \in Orders, NEW c, Known(o, c), Company(o), Step(o),
         \A x \in Orders : StockFlow(x), StockAccount
  PROVE  \E d \in MaybeCoupon : OwnCoupon(o, d)
<1>1. FailuresAreReported /\ OnlyRefusals /\ c \in MaybeCoupon /\ Given(o)
  BY DEF FailuresAreReported, Company, OnlyRefusals, Known
<1>2. CASE Request(o)
  <2>1. ~RequestFails(o)
    BY <1>1 DEF RequestFails, OnlyRefusals
  <2> QED
    BY <1>1, <1>2, <2>1, RequestCoupon, PublishCoupon DEF Request
<1>3. CASE Aggregate(o)
  BY <1>1, <1>3, AggregateCoupon
<1>4. CASE ProcessStock(o)
  BY <1>1, <1>4, StockIsThere, StockCoupon DEF ProcessStock
<1>5. CASE ProcessCoupon(o)
  BY <1>1, <1>5, UseCouponKeeps
<1>6. CASE ProcessOrder(o)
  BY <1>1, <1>6, OrderCoupon
<1>7. CASE ProcessPayment(o)
  BY <1>1, <1>7, PaidCoupon, PaymentFailedCoupon DEF ProcessPayment
<1>8. CASE Compensate(o)
  <2>1. ASSUME NEW g \in OrderFailGroups,
               ReadForCancel(g, o) \/ WriteCancel(g, o) \/ CancelFails(g, o)
        PROVE  OwnCoupon(o, c)
    <3>1. ~CancelFails(g, o)
      BY <1>1 DEF CancelFails, OnlyRefusals
    <3> QED
      BY <2>1, <3>1, CancelCoupon
  <2>2. ASSUME NEW g \in ProductFailGroups, RestoreItem(g, o) \/ StockRestored(g, o)
        PROVE  OwnCoupon(o, c)
    BY <2>2, StockCoupon
  <2>3. ASSUME NEW g \in CouponFailGroups, \/ SkipRelease(g, o) \/ ReleaseCheck(g, o)
                                           \/ ReleaseUse(g, o) \/ DeleteUserCoupon(g, o)
        PROVE  OwnCoupon(o, c)
    BY <2>3, ReleaseKeeps
  <2> QED
    BY <1>1, <1>8, <2>1, <2>2, <2>3 DEF Compensate
<1>9. CASE Finish(o)
  BY <1>1, <1>9, PaidCoupon
<1>10. \A g \in Groups : ~Swallow(g, o)
  BY <1>1 DEF Swallow, OnlyRefusals
<1>11. \A g \in Groups : ~Crash(g, o)
  <2>1. redeliveries = 0 /\ redeliveries' = 0
    BY <1>1 DEF Given, First
  <2> QED
    BY <2>1 DEF Crash
<1>12. CASE Expire(o)
  BY <1>1, <1>12, ExpireCoupon
<1> QED
  BY <1>2, <1>3, <1>4, <1>5, <1>6, <1>7, <1>8, <1>9, <1>10, <1>11, <1>12 DEF Step

\* A step that changes nothing of the orders keeps every coupon's flow.
LEMMA NothingMoves ==
  ASSUME NEW x \in Orders, NEW c, CouponFlow(x, c), couponVars' = couponVars,
         \A y \in Orders : SameFlow(y) /\ SameRows(y) /\ SameCoupon(y) /\ (Past(y)' <=> Past(y))
  PROVE  CouponFlow(x, c)'
<1>1. Carried(x, c)'
  <2>1. \A g \in Groups : Messages(g, x)' = Messages(g, x)
    BY DEF SameFlow, Messages
  <2> QED
    BY <2>1 DEF CouponFlow, Carried
<1>2. CouponPlaces(x)' /\ task'[ReleaseGroup][x] = task[ReleaseGroup][x]
  BY PlacesKept, CouponGroupsAre DEF CouponFlow, SameCoupon
<1>3. Elsewhere(x, c)'
  BY DEF CouponFlow, Elsewhere
<1>4. c # NoCoupon => CouponMarks(x, c)'
  <2> SUFFICES ASSUME CouponMarks(x, c) PROVE CouponMarks(x, c)'
    BY DEF CouponFlow
  <2>1. /\ Used(x)' <=> Used(x)
        /\ Recorded(x)' <=> Recorded(x)
        /\ Cancelling(x)' <=> Cancelling(x)
        /\ task'[UseGroup][x].pc = task[UseGroup][x].pc
    BY SameMarks
  <2>2. \A y \in Rivals(x) : Past(y)' <=> Past(y)
    BY DEF Rivals
  <2>3. userCoupons' = userCoupons /\ couponRows' = couponRows
    OBVIOUS
  <2> QED
    BY <2>1, <2>2, <2>3 DEF CouponMarks, Rivals
<1>5. orders'[x] = orders[x]
  BY DEF SameRows
<1> QED
  BY <1>1, <1>2, <1>3, <1>4, <1>5 DEF CouponFlow

\* A step keeps every order's coupon.
LEMMA CouponInvStep ==
  ASSUME OnlyRefusals, FewRivals, Ground, Ground', IInv, StockInv, CouponInv, [Next]_vars
  PROVE  CouponInv'
<1> SUFFICES ASSUME FirstPayments', NEW x \in Orders
             PROVE  \E c \in MaybeCoupon : CouponFlow(x, c)'
  BY DEF CouponInv
<1>1. TypeOK /\ TypeOK' /\ TokensBounded /\ TokensBounded'
  BY DEF Ground
<1>2. CASE UNCHANGED vars
  <2>1. FirstPayments /\ couponVars' = couponVars
    BY <1>2 DEF vars, FirstPayments
  <2>2. PICK c \in MaybeCoupon : CouponFlow(x, c)
    BY <2>1 DEF CouponInv
  <2>3. \A y \in Orders : SameFlow(y) /\ SameRows(y)
    BY <1>2 DEF vars, SameFlow, SameRows
  <2>4. \A y \in Orders : SameCoupon(y) /\ (Past(y)' <=> Past(y))
    BY <2>3, OthersAreSame, SameMarks
  <2> QED
    BY <1>1, <2>1, <2>2, <2>3, <2>4, NothingMoves
<1>3. CASE Next
  <2>1. PICK o \in Orders : Step(o)
    BY <1>3 DEF Next, Step
  <2>2. FirstPayments
    BY <1>1, <2>1, FirstPaymentsBefore
  <2>3. (\A y \in Orders : StockFlow(y)) /\ StockAccount
    BY <2>2 DEF StockInv
  <2>4. Given(o)
    <3>1. First(o) /\ First(o)' /\ FirstPayment(o)
      BY <2>2 DEF FirstPayments, First, IInv
    <3>2. NoTokenMade(o)
      BY <1>1, TokensStep DEF TokensBounded
    <3>3. logs[o] = <<>> => Unpaid(o)
      BY DEF Ground, UndeductedIsUnpaid
    <3> QED
      BY <1>1, <3>1, <3>2, <3>3 DEF Given
  <2>5. \A y \in Orders \ {o} : SameFlow(y) /\ SameRows(y)
    BY <1>1, <2>1, StepLeaves DEF Leaves
  <2>6. \A y \in Orders \ {o} : SameCoupon(y) /\ (Past(y)' <=> Past(y))
    BY <2>5, OthersAreSame, SameMarks
  <2>7. Company(o)
    BY <2>2 DEF Company, CouponInv
  <2>8. PICK c \in MaybeCoupon : CouponFlow(o, c)
    BY <2>2 DEF CouponInv
  <2>9. Known(o, c)
    BY <2>3, <2>4, <2>6, <2>8 DEF Known, Rivals
  <2>10. PICK d \in MaybeCoupon : OwnCoupon(o, d)
    BY <2>1, <2>3, <2>7, <2>9, CouponOwnStep
  <2>11. CASE x = o
    BY <2>10, <2>11 DEF OwnCoupon
  <2>12. CASE x # o
    <3>1. PICK e \in MaybeCoupon : CouponFlow(x, e)
      BY <2>2 DEF CouponInv
    <3>2. \A y \in Rivals(x) : Past(y) => Past(y)'
      BY <2>6, <2>10 DEF Rivals, OwnCoupon, Touches
    <3>3. Touches(o)
      BY <2>10 DEF OwnCoupon
    <3>4. CouponFlow(x, e)'
      BY <1>1, <2>5, <2>6, <2>12, <3>1, <3>2, <3>3, OthersCoupon
    <3> QED
      BY <3>4
  <2> QED
    BY <2>11, <2>12
<1> QED
  BY <1>2, <1>3

\* No coupon is marked at first.
LEMMA CouponInvInit ==
  ASSUME Init
  PROVE  CouponInv
<1> SUFFICES ASSUME NEW o \in Orders
             PROVE  CouponFlow(o, NoCoupon)
  BY DEF CouponInv, MaybeCoupon
<1>1. \A g \in Groups : queue[g][o] = <<>>
  BY DEF Init
<1>2. \A g \in CouponHandlers : queue[g][o] = <<>> /\ task[g][o].pc = "idle"
  <2>1. \A w \in Workers : task[w][o] = Idle
    BY DEF Init
  <2> QED
    BY <1>1, <2>1, CouponGroupsAre DEF Idle
<1>3. Carried(o, NoCoupon)
  BY <1>1 DEF Carried, Messages
<1>4. CouponPlaces(o)
  <2>1. Messages(SkipGroup, o) = {} /\ Len(<<>>) = 0
    BY <1>2, CouponGroupsAre DEF Messages
  <2> QED
    BY <1>2, <2>1, CouponGroupsAre DEF CouponPlaces
<1>5. Elsewhere(o, NoCoupon)
  <2> SUFFICES ASSUME NEW u \in Users, NEW k \in Coupons
               PROVE  userCoupons[u][k] # o /\ couponRows[u][k] # o
    BY DEF Elsewhere
  <2>1. userCoupons[u][k] \in {"absent", "unused"} /\ couponRows[u][k] = NoOrder
    BY SagaAssumption DEF Init
  <2> QED
    BY <2>1, MarksAreNoOrders
<1>6. orders[o].status = "PENDING"
  BY DEF Init, PendingRow
<1> QED
  BY <1>2, <1>3, <1>4, <1>5, <1>6, CouponGroupsAre DEF CouponFlow

\* What a quiet order has done to the coupons
LEMMA CouponComesOut ==
  ASSUME Ground, IInv, CouponInv
  PROVE  CouponSettled
<1> SUFFICES ASSUME NEW o \in Orders, FirstPayments, Quiet(o)
             PROVE  /\ orders[o].status = "PENDING" =>
                         \A k \in Coupons : /\ userCoupons[UserOf[o]][k] # o
                                            /\ couponRows[UserOf[o]][k] # o
                    /\ orders[o].status = "PAID" /\ orders[o].coupon # NoCoupon =>
                         HoldsCoupon(o, orders[o].coupon)
  BY DEF CouponSettled
<1>1. FirstPayment(o) /\ (\A g \in Groups : queue[g][o] = <<>>) /\ UserOf[o] \in Users
  BY QuietIs, SagaAssumption
<1>2. PICK c \in MaybeCoupon : CouponFlow(o, c)
  BY DEF CouponInv
<1>3. /\ queue[UseGroup][o] = <<>> /\ queue[ReleaseGroup][o] = <<>>
      /\ \A g \in OrderFailGroups : queue[g][o] = <<>>
  BY <1>1, CouponGroupsAre, StockGroupsAre
<1>4. ~Cancelling(o)
  BY <1>3 DEF Cancelling
<1>5. /\ Used(o) <=> ~Untouched(o) /\ ~Failing(o)
      /\ Recorded(o) <=> ~Untouched(o) /\ ~Failing(o)
  BY <1>3 DEF Used, Recorded
<1>6. ASSUME orders[o].status = "PENDING", NEW k \in Coupons
      PROVE  userCoupons[UserOf[o]][k] # o /\ couponRows[UserOf[o]][k] # o
  <2>1. ~Used(o) /\ ~Recorded(o)
    BY <1>5, <1>6 DEF Failing
  <2>2. CASE k = c
    <3>1. CouponMarks(o, c)
      BY <1>2, <2>2, CouponAssumption DEF CouponFlow
    <3> QED
      BY <1>4, <2>1, <2>2, <3>1 DEF CouponMarks
  <2>3. CASE k # c
    BY <1>1, <1>2, <2>3 DEF CouponFlow, Elsewhere
  <2> QED
    BY <2>2, <2>3
<1>7. ASSUME orders[o].status = "PAID", orders[o].coupon # NoCoupon
      PROVE  HoldsCoupon(o, orders[o].coupon)
  <2>1. orders[o].coupon = c /\ c # NoCoupon
    BY <1>2, <1>7 DEF CouponFlow
  <2>2. ~Untouched(o)
    BY <1>1, <1>7 DEF FirstPayment, Fresh, Quiet, PendingRow
  <2>3. ~Failing(o)
    BY <1>3, <1>7 DEF Failing
  <2>4. CouponMarks(o, c) /\ Used(o) /\ Recorded(o)
    BY <1>2, <1>5, <2>1, <2>2, <2>3 DEF CouponFlow
  <2> QED
    BY <2>1, <2>4 DEF CouponMarks, HoldsCoupon
<1> QED
  BY <1>6, <1>7

\* The coupon and the balance may be refused at any time.  When a user has
\* two orders at most, and a coupon is refused to an order of such a pair only
\* because the other has used it or it was never issued, a first payment that
\* has come to rest holds the coupon of its discount, in Redis and in MySQL,
\* if the order is PAID, and none if it was taken back (coupon consumers of
\* order.processing and order.*.fail, cancelCouponUse).
THEOREM CouponsAreSettled ==
  ASSUME OnlyRefusals, FewRivals
  PROVE  Spec => []CouponSettled
<1>1. FailuresAreReported
  BY DEF FailuresAreReported, OnlyRefusals
<1>2. Init => StockInv /\ CouponInv
  BY StockInvInit, CouponInvInit
<1>3. Ground /\ Ground' /\ IInv /\ StockInv /\ CouponInv /\ [Next]_vars => StockInv' /\ CouponInv'
  BY StockInvStep, CouponInvStep
<1>4. Spec => []Ground /\ []IInv
  BY <1>1, Grounded, FirstPaymentsGoRight, PTL
<1>5. Ground /\ IInv /\ CouponInv => CouponSettled
  BY CouponComesOut
<1> QED
  BY <1>2, <1>3, <1>4, <1>5, PTL DEF Spec
=============================================================================
