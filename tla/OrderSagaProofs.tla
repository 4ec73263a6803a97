-------------------------- MODULE OrderSagaProofs --------------------------
(***************************************************************************)
(* Proofs about the payment saga, for every number of orders, users,       *)
(* options and coupons, any failures and any bounds.                       *)
(***************************************************************************)
EXTENDS OrderSaga, SequenceTheorems, TLAPS

Queues == [Groups -> [Orders -> Seq(Message)]]

Tasks == [Workers -> [Orders -> Task]]

USE DEF Workers
-----------------------------------------------------------------------------
(***************************************************************************)
(* The helpers of the handlers.                                            *)
(***************************************************************************)
LEMMA IdleType == Idle \in Task /\ PendingRow \in Row
  BY CouponAssumption DEF Idle, Task, PC, PendingRow, Row, OrderStatus, MaybeCoupon

\* A message of a request is a message.
LEMMA MsgType ==
  ASSUME NEW c \in MaybeCoupon
  PROVE  Msg(c) \in Message
  BY DEF Msg, Message, MaybeCoupon

\* Queues stay queues when a message is published.
LEMMA PublishedType ==
  ASSUME NEW o \in Orders, queue \in Queues, NEW topic, NEW m \in Message
  PROVE  Published(topic, o, m) \in Queues
  BY DEF Published, Queues

\* Tasks stay tasks when a worker goes on.
LEMMA GotoType ==
  ASSUME task \in Tasks, NEW g \in Workers, NEW o \in Orders, NEW t \in Task,
         Goto(g, o, t)
  PROVE  task' \in Tasks
  BY DEF Goto, Tasks

\* Queues and tasks keep their types when a handler returns.
LEMMA ReturnType ==
  ASSUME task \in Tasks, redeliveries \in Nat, NEW g \in Groups, NEW o \in Orders,
         NEW q \in Queues, q[g][o] # <<>>, Return(g, o, q)
  PROVE  task' \in Tasks /\ redeliveries' \in Nat /\ queue' \in Queues
<1>1. task' \in Tasks
  BY IdleType, GotoType DEF Return
<1>2. redeliveries' \in Nat
  BY DEF Return
<1>3. queue' \in Queues
  <2>1. q[g][o] \in Seq(Message)
    BY DEF Queues
  <2>2. Tail(q[g][o]) \in Seq(Message)
    BY <2>1
  <2>3. [q EXCEPT ![g][o] = Tail(@)] \in Queues
    BY <2>2 DEF Queues
  <2>4. QED
    BY <2>3 DEF Return
<1>4. QED
  BY <1>1, <1>2, <1>3

\* The same when a handler goes on
LEMMA ContinueType ==
  ASSUME task \in Tasks, redeliveries \in Nat, queue \in Queues,
         NEW g \in Groups, NEW o \in Orders, NEW p \in PC, Continue(g, o, p)
  PROVE  task' \in Tasks /\ redeliveries' \in Nat /\ queue' \in Queues
<1>1. [task[g][o] EXCEPT !.pc = p] \in Task
  BY DEF Tasks, Task
<1>2. QED
  BY <1>1, GotoType DEF Continue

\* What a handler receives is a message.
LEMMA ReceivedType ==
  ASSUME queue \in Queues, NEW g \in Groups, NEW o \in Orders, queue[g][o] # <<>>
  PROVE  Received(g, o) \in Message
<1>1. queue[g][o] \in Seq(Message)
  BY DEF Queues
<1>2. QED
  BY <1>1 DEF Received

\* A queue with a message has one after a publish.
LEMMA PublishedStays ==
  ASSUME queue \in Queues, NEW g \in Groups, NEW o \in Orders, queue[g][o] # <<>>,
         NEW topic, NEW m \in Message
  PROVE  Published(topic, o, m)[g][o] # <<>>
<1>1. queue[g][o] \in Seq(Message) /\ queue[g] \in [Orders -> Seq(Message)]
  BY DEF Queues
<1>2. Append(queue[g][o], m) # <<>>
  BY <1>1
<1>3. QED
  BY <1>1, <1>2 DEF Published
-----------------------------------------------------------------------------
(***************************************************************************)
(* Type correctness.                                                       *)
(***************************************************************************)
LEMMA MessagingType ==
  ASSUME TypeOK, UNCHANGED dataVars,
         task' \in Tasks, queue' \in Queues, redeliveries' \in Nat,
         attempts' \in [Orders -> Nat]
  PROVE  TypeOK'
  BY DEF TypeOK, Tasks, Queues, dataVars, rowVars, couponVars, balanceVars, sinkVars

\* A step that does nothing but return keeps the types.
LEMMA ReturnOnly ==
  ASSUME TypeOK, NEW g \in Groups, NEW o \in Orders, NEW q \in Queues,
         q[g][o] # <<>>, Return(g, o, q), UNCHANGED <<dataVars, attempts>>
  PROVE  TypeOK'
<1>1. task \in Tasks /\ redeliveries \in Nat /\ attempts' \in [Orders -> Nat]
  BY DEF TypeOK, Tasks
<1>2. task' \in Tasks /\ redeliveries' \in Nat /\ queue' \in Queues
  BY <1>1, ReturnType
<1>3. UNCHANGED dataVars
  OBVIOUS
<1>4. QED
  BY <1>1, <1>2, <1>3, MessagingType

\* A step that does nothing but go on keeps the types.
LEMMA ContinueOnly ==
  ASSUME TypeOK, NEW g \in Groups, NEW o \in Orders, NEW p \in PC,
         Continue(g, o, p), UNCHANGED <<dataVars, attempts>>
  PROVE  TypeOK'
<1>1. /\ task \in Tasks /\ redeliveries \in Nat /\ queue \in Queues
      /\ attempts' \in [Orders -> Nat]
  BY DEF TypeOK, Tasks, Queues
<1>2. task' \in Tasks /\ redeliveries' \in Nat /\ queue' \in Queues
  BY <1>1, ContinueType
<1>3. UNCHANGED dataVars
  OBVIOUS
<1>4. QED
  BY <1>1, <1>2, <1>3, MessagingType

\* A step that sends or receives messages only keeps the types.
LEMMA GotoOnly ==
  ASSUME TypeOK, NEW w \in Workers, NEW o \in Orders, NEW t \in Task,
         Goto(w, o, t), queue' \in Queues, UNCHANGED <<dataVars, attempts>>,
         redeliveries' \in Nat
  PROVE  TypeOK'
<1>1. task \in Tasks /\ attempts' \in [Orders -> Nat]
  BY DEF TypeOK, Tasks
<1>2. task' \in Tasks
  BY <1>1, GotoType
<1>3. UNCHANGED dataVars
  OBVIOUS
<1>4. QED
  BY <1>1, <1>2, <1>3, MessagingType

\* The request keeps the types.
LEMMA RequestType ==
  ASSUME TypeOK, NEW o \in Orders, Request(o)
  PROVE  TypeOK'
<1>1. CASE BeginPayment(o)
  <2>1. BeginPaymentProcessing(orders[o]) \in Row
    BY DEF TypeOK, BeginPaymentProcessing, Row, OrderStatus
  <2>2. Holding("update", BeginPaymentProcessing(orders[o])) \in Task
    BY <2>1 DEF Holding, Task, PC
  <2>3. task' \in Tasks
    BY <1>1, <2>2, GotoType DEF BeginPayment, TypeOK, Tasks
  <2>4. QED
    BY <1>1, <2>3, MessagingType DEF BeginPayment, TypeOK, Queues
<1>2. CASE MarkProcessing(o)
  <2>1. [Idle EXCEPT !.pc = "publish"] \in Task
    BY IdleType DEF Task, PC
  <2>2. task' \in Tasks
    BY <1>2, <2>1, GotoType DEF MarkProcessing, TypeOK, Tasks
  <2>3. task["client"][o].row \in Row
    BY DEF TypeOK, Task
  <2>4. QED
    BY <1>2, <2>2, <2>3
    DEF MarkProcessing, TypeOK, Tasks, couponVars, balanceVars, sinkVars
<1>3. CASE PublishProcessing(o)
  <2>1. \A c \in MaybeCoupon : Published("order.processing", o, Msg(c)) \in Queues
    BY MsgType, PublishedType DEF TypeOK, Queues
  <2>2. QED
    BY <1>3, <2>1, IdleType, GotoOnly DEF PublishProcessing, TypeOK
<1>4. CASE RequestFails(o)
  BY <1>4, IdleType, GotoOnly DEF RequestFails, TypeOK, Queues
<1>5. QED
  BY <1>1, <1>2, <1>3, <1>4 DEF Request

\* Types of a returning handler, from the type invariant
LEMMA ReturnTyped ==
  ASSUME TypeOK, NEW g \in Groups, NEW o \in Orders, NEW q \in Queues,
         q[g][o] # <<>>, Return(g, o, q)
  PROVE  task' \in Tasks /\ redeliveries' \in Nat /\ queue' \in Queues
  BY ReturnType DEF TypeOK, Tasks

\* Types of a handler that goes on, from the type invariant
LEMMA ContinueTyped ==
  ASSUME TypeOK, NEW g \in Groups, NEW o \in Orders, NEW p \in PC, Continue(g, o, p)
  PROVE  task' \in Tasks /\ redeliveries' \in Nat /\ queue' \in Queues
  BY ContinueType DEF TypeOK, Tasks, Queues

\* A handler returns after it published m to a topic.
LEMMA PublishOnly ==
  ASSUME TypeOK, NEW g \in Groups, NEW o \in Orders, NEW topic, NEW m \in Message,
         queue[g][o] # <<>>, Return(g, o, Published(topic, o, m)),
         UNCHANGED <<dataVars, attempts>>
  PROVE  TypeOK'
<1>1. queue \in Queues
  BY DEF TypeOK, Queues
<1>2. Published(topic, o, m) \in Queues /\ Published(topic, o, m)[g][o] # <<>>
  BY <1>1, PublishedType, PublishedStays
<1>3. QED
  BY <1>2, ReturnOnly

\* The coordinator's states that the handlers write are states.
LEMMA StoreType ==
  ASSUME NEW c \in MaybeCoupon, NEW s \in CoordinatorState
  PROVE  /\ NoState \in CoordinatorState /\ InitState(c) \in CoordinatorState
         /\ MarkedStock(s) \in CoordinatorState
         /\ MarkedCoupon(s, c) \in CoordinatorState
         /\ Emit(s) \in CoordinatorState
<1>1. NoState \in CoordinatorState /\ InitState(c) \in CoordinatorState
  BY DEF NoState, InitState, CoordinatorState, MaybeCoupon
<1>2. MarkedStock(s) \in CoordinatorState /\ MarkedCoupon(s, c) \in CoordinatorState
  BY DEF MarkedStock, MarkedCoupon, CoordinatorState
<1>3. Emit(s) \in CoordinatorState
  BY DEF Emit, Ready, CoordinatorState
<1>4. QED
  BY <1>1, <1>2, <1>3

\* The coordinator keeps the types.
LEMMA AggregateType ==
  ASSUME TypeOK, NEW o \in Orders, Aggregate(o)
  PROVE  TypeOK'
<1>0. queue \in Queues /\ store \in [Orders -> CoordinatorState]
  BY DEF TypeOK, Queues
<1>1. CASE InitCoordinator(o)
  <2> DEFINE g == "order-order-processing-init"
  <2>1. g \in Groups /\ queue[g][o] # <<>>
    BY <1>1 DEF InitCoordinator, At, Groups
  <2>2. Received(g, o).coupon \in MaybeCoupon
    BY <1>0, <2>1, ReceivedType DEF Message
  <2>3. store' \in [Orders -> CoordinatorState]
    BY <1>0, <1>1, <2>2, StoreType DEF InitCoordinator
  <2>4. task' \in Tasks /\ redeliveries' \in Nat /\ queue' \in Queues
    BY <1>0, <1>1, <2>1, ReturnTyped DEF InitCoordinator
  <2>5. QED
    BY <1>1, <2>3, <2>4
    DEF InitCoordinator, TypeOK, Tasks, Queues, rowVars, couponVars, balanceVars, sinkVars
<1>2. ASSUME NEW g \in MarkGroups, MarkOk(g, o)
      PROVE  TypeOK'
  <2>1. g \in Groups /\ queue[g][o] # <<>>
    BY <1>2 DEF MarkOk, At, Groups
  <2>2. Received(g, o).applied \in MaybeCoupon
    BY <1>0, <2>1, ReceivedType DEF Message
  <2>3. Marked(g, o) \in CoordinatorState
    BY <1>0, <2>2, StoreType DEF Marked
  <2>4. Emit(Marked(g, o)) \in CoordinatorState
    BY <2>2, <2>3, StoreType
  <2>5. store' \in [Orders -> CoordinatorState]
    BY <1>0, <1>2, <2>4 DEF MarkOk
  <2>6. "get" \in PC
    BY DEF PC
  <2>7. task' \in Tasks /\ redeliveries' \in Nat /\ queue' \in Queues
    BY <1>0, <1>2, <2>1, <2>6, ReturnTyped, ContinueTyped DEF MarkOk
  <2>8. QED
    BY <1>2, <2>5, <2>7
    DEF MarkOk, TypeOK, Tasks, Queues, rowVars, couponVars, balanceVars, sinkVars
<1>3. ASSUME NEW g \in MarkGroups, PublishReady(g, o)
      PROVE  TypeOK'
  <2>1. g \in Groups /\ queue[g][o] # <<>>
    BY <1>3 DEF PublishReady, At, Groups
  <2>2. CASE store[o].inited
    <3> DEFINE m == [Msg(store[o].coupon) EXCEPT !.applied = store[o].applied]
    <3>1. store[o].coupon \in MaybeCoupon /\ store[o].applied \in MaybeCoupon
      BY <1>0 DEF CoordinatorState
    <3>2. m \in Message
      BY <3>1, MsgType DEF Message
    <3>3. Published("order.processing.success", o, m) \in Queues
      BY <1>0, <3>2, PublishedType
    <3>4. [Idle EXCEPT !.pc = "clear"] \in Task
      BY IdleType DEF Task, PC
    <3>5. redeliveries' \in Nat
      BY <1>3, <2>2 DEF PublishReady, TypeOK
    <3>6. QED
      BY <1>3, <2>1, <2>2, <3>3, <3>4, <3>5, GotoOnly DEF PublishReady
  <2>3. CASE ~store[o].inited
    BY <1>0, <1>3, <2>1, <2>3, ReturnOnly DEF PublishReady
  <2>4. QED
    BY <2>2, <2>3
<1>4. ASSUME NEW g \in Groups, ClearStore(g, o)
      PROVE  TypeOK'
  <2>1. store' \in [Orders -> CoordinatorState]
    <3>1. NoState \in CoordinatorState
      BY CouponAssumption DEF NoState, CoordinatorState, MaybeCoupon
    <3>2. QED
      BY <1>0, <1>4, <3>1 DEF ClearStore
  <2>2. task' \in Tasks /\ redeliveries' \in Nat /\ queue' \in Queues
    BY <1>0, <1>4, ReturnTyped DEF ClearStore, At
  <2>3. QED
    BY <1>4, <2>1, <2>2
    DEF ClearStore, TypeOK, Tasks, Queues, rowVars, couponVars, balanceVars, sinkVars
<1>5. QED
  BY <1>1, <1>2, <1>3, <1>4 DEF Aggregate, Groups, MarkGroups, OrderFailGroups

\* The item that is next in the stock's handler is an item.
LEMMA CurrentItemType ==
  ASSUME TypeOK, NEW g \in Groups, NEW o \in Orders, ItemsLeft(g, o)
  PROVE  CurrentItem(g, o) \in Item
<1>1. task[g][o].done \in Nat
  BY DEF TypeOK, Task
<1>2. Items[o] \in Seq(Item)
  BY SagaAssumption
<1>3. task[g][o].done + 1 \in 1..Len(Items[o])
  BY <1>1, <1>2 DEF ItemsLeft
<1>4. QED
  BY <1>2, <1>3 DEF CurrentItem

\* Confirming and restoring make rows of an option.
LEMMA StockOperationType ==
  ASSUME NEW opt \in Option, NEW q \in Int
  PROVE  DecreaseStock(opt, q) \in Option /\ RestoreStock(opt, q) \in Option
  BY DEF DecreaseStock, RestoreStock, Option

\* The transaction of one item, for either operation of the entity.
LEMMA ItemDoneType ==
  ASSUME TypeOK, NEW g \in Groups, NEW o \in Orders,
         ItemDone(g, o, DecreaseStock) \/ ItemDone(g, o, RestoreStock),
         UNCHANGED <<rowVars, couponVars, balanceVars, store, sinkVars,
                     queue, attempts, redeliveries>>
  PROVE  TypeOK'
<1>1. CurrentItem(g, o) \in Item
  BY CurrentItemType DEF ItemDone
<1>3. options' \in [Options -> Option]
  <2>1. options[CurrentItem(g, o).option] \in Option /\ CurrentItem(g, o).quantity \in Int
    BY <1>1 DEF TypeOK, Item
  <2>2. /\ DecreaseStock(options[CurrentItem(g, o).option], CurrentItem(g, o).quantity)
             \in Option
        /\ RestoreStock(options[CurrentItem(g, o).option], CurrentItem(g, o).quantity)
             \in Option
    BY <2>1, StockOperationType
  <2>3. CASE ItemDone(g, o, DecreaseStock)
    BY <2>2, <2>3 DEF ItemDone, TypeOK
  <2>4. CASE ItemDone(g, o, RestoreStock)
    BY <2>2, <2>4 DEF ItemDone, TypeOK
  <2>5. QED
    BY <2>3, <2>4
<1>4. Doing("update", task[g][o].done + 1) \in Task
  BY IdleType DEF Doing, TypeOK, Task, PC
<1>5. task' \in Tasks
  BY <1>4, GotoType DEF ItemDone, TypeOK, Tasks
<1>6. QED
  BY <1>3, <1>5 DEF TypeOK, Tasks, rowVars, couponVars, balanceVars, sinkVars

\* The stock's handler keeps the types.
LEMMA ProcessStockType ==
  ASSUME TypeOK, NEW o \in Orders, ProcessStock(o)
  PROVE  TypeOK'
<1> DEFINE g == "product-order-processing"
<1>0. g \in Groups
  BY DEF Groups
<1>1. CASE ConfirmStock(o)
  BY <1>0, <1>1, ItemDoneType DEF ConfirmStock
<1>2. ASSUME queue[g][o] # <<>>
      PROVE  /\ Msg(Received(g, o).coupon) \in Message
             /\ [Msg(Received(g, o).coupon) EXCEPT !.by = "ConfirmStockByOrder"] \in Message
  <2>1. Received(g, o).coupon \in MaybeCoupon
    BY <1>0, <1>2, ReceivedType DEF Message, TypeOK, Queues
  <2>2. Msg(Received(g, o).coupon) \in Message
    BY <2>1, MsgType
  <2>3. QED
    BY <2>2 DEF Message
<1>3. CASE StockConfirmed(o)
  BY <1>0, <1>2, <1>3, PublishOnly DEF StockConfirmed, At
<1>4. CASE ConfirmStockFails(o)
  BY <1>0, <1>2, <1>4, PublishOnly DEF ConfirmStockFails, At
<1>5. QED
  BY <1>1, <1>3, <1>4 DEF ProcessStock

\* A write of one user-coupon hash.
LEMMA UserCouponType ==
  ASSUME TypeOK, NEW u \in Users, NEW c, NEW h \in UserCoupon,
         userCoupons' = [userCoupons EXCEPT ![u][c] = h],
         task' \in Tasks, redeliveries' \in Nat, queue' \in Queues,
         UNCHANGED <<rowVars, options, couponRows, balanceVars, store, sinkVars, attempts>>
  PROVE  TypeOK'
<1>1. userCoupons' \in [Users -> [Coupons -> UserCoupon]]
  BY DEF TypeOK
<1>2. QED
  BY <1>1 DEF TypeOK, Tasks, Queues, rowVars, balanceVars, sinkVars

\* A cancelled hash is a hash, or what a cancellation leaves of none.
LEMMA CancelledType ==
  ASSUME NEW h
  PROVE  Cancelled(h) \in UserCoupon
  BY DEF Cancelled, UserCoupon

\* The coupon's handler keeps the types.
LEMMA ProcessCouponType ==
  ASSUME TypeOK, NEW o \in Orders, ProcessCoupon(o)
  PROVE  TypeOK'
<1> DEFINE g == "coupon-order-processing"
           c == Received(g, o).coupon
           u == UserOf[o]
<1>0. /\ g \in Groups /\ u \in Users
      /\ {"create", "publish", "cancelCheck", "cancel"} \subseteq PC
  BY SagaAssumption DEF Groups, PC
<1>1. queue[g][o] # <<>>
  BY DEF ProcessCoupon, SkipCoupon, UseCoupon, UseCouponFails, CreateUserCoupon,
         CouponUsed, RecordCouponFails, CancelCheck, CancelUse, At
<1>2. c \in MaybeCoupon
  BY <1>0, <1>1, ReceivedType DEF Message, TypeOK, Queues
<1>3. Msg(c) \in Message
  BY <1>2, MsgType
<1>4. [Msg(c) EXCEPT !.applied = c] \in Message
  BY <1>2, <1>3 DEF Message
<1>5. [Msg(c) EXCEPT !.by = "UseUserCouponByOrder"] \in Message
  BY <1>3 DEF Message
<1>6. queue \in Queues
  BY DEF TypeOK, Queues
<1>7. CASE SkipCoupon(o)
  BY <1>0, <1>1, <1>6, <1>7, ReturnOnly DEF SkipCoupon
<1>8. CASE UseCoupon(o)
  <2>1. o \in UserCoupon
    BY DEF UserCoupon
  <2>2. task' \in Tasks /\ redeliveries' \in Nat /\ queue' \in Queues
    BY <1>0, <1>8, ContinueTyped DEF UseCoupon
  <2>3. QED
    BY <1>0, <1>8, <2>1, <2>2, UserCouponType DEF UseCoupon
<1>9. CASE UseCouponFails(o)
  BY <1>0, <1>9, ContinueOnly DEF UseCouponFails
<1>10. CASE CreateUserCoupon(o)
  <2>1. couponRows' \in [Users -> [Coupons -> Orders \cup {NoOrder}]]
    BY <1>10 DEF CreateUserCoupon, TypeOK
  <2>2. task' \in Tasks /\ redeliveries' \in Nat /\ queue' \in Queues
    BY <1>0, <1>10, ContinueTyped DEF CreateUserCoupon
  <2>3. QED
    BY <1>10, <2>1, <2>2
    DEF CreateUserCoupon, TypeOK, Tasks, Queues, rowVars, balanceVars, sinkVars
<1>11. CASE CouponUsed(o)
  BY <1>0, <1>1, <1>4, <1>11, PublishOnly DEF CouponUsed
<1>12. CASE RecordCouponFails(o)
  BY <1>0, <1>12, ContinueOnly DEF RecordCouponFails
<1>13. CASE CancelCheck(o)
  BY <1>0, <1>1, <1>5, <1>13, ContinueOnly, PublishOnly
  DEF CancelCheck, CouponProcessingFailed
<1>14. CASE CancelUse(o)
  <2>1. Published("order.processing.fail", o,
                  [Msg(c) EXCEPT !.by = "UseUserCouponByOrder"]) \in Queues
    BY <1>5, <1>6, PublishedType
  <2>2. Published("order.processing.fail", o,
                  [Msg(c) EXCEPT !.by = "UseUserCouponByOrder"])[g][o] # <<>>
    BY <1>0, <1>1, <1>5, <1>6, PublishedStays
  <2>3. task' \in Tasks /\ redeliveries' \in Nat /\ queue' \in Queues
    BY <1>0, <1>14, <2>1, <2>2, ReturnTyped DEF CancelUse, CouponProcessingFailed
  <2>4. QED
    BY <1>0, <1>14, <2>3, CancelledType, UserCouponType DEF CancelUse
<1>15. QED
  BY <1>7, <1>8, <1>9, <1>10, <1>11, <1>12, <1>13, <1>14 DEF ProcessCoupon

\* A handler goes on with a row in its hands.
LEMMA HoldingType ==
  ASSUME NEW p \in PC, NEW row \in Row
  PROVE  Holding(p, row) \in Task
  BY DEF Holding, Task

\* The order's operations make rows of an order.
LEMMA RowType ==
  ASSUME TypeOK, NEW o \in Orders, NEW c \in MaybeCoupon
  PROVE  /\ orders[o] \in Row
         /\ ApplyCoupon(orders[o], c) \in Row
         /\ CompletePayment(orders[o]) \in Row
         /\ CancelPayment(orders[o]) \in Row
  BY DEF TypeOK, ApplyCoupon, CompletePayment, CancelPayment, Row, OrderStatus

\* The write of the row that a handler holds.
LEMMA WriteRowType ==
  ASSUME TypeOK, NEW w \in Workers, NEW o \in Orders,
         orders' = [orders EXCEPT ![o] = task[w][o].row],
         task' \in Tasks, redeliveries' \in Nat, queue' \in Queues,
         UNCHANGED <<expired, options, couponVars, balanceVars, store, sinkVars, attempts>>
  PROVE  TypeOK'
<1>1. task[w][o].row \in Row
  BY DEF TypeOK, Task
<1>2. orders' \in [Orders -> Row]
  BY <1>1 DEF TypeOK
<1>3. QED
  BY <1>2 DEF TypeOK, Tasks, Queues, couponVars, balanceVars, sinkVars

\* The final amount is an integer.
LEMMA FinalAmountType ==
  ASSUME NEW row \in Row, NEW total \in Nat
  PROVE  FinalAmount(total, row) \in Int
<1>1. CASE row.coupon = NoCoupon
  BY <1>1 DEF FinalAmount
<1>2. CASE row.coupon # NoCoupon
  <2>1. DiscountRate[row.coupon] \in 0..100
    BY <1>2, CouponAssumption DEF Row, MaybeCoupon
  <2>2. total * DiscountRate[row.coupon] \in Int
    BY <2>1
  <2>3. (total * DiscountRate[row.coupon]) \div 100 \in Int
    BY <2>2
  <2>4. QED
    BY <1>2, <2>3 DEF FinalAmount
<1>3. QED
  BY <1>1, <1>2

\* The order's handlers keep the types.
LEMMA ProcessOrderType ==
  ASSUME TypeOK, NEW o \in Orders, ProcessOrder(o)
  PROVE  TypeOK'
<1> DEFINE g == "order-processing-success"
           h == "order-payment-success"
<1>0. /\ {g, h} \subseteq Groups /\ {"update", "publish", "clear"} \subseteq PC
      /\ queue \in Queues /\ task \in Tasks /\ redeliveries \in Nat
      /\ NoCoupon \in MaybeCoupon
  BY DEF TypeOK, Queues, Tasks, Groups, PC, MaybeCoupon
<1>1. CASE ReadForPayment(o)
  <2>1. queue[g][o] # <<>>
    BY <1>1 DEF ReadForPayment, At
  <2>2. Received(g, o).applied \in MaybeCoupon
    BY <1>0, <2>1, ReceivedType DEF Message
  <2>3. /\ Holding("publish", orders[o]) \in Task
        /\ Holding("update", ApplyCoupon(orders[o], Received(g, o).applied)) \in Task
    BY <1>0, <2>2, RowType, HoldingType
  <2>4. CASE orders[o].status # "PAYMENT_PROCESSING"
    BY <1>0, <1>1, <2>1, <2>4, ReturnOnly DEF ReadForPayment
  <2>5. CASE orders[o].status = "PAYMENT_PROCESSING"
    BY <1>0, <1>1, <2>3, <2>5, GotoOnly DEF ReadForPayment
  <2>6. QED
    BY <2>4, <2>5
<1>2. CASE WriteDiscount(o)
  <2>1. task' \in Tasks /\ redeliveries' \in Nat /\ queue' \in Queues
    BY <1>0, <1>2, ContinueTyped DEF WriteDiscount
  <2>2. QED
    BY <1>0, <1>2, <2>1, WriteRowType DEF WriteDiscount
<1>3. CASE PublishPayment(o)
  <2> DEFINE m == [Msg(Received(g, o).coupon) EXCEPT !.amount = AmountDue(o)]
  <2>1. queue[g][o] # <<>>
    BY <1>3 DEF PublishPayment, At
  <2>2. Received(g, o).coupon \in MaybeCoupon
    BY <1>0, <2>1, ReceivedType DEF Message
  <2>3. task[g][o].row \in Row /\ TotalAmount[o] \in Nat
    BY <1>0, SagaAssumption DEF Tasks, Task
  <2>4. AmountDue(o) \in Int
    BY <2>3, FinalAmountType DEF AmountDue
  <2>5. m \in Message
    BY <2>2, <2>4, MsgType DEF Message
  <2>6. Published("order.payment", o, m) \in Queues
    BY <1>0, <2>5, PublishedType
  <2>7. [Idle EXCEPT !.pc = "clear"] \in Task
    BY <1>0, IdleType DEF Task
  <2>8. QED
    BY <1>0, <1>3, <2>6, <2>7, GotoOnly DEF PublishPayment
<1>4. CASE ReadForCompletion(o)
  <2>1. queue[h][o] # <<>>
    BY <1>4 DEF ReadForCompletion, At
  <2>2. Holding("update", CompletePayment(orders[o])) \in Task
    BY <1>0, RowType, HoldingType
  <2>3. CASE Continue(h, o, "publish")
    BY <1>0, <1>4, <2>3, ContinueOnly DEF ReadForCompletion
  <2>4. CASE Goto(h, o, Holding("update", CompletePayment(orders[o])))
             /\ UNCHANGED <<queue, redeliveries>>
    BY <1>0, <1>4, <2>2, <2>4, GotoOnly DEF ReadForCompletion
  <2>5. CASE Return(h, o, queue)
    BY <1>0, <1>4, <2>1, <2>5, ReturnOnly DEF ReadForCompletion
  <2>6. QED
    BY <1>4, <2>3, <2>4, <2>5 DEF ReadForCompletion
<1>5. CASE WritePaid(o)
  <2>1. [Idle EXCEPT !.pc = "publish"] \in Task
    BY <1>0, IdleType DEF Task
  <2>2. task' \in Tasks
    BY <1>0, <1>5, <2>1, GotoType DEF WritePaid
  <2>3. QED
    BY <1>0, <1>5, <2>2, WriteRowType DEF WritePaid
<1>6. CASE PublishProcessed(o)
  <2>1. queue[h][o] # <<>>
    BY <1>6 DEF PublishProcessed, At
  <2>2. Msg(Received(h, o).coupon) \in Message
    BY <1>0, <2>1, ReceivedType, MsgType DEF Message
  <2>3. QED
    BY <1>0, <1>6, <2>1, <2>2, PublishOnly DEF PublishProcessed
<1>7. QED
  BY <1>1, <1>2, <1>3, <1>4, <1>5, <1>6 DEF ProcessOrder

\* The balance's handler keeps the types.
LEMMA ProcessPaymentType ==
  ASSUME TypeOK, NEW o \in Orders, ProcessPayment(o)
  PROVE  TypeOK'
<1> DEFINE g == "user-order-payment"
           a == Received(g, o).amount
           u == UserOf[o]
<1>0. /\ g \in Groups /\ "publish" \in PC /\ u \in Users
      /\ queue \in Queues /\ balance \in [Users -> Nat]
  BY SagaAssumption DEF TypeOK, Queues, Groups, PC
<1>1. queue[g][o] # <<>>
  BY DEF ProcessPayment, DeductBalance, PaymentSucceeded, PaymentFailed, At
<1>2. a \in Int /\ Msg(Received(g, o).coupon) \in Message
  BY <1>0, <1>1, ReceivedType, MsgType DEF Message
<1>3. CASE DeductBalance(o)
  <2>1. a \in Nat \ {0} /\ balance[u] - a \in Nat
    BY <1>0, <1>2, <1>3 DEF DeductBalance, Deductible
  <2>2. balance' \in [Users -> Nat]
    BY <1>0, <1>3, <2>1 DEF DeductBalance
  <2>3. Append(logs[o], a) \in Seq(Nat \ {0})
    BY <2>1 DEF TypeOK
  <2>4. logs' \in [Orders -> Seq(Nat \ {0})]
    BY <1>3, <2>3 DEF DeductBalance, TypeOK
  <2>5. task' \in Tasks /\ redeliveries' \in Nat /\ queue' \in Queues
    BY <1>0, <1>3, ContinueTyped DEF DeductBalance
  <2>6. QED
    BY <1>3, <2>2, <2>4, <2>5
    DEF DeductBalance, TypeOK, Tasks, Queues, rowVars, couponVars, sinkVars
<1>4. CASE PaymentSucceeded(o)
  BY <1>0, <1>1, <1>2, <1>4, PublishOnly DEF PaymentSucceeded
<1>5. CASE PaymentFailed(o)
  BY <1>0, <1>1, <1>2, <1>5, PublishOnly DEF PaymentFailed
<1>6. QED
  BY <1>3, <1>4, <1>5 DEF ProcessPayment

\* The compensations keep the types.
LEMMA CompensateType ==
  ASSUME TypeOK, NEW o \in Orders, Compensate(o)
  PROVE  TypeOK'
<1>0. /\ OrderFailGroups \cup ProductFailGroups \cup CouponFailGroups \subseteq Groups
      /\ {"update", "clear", "cancel", "delete"} \subseteq PC
      /\ queue \in Queues /\ task \in Tasks /\ redeliveries \in Nat
      /\ [Idle EXCEPT !.pc = "clear"] \in Task
  BY IdleType DEF TypeOK, Queues, Tasks, Groups, PC, Task
<1>1. ASSUME NEW g \in OrderFailGroups, queue[g][o] # <<>>, AfterCancel(g, o)
      PROVE  task' \in Tasks /\ redeliveries' \in Nat /\ queue' \in Queues
  <2>1. CASE Return(g, o, queue)
    BY <1>0, <1>1, <2>1, ReturnTyped
  <2>2. CASE Goto(g, o, [Idle EXCEPT !.pc = "clear"]) /\ UNCHANGED <<queue, redeliveries>>
    BY <1>0, <2>2, GotoType
  <2>3. QED
    BY <1>1, <2>1, <2>2 DEF AfterCancel
<1>2. ASSUME NEW g \in OrderFailGroups, ReadForCancel(g, o)
      PROVE  TypeOK'
  <2>1. CASE Cancellable(orders[o])
    <3>1. Holding("update", CancelPayment(orders[o])) \in Task
      BY <1>0, RowType, HoldingType DEF MaybeCoupon
    <3>2. QED
      BY <1>0, <1>2, <2>1, <3>1, GotoOnly DEF ReadForCancel
  <2>2. CASE ~Cancellable(orders[o])
    <3>1. task' \in Tasks /\ redeliveries' \in Nat /\ queue' \in Queues
      BY <1>1, <1>2, <2>2 DEF ReadForCancel, At
    <3>2. QED
      BY <1>2, <3>1, MessagingType DEF ReadForCancel, TypeOK
  <2>3. QED
    BY <2>1, <2>2
<1>3. ASSUME NEW g \in OrderFailGroups, WriteCancel(g, o)
      PROVE  TypeOK'
  <2>1. task' \in Tasks /\ redeliveries' \in Nat /\ queue' \in Queues
    BY <1>1, <1>3 DEF WriteCancel, At
  <2>2. QED
    BY <1>0, <1>3, <2>1, WriteRowType DEF WriteCancel
<1>4. ASSUME NEW g \in OrderFailGroups, CancelFails(g, o)
      PROVE  TypeOK'
  <2>1. task' \in Tasks /\ redeliveries' \in Nat /\ queue' \in Queues
    BY <1>1, <1>4 DEF CancelFails, At
  <2>2. QED
    BY <1>4, <2>1, MessagingType DEF CancelFails, TypeOK
<1>5. ASSUME NEW g \in ProductFailGroups, RestoreItem(g, o) \/ StockRestored(g, o)
      PROVE  TypeOK'
  BY <1>0, <1>5, ItemDoneType, ReturnOnly DEF RestoreItem, StockRestored, At
<1>6. ASSUME NEW g \in CouponFailGroups, SkipRelease(g, o) \/ ReleaseCheck(g, o)
      PROVE  TypeOK'
  BY <1>0, <1>6, ReturnOnly, ContinueOnly DEF SkipRelease, ReleaseCheck, At
<1>7. ASSUME NEW g \in CouponFailGroups, ReleaseUse(g, o)
      PROVE  TypeOK'
  <2>1. task' \in Tasks /\ redeliveries' \in Nat /\ queue' \in Queues
    BY <1>0, <1>7, ContinueTyped DEF ReleaseUse
  <2>2. UserOf[o] \in Users
    BY SagaAssumption
  <2>3. QED
    BY <1>7, <2>1, <2>2, CancelledType, UserCouponType DEF ReleaseUse
<1>8. ASSUME NEW g \in CouponFailGroups, DeleteUserCoupon(g, o)
      PROVE  TypeOK'
  <2>1. task' \in Tasks /\ redeliveries' \in Nat /\ queue' \in Queues
    BY <1>0, <1>8, ReturnTyped DEF DeleteUserCoupon, At
  <2>2. couponRows' \in [Users -> [Coupons -> Orders \cup {NoOrder}]]
    BY <1>8 DEF DeleteUserCoupon, TypeOK
  <2>3. QED
    BY <1>8, <2>1, <2>2
    DEF DeleteUserCoupon, TypeOK, Tasks, Queues, rowVars, balanceVars, sinkVars
<1>9. QED
  BY <1>2, <1>3, <1>4, <1>5, <1>6, <1>7, <1>8 DEF Compensate

\* Export and ranking keep the types.
LEMMA FinishType ==
  ASSUME TypeOK, NEW o \in Orders, Finish(o)
  PROVE  TypeOK'
<1>0. /\ {"external-platform-redis-group", "product-order-processed"} \subseteq Groups
      /\ queue \in Queues
  BY DEF TypeOK, Queues, Groups
<1>1. CASE ExportOrder(o)
  <2>1. task' \in Tasks /\ redeliveries' \in Nat /\ queue' \in Queues
    BY <1>0, <1>1, ReturnTyped DEF ExportOrder, At
  <2>2. QED
    BY <1>1, <2>1
    DEF ExportOrder, TypeOK, Tasks, Queues, rowVars, couponVars, balanceVars
<1>2. CASE RecordSales(o)
  <2>1. task' \in Tasks /\ redeliveries' \in Nat /\ queue' \in Queues
    BY <1>0, <1>2, ReturnTyped DEF RecordSales, At
  <2>2. QED
    BY <1>2, <2>1
    DEF RecordSales, TypeOK, Tasks, Queues, rowVars, couponVars, balanceVars
<1>3. QED
  BY <1>1, <1>2 DEF Finish

\* A lapse, an exception and a redelivery keep the types.
LEMMA FailureType ==
  ASSUME TypeOK, NEW o \in Orders,
         Expire(o) \/ \E g \in Groups : Swallow(g, o) \/ Crash(g, o)
  PROVE  TypeOK'
<1>0. queue \in Queues
  BY DEF TypeOK, Queues
<1>1. ASSUME NEW g \in Groups, Swallow(g, o)
      PROVE  TypeOK'
  BY <1>0, <1>1, ReturnOnly DEF Swallow
<1>2. ASSUME NEW g \in Groups, Crash(g, o)
      PROVE  TypeOK'
  <2>1. redeliveries' \in Nat
    BY <1>2 DEF Crash, TypeOK
  <2>2. QED
    BY <1>0, <1>2, <2>1, IdleType, GotoOnly DEF Crash
<1>3. CASE Expire(o)
  BY <1>3 DEF Expire, TypeOK, couponVars, balanceVars, sinkVars
<1>4. QED
  BY <1>1, <1>2, <1>3

\* Every variable keeps its type, whatever the constants.
THEOREM TypeCorrect == Spec => []TypeOK
<1>1. Init => TypeOK
  <2>1. ASSUME Init
        PROVE  TypeOK
    <3>1. NoState \in CoordinatorState
      BY DEF NoState, CoordinatorState, MaybeCoupon
    <3>2. InitialUserCoupons \in [Users -> [Coupons -> UserCoupon]]
      BY SagaAssumption DEF UserCoupon
    <3>3. QED
      BY <2>1, <3>1, <3>2, SagaAssumption, IdleType DEF Init, TypeOK
  <2>2. QED
    BY <2>1
<1>2. TypeOK /\ [Next]_vars => TypeOK'
  <2> SUFFICES ASSUME TypeOK, [Next]_vars
               PROVE  TypeOK'
    OBVIOUS
  <2>1. CASE Next
    BY <2>1, RequestType, AggregateType, ProcessStockType, ProcessCouponType,
       ProcessOrderType, ProcessPaymentType, CompensateType, FinishType, FailureType
    DEF Next
  <2>2. CASE UNCHANGED vars
    BY <2>2 DEF vars, dataVars, rowVars, couponVars, balanceVars, sinkVars, TypeOK
  <2>3. QED
    BY <2>1, <2>2
<1>3. QED
  BY <1>1, <1>2, PTL DEF Spec
-----------------------------------------------------------------------------
(***************************************************************************)
(* An order is PAID only after its user's balance was debited.  The status *)
(* comes from a message, the message from a handler that had deducted: as  *)
(* long as nothing was deducted for an order, nothing on that way says it  *)
(* was paid.                                                               *)
(***************************************************************************)
PaidGroups == {"order-payment-success", "external-platform-redis-group",
               "product-order-processed"}

DataUnpaid(o) == orders[o].status # "PAID" /\ ~exported[o] /\ sales[o] = 0

QueuesUnpaid(o) == \A g \in PaidGroups : queue[g][o] = <<>>

TasksUnpaid(o) ==
  /\ task["user-order-payment"][o].pc # "publish"
  /\ \A w \in Workers : task[w][o].row.status # "PAID"

Unpaid(o) == DataUnpaid(o) /\ QueuesUnpaid(o) /\ TasksUnpaid(o)

UndeductedIsUnpaid == \A o \in Orders : logs[o] = <<>> => Unpaid(o)

\* A worker that goes on without a paid row keeps the tasks unpaid.
LEMMA GotoUnpaid ==
  ASSUME task \in Tasks, NEW x \in Orders, TasksUnpaid(x),
         NEW w \in Workers, NEW o \in Orders, NEW t \in Task, Goto(w, o, t),
         t.row.status # "PAID" \/ o # x,
         t.pc # "publish" \/ w # "user-order-payment" \/ o # x
  PROVE  TasksUnpaid(x)'
  BY DEF TasksUnpaid, Goto, Tasks

\* A worker at rest has nothing paid.
LEMMA IdleIsUnpaid == Idle.pc = "idle" /\ Idle.row.status = "PENDING"
  BY DEF Idle, PendingRow

\* A message on another topic leaves the queues unpaid.
LEMMA PublishedUnpaid ==
  ASSUME queue \in Queues, NEW x \in Orders, QueuesUnpaid(x), NEW o \in Orders,
         NEW topic, NEW m,
         x # o \/ Subscribers(topic) \cap PaidGroups = {}
  PROVE  \A g \in PaidGroups : Published(topic, o, m)[g][x] = <<>>
  BY DEF QueuesUnpaid, Published, Queues, PaidGroups, Groups

\* A handler that returns keeps an order unpaid if its messages do.
LEMMA ReturnUnpaid ==
  ASSUME TypeOK, NEW x \in Orders, Unpaid(x), DataUnpaid(x)',
         NEW g \in Groups, NEW o \in Orders, NEW q \in Queues, q[g][o] # <<>>,
         Return(g, o, q), \A h \in PaidGroups : q[h][x] = <<>>
  PROVE  Unpaid(x)'
<1>1. TasksUnpaid(x)'
  BY IdleType, IdleIsUnpaid, GotoUnpaid DEF Return, Unpaid, TypeOK, Tasks
<1>2. QueuesUnpaid(x)'
  <2>1. CASE queue' = q
    BY <2>1 DEF QueuesUnpaid
  <2>2. CASE queue' = [q EXCEPT ![g][o] = Tail(@)]
    <3>1. ~(g \in PaidGroups /\ o = x)
      OBVIOUS
    <3>2. \A h \in Groups : (h # g \/ o # x) => queue'[h][x] = q[h][x]
      BY <2>2 DEF Queues
    <3>3. QED
      BY <3>1, <3>2 DEF QueuesUnpaid, PaidGroups, Groups
  <2>3. QED
    BY <2>1, <2>2 DEF Return
<1>3. QED
  BY <1>1, <1>2 DEF Unpaid

\* The same for a handler that goes on
LEMMA ContinueUnpaid ==
  ASSUME TypeOK, NEW x \in Orders, Unpaid(x), DataUnpaid(x)',
         NEW g \in Groups, NEW o \in Orders, NEW p \in PC, Continue(g, o, p),
         p # "publish" \/ g # "user-order-payment" \/ o # x
  PROVE  Unpaid(x)'
<1>1. task[g][o] \in Task
  BY DEF TypeOK
<1>2. [task[g][o] EXCEPT !.pc = p] \in Task
  BY <1>1 DEF Task
<1>3. [task[g][o] EXCEPT !.pc = p].pc = p /\ [task[g][o] EXCEPT !.pc = p].row = task[g][o].row
  BY <1>1 DEF Task
<1>4. task[g][o].row.status # "PAID" \/ o # x
  BY DEF Unpaid, TasksUnpaid
<1>5. TasksUnpaid(x)'
  BY <1>2, <1>3, <1>4, GotoUnpaid DEF Continue, Unpaid, TypeOK, Tasks
<1>6. QED
  BY <1>5 DEF Continue, Unpaid, QueuesUnpaid

\* The messages a handler makes from the one it received.
LEMMA MessagesType ==
  ASSUME TypeOK, NEW g \in Groups, NEW o \in Orders, queue[g][o] # <<>>
  PROVE  /\ Received(g, o).coupon \in MaybeCoupon
         /\ Received(g, o).applied \in MaybeCoupon
         /\ Msg(Received(g, o).coupon) \in Message
         /\ [Msg(Received(g, o).coupon) EXCEPT !.by = "ConfirmStockByOrder"] \in Message
         /\ [Msg(Received(g, o).coupon) EXCEPT !.by = "UseUserCouponByOrder"] \in Message
         /\ [Msg(Received(g, o).coupon) EXCEPT !.applied = Received(g, o).coupon] \in Message
         /\ [Msg(Received(g, o).coupon) EXCEPT !.amount = AmountDue(o)] \in Message
<1>1. Received(g, o) \in Message
  BY ReceivedType DEF TypeOK, Queues
<1>2. Received(g, o).coupon \in MaybeCoupon /\ Received(g, o).applied \in MaybeCoupon
  BY <1>1 DEF Message
<1>3. Msg(Received(g, o).coupon) \in Message
  BY <1>2, MsgType
<1>4. AmountDue(o) \in Int
  <2>1. "order-processing-success" \in Workers
    BY DEF Groups
  <2>2. task["order-processing-success"][o].row \in Row /\ TotalAmount[o] \in Nat
    BY <2>1, SagaAssumption DEF TypeOK, Task
  <2>3. QED
    BY <2>2, FinalAmountType DEF AmountDue
<1>5. QED
  BY <1>2, <1>3, <1>4 DEF Message

\* The same for a handler that returns with a message
LEMMA PublishUnpaid ==
  ASSUME TypeOK, NEW x \in Orders, Unpaid(x), DataUnpaid(x)',
         NEW g \in Groups, NEW o \in Orders, queue[g][o] # <<>>,
         NEW topic, NEW m \in Message, Return(g, o, Published(topic, o, m)),
         x # o \/ Subscribers(topic) \cap PaidGroups = {}
  PROVE  Unpaid(x)'
<1>1. queue \in Queues
  BY DEF TypeOK, Queues
<1>2. Published(topic, o, m) \in Queues /\ Published(topic, o, m)[g][o] # <<>>
  BY <1>1, PublishedType, PublishedStays
<1>3. \A h \in PaidGroups : Published(topic, o, m)[h][x] = <<>>
  BY <1>1, PublishedUnpaid DEF Unpaid
<1>4. QED
  BY <1>2, <1>3, ReturnUnpaid

\* The same for a handler that returns without one
LEMMA ReturnQuietlyUnpaid ==
  ASSUME TypeOK, NEW x \in Orders, Unpaid(x), DataUnpaid(x)',
         NEW g \in Groups, NEW o \in Orders, queue[g][o] # <<>>, Return(g, o, queue)
  PROVE  Unpaid(x)'
<1>1. queue \in Queues /\ \A h \in PaidGroups : queue[h][x] = <<>>
  BY DEF TypeOK, Queues, Unpaid, QueuesUnpaid
<1>2. QED
  BY <1>1, ReturnUnpaid

\* The same for a worker that starts
LEMMA StartUnpaid ==
  ASSUME TypeOK, NEW x \in Orders, Unpaid(x), DataUnpaid(x)', QueuesUnpaid(x)',
         NEW w \in Workers, NEW o \in Orders, NEW t \in Task, Goto(w, o, t),
         t.row.status # "PAID" \/ o # x, w # "user-order-payment"
  PROVE  Unpaid(x)'
  BY GotoUnpaid DEF Unpaid, TypeOK, Tasks

\* The topics that do not tell of a payment
LEMMA UnpaidTopics ==
  ASSUME NEW topic \in {"order.processing", "order.processing.stock.success",
                        "order.processing.coupon.success", "order.processing.success",
                        "order.processing.fail", "order.payment", "order.payment.fail"}
  PROVE  Subscribers(topic) \cap PaidGroups = {}
  BY DEF Subscribers, PaidGroups

\* The request pays nothing.
LEMMA RequestUnpaid ==
  ASSUME TypeOK, NEW x \in Orders, Unpaid(x), NEW o \in Orders, Request(o)
  PROVE  Unpaid(x)'
<1>0. DataUnpaid(x) /\ QueuesUnpaid(x) /\ TasksUnpaid(x) /\ queue \in Queues
  BY DEF Unpaid, TypeOK, Queues
<1>1. CASE BeginPayment(o)
  <2>1. BeginPaymentProcessing(orders[o]) \in Row
        /\ BeginPaymentProcessing(orders[o]).status = "PAYMENT_PROCESSING"
    BY DEF TypeOK, BeginPaymentProcessing, Row, OrderStatus
  <2> DEFINE t == Holding("update", BeginPaymentProcessing(orders[o]))
  <2>2. t \in Task /\ t.row.status # "PAID"
    BY <2>1 DEF Holding, Task, PC
  <2>3. DataUnpaid(x)' /\ QueuesUnpaid(x)'
    BY <1>0, <1>1 DEF BeginPayment, DataUnpaid, QueuesUnpaid, dataVars, rowVars, sinkVars
  <2>4. Goto("client", o, t)
    BY <1>1 DEF BeginPayment
  <2>5. QED
    BY <2>2, <2>3, <2>4, StartUnpaid
<1>2. CASE MarkProcessing(o)
  <2>1. [Idle EXCEPT !.pc = "publish"] \in Task
        /\ [Idle EXCEPT !.pc = "publish"].row = Idle.row
    BY IdleType DEF Task, PC
  <2>2. o = x => task["client"][o].row.status # "PAID"
    BY <1>0 DEF TasksUnpaid
  <2>3. DataUnpaid(x)' /\ QueuesUnpaid(x)'
    BY <1>0, <1>2, <2>2
    DEF MarkProcessing, DataUnpaid, QueuesUnpaid, TypeOK, sinkVars
  <2>4. QED
    BY <1>2, <2>1, <2>3, StartUnpaid, IdleIsUnpaid DEF MarkProcessing
<1>3. CASE PublishProcessing(o)
  <2>1. DataUnpaid(x)'
    BY <1>0, <1>3 DEF PublishProcessing, DataUnpaid, dataVars, rowVars, sinkVars
  <2>2. QueuesUnpaid(x)'
    <3>1. PICK c \in MaybeCoupon : queue' = Published("order.processing", o, Msg(c))
      BY <1>3 DEF PublishProcessing
    <3>2. QED
      BY <1>0, <3>1, PublishedUnpaid, UnpaidTopics DEF QueuesUnpaid
  <2>3. QED
    BY <1>3, <2>1, <2>2, StartUnpaid, IdleType, IdleIsUnpaid DEF PublishProcessing
<1>4. CASE RequestFails(o)
  <2>1. DataUnpaid(x)' /\ QueuesUnpaid(x)'
    BY <1>0, <1>4
    DEF RequestFails, DataUnpaid, QueuesUnpaid, dataVars, rowVars, sinkVars
  <2>2. QED
    BY <1>4, <2>1, StartUnpaid, IdleType, IdleIsUnpaid DEF RequestFails
<1>5. QED
  BY <1>1, <1>2, <1>3, <1>4 DEF Request

\* Rows, logs and sinks that do not change stay unpaid.
LEMMA SameDataUnpaid ==
  ASSUME NEW x \in Orders, Unpaid(x), UNCHANGED <<rowVars, sinkVars>>
  PROVE  DataUnpaid(x)'
  BY DEF Unpaid, DataUnpaid, rowVars, sinkVars

\* The coordinator pays nothing.
LEMMA AggregateUnpaid ==
  ASSUME TypeOK, NEW x \in Orders, Unpaid(x), NEW o \in Orders, Aggregate(o)
  PROVE  Unpaid(x)'
<1>0. "get" \in PC /\ queue \in Queues
  BY DEF PC, TypeOK, Queues
<1>1. CASE InitCoordinator(o)
  <2>1. DataUnpaid(x)'
    BY <1>1, SameDataUnpaid DEF InitCoordinator
  <2>2. QED
    BY <1>1, <2>1, ReturnQuietlyUnpaid DEF InitCoordinator, At, Groups
<1>2. ASSUME NEW g \in MarkGroups, MarkOk(g, o)
      PROVE  Unpaid(x)'
  <2>1. DataUnpaid(x)'
    BY <1>2, SameDataUnpaid DEF MarkOk
  <2>2. g \in Groups /\ queue[g][o] # <<>>
    BY <1>2 DEF MarkOk, At, Groups
  <2>3. CASE Continue(g, o, "get")
    BY <1>0, <2>1, <2>2, <2>3, ContinueUnpaid
  <2>4. CASE Return(g, o, queue)
    BY <2>1, <2>2, <2>4, ReturnQuietlyUnpaid
  <2>5. QED
    BY <1>2, <2>3, <2>4 DEF MarkOk
<1>3. ASSUME NEW g \in MarkGroups, PublishReady(g, o)
      PROVE  Unpaid(x)'
  <2>1. DataUnpaid(x)'
    BY <1>3, SameDataUnpaid DEF PublishReady, dataVars
  <2>2. g \in Groups /\ queue[g][o] # <<>>
    BY <1>3 DEF PublishReady, At, Groups
  <2>3. CASE store[o].inited
    <3> DEFINE m == [Msg(store[o].coupon) EXCEPT !.applied = store[o].applied]
               t == [Idle EXCEPT !.pc = "clear"]
    <3>1. queue' = Published("order.processing.success", o, m) /\ Goto(g, o, t)
      BY <1>3, <2>3 DEF PublishReady
    <3>2. QueuesUnpaid(x)'
      BY <1>0, <3>1, PublishedUnpaid, UnpaidTopics DEF QueuesUnpaid, Unpaid
    <3>3. t \in Task /\ t.row = Idle.row
      BY IdleType DEF Task, PC
    <3>4. QED
      BY <2>1, <2>2, <3>1, <3>2, <3>3, StartUnpaid, IdleIsUnpaid DEF MarkGroups
  <2>4. CASE ~store[o].inited
    BY <1>3, <2>1, <2>2, <2>4, ReturnQuietlyUnpaid DEF PublishReady
  <2>5. QED
    BY <2>3, <2>4
<1>4. ASSUME NEW g \in Groups, ClearStore(g, o)
      PROVE  Unpaid(x)'
  <2>1. DataUnpaid(x)'
    BY <1>4, SameDataUnpaid DEF ClearStore
  <2>2. QED
    BY <1>4, <2>1, ReturnQuietlyUnpaid DEF ClearStore, At
<1>5. QED
  BY <1>1, <1>2, <1>3, <1>4 DEF Aggregate, Groups, MarkGroups, OrderFailGroups

\* An item confirmed or restored pays nothing.
LEMMA ItemDoneUnpaid ==
  ASSUME TypeOK, NEW x \in Orders, Unpaid(x), NEW g \in Groups, NEW o \in Orders,
         ItemDone(g, o, DecreaseStock) \/ ItemDone(g, o, RestoreStock),
         g # "user-order-payment",
         UNCHANGED <<rowVars, sinkVars, queue>>
  PROVE  Unpaid(x)'
<1> DEFINE t == Doing("update", task[g][o].done + 1)
<1>1. t \in Task /\ t.row.status # "PAID"
  BY IdleType DEF Doing, TypeOK, Task, PC, PendingRow
<1>2. Goto(g, o, t)
  BY DEF ItemDone
<1>3. DataUnpaid(x)' /\ QueuesUnpaid(x)'
  BY SameDataUnpaid DEF Unpaid, QueuesUnpaid
<1>4. QED
  BY <1>1, <1>2, <1>3, StartUnpaid

\* The stock's handler pays nothing.
LEMMA ProcessStockUnpaid ==
  ASSUME TypeOK, NEW x \in Orders, Unpaid(x), NEW o \in Orders, ProcessStock(o)
  PROVE  Unpaid(x)'
<1> DEFINE g == "product-order-processing"
<1>0. g \in Groups
  BY DEF Groups
<1>1. CASE ConfirmStock(o)
  BY <1>0, <1>1, ItemDoneUnpaid DEF ConfirmStock
<1>2. CASE StockConfirmed(o)
  <2>1. DataUnpaid(x)' /\ queue[g][o] # <<>>
    BY <1>2, SameDataUnpaid DEF StockConfirmed, At, dataVars
  <2>2. QED
    BY <1>0, <1>2, <2>1, MessagesType, PublishUnpaid, UnpaidTopics DEF StockConfirmed
<1>3. CASE ConfirmStockFails(o)
  <2>1. DataUnpaid(x)' /\ queue[g][o] # <<>>
    BY <1>3, SameDataUnpaid DEF ConfirmStockFails, At, dataVars
  <2>2. QED
    BY <1>0, <1>3, <2>1, MessagesType, PublishUnpaid, UnpaidTopics
    DEF ConfirmStockFails
<1>4. QED
  BY <1>1, <1>2, <1>3 DEF ProcessStock

\* The coupon's handler pays nothing.
LEMMA ProcessCouponUnpaid ==
  ASSUME TypeOK, NEW x \in Orders, Unpaid(x), NEW o \in Orders, ProcessCoupon(o)
  PROVE  Unpaid(x)'
<1> DEFINE g == "coupon-order-processing"
<1>0. /\ g \in Groups /\ g # "user-order-payment"
      /\ {"create", "publish", "cancelCheck", "cancel"} \subseteq PC
  BY DEF Groups, PC
<1>1. queue[g][o] # <<>>
  BY DEF ProcessCoupon, SkipCoupon, UseCoupon, UseCouponFails, CreateUserCoupon,
         CouponUsed, RecordCouponFails, CancelCheck, CancelUse, At
<1>2. DataUnpaid(x)'
  BY SameDataUnpaid
  DEF ProcessCoupon, SkipCoupon, UseCoupon, UseCouponFails, CreateUserCoupon,
      CouponUsed, RecordCouponFails, CancelCheck, CancelUse, dataVars
<1>3. CASE SkipCoupon(o)
  BY <1>0, <1>1, <1>2, <1>3, ReturnQuietlyUnpaid DEF SkipCoupon
<1>4. CASE UseCoupon(o)
  BY <1>0, <1>2, <1>4, ContinueUnpaid DEF UseCoupon
<1>5. CASE UseCouponFails(o)
  BY <1>0, <1>2, <1>5, ContinueUnpaid DEF UseCouponFails
<1>6. CASE CreateUserCoupon(o)
  BY <1>0, <1>2, <1>6, ContinueUnpaid DEF CreateUserCoupon
<1>7. CASE CouponUsed(o)
  BY <1>0, <1>1, <1>2, <1>7, MessagesType, PublishUnpaid, UnpaidTopics DEF CouponUsed
<1>8. CASE RecordCouponFails(o)
  BY <1>0, <1>2, <1>8, ContinueUnpaid DEF RecordCouponFails
<1>9. CASE CouponProcessingFailed(o)
  BY <1>0, <1>1, <1>2, <1>9, MessagesType, PublishUnpaid, UnpaidTopics
  DEF CouponProcessingFailed
<1>10. CASE CancelCheck(o)
  BY <1>0, <1>2, <1>9, <1>10, ContinueUnpaid DEF CancelCheck
<1>11. CASE CancelUse(o)
  BY <1>9, <1>11 DEF CancelUse
<1>12. QED
  BY <1>3, <1>4, <1>5, <1>6, <1>7, <1>8, <1>10, <1>11 DEF ProcessCoupon

\* The write of a row: it is not a PAID one as long as nothing was deducted.
LEMMA WriteRowUnpaid ==
  ASSUME TypeOK, NEW x \in Orders, Unpaid(x), NEW w \in Workers, NEW o \in Orders,
         orders' = [orders EXCEPT ![o] = task[w][o].row], UNCHANGED sinkVars
  PROVE  DataUnpaid(x)'
  BY DEF Unpaid, DataUnpaid, TasksUnpaid, TypeOK, sinkVars

\* The order's handlers pay only what was deducted.
LEMMA ProcessOrderUnpaid ==
  ASSUME TypeOK, NEW x \in Orders, Unpaid(x), NEW o \in Orders, ProcessOrder(o)
  PROVE  Unpaid(x)'
<1> DEFINE g == "order-processing-success"
           h == "order-payment-success"
<1>0. /\ {g, h} \subseteq Groups /\ {"update", "publish", "clear"} \subseteq PC
      /\ queue \in Queues /\ orders[o] \in Row /\ queue[h][x] = <<>>
      /\ NoCoupon \in MaybeCoupon
  BY DEF TypeOK, Queues, Groups, PC, Unpaid, QueuesUnpaid, PaidGroups, MaybeCoupon
<1>1. CASE ReadForPayment(o)
  <2>1. queue[g][o] # <<>> /\ DataUnpaid(x)'
    BY <1>1, SameDataUnpaid DEF ReadForPayment, At, dataVars
  <2>2. CASE Return(g, o, queue)
    BY <1>0, <2>1, <2>2, ReturnQuietlyUnpaid
  <2>3. ASSUME orders[o].status = "PAYMENT_PROCESSING",
               NEW p \in PC, NEW row \in {orders[o], ApplyCoupon(orders[o], Received(g, o).applied)},
               Goto(g, o, Holding(p, row)), UNCHANGED queue
        PROVE  Unpaid(x)'
    <3>1. row \in Row
      BY <1>0, <2>1, <2>3, MessagesType, RowType
    <3>2. row.status = "PAYMENT_PROCESSING"
      BY <1>0, <2>3 DEF ApplyCoupon, Row
    <3>3. Holding(p, row) \in Task /\ Holding(p, row).row.status # "PAID"
      BY <3>1, <3>2, HoldingType DEF Holding
    <3>4. QueuesUnpaid(x)'
      BY <2>3 DEF Unpaid, QueuesUnpaid
    <3>5. QED
      BY <1>0, <2>1, <2>3, <3>3, <3>4, StartUnpaid
  <2>4. QED
    BY <1>0, <1>1, <2>2, <2>3 DEF ReadForPayment
<1>2. CASE WriteDiscount(o)
  <2>1. DataUnpaid(x)'
    BY <1>0, <1>2, WriteRowUnpaid DEF WriteDiscount
  <2>2. QED
    BY <1>0, <1>2, <2>1, ContinueUnpaid DEF WriteDiscount
<1>3. CASE PublishPayment(o)
  <2> DEFINE m == [Msg(Received(g, o).coupon) EXCEPT !.amount = AmountDue(o)]
             t == [Idle EXCEPT !.pc = "clear"]
  <2>1. queue[g][o] # <<>> /\ DataUnpaid(x)'
    BY <1>3, SameDataUnpaid DEF PublishPayment, At, dataVars
  <2>2. queue' = Published("order.payment", o, m) /\ Goto(g, o, t)
    BY <1>3 DEF PublishPayment
  <2>3. QueuesUnpaid(x)'
    BY <1>0, <2>2, PublishedUnpaid, UnpaidTopics DEF QueuesUnpaid, Unpaid
  <2>4. t \in Task /\ t.row = Idle.row
    BY <1>0, IdleType DEF Task
  <2>5. QED
    BY <1>0, <2>1, <2>2, <2>3, <2>4, StartUnpaid, IdleIsUnpaid
<1>4. ASSUME ReadForCompletion(o) \/ WritePaid(o) \/ PublishProcessed(o)
      PROVE  o # x
  BY <1>0, <1>4 DEF ReadForCompletion, WritePaid, PublishProcessed, At
<1>5. CASE ReadForCompletion(o)
  <2>1. queue[h][o] # <<>> /\ DataUnpaid(x)'
    BY <1>5, SameDataUnpaid DEF ReadForCompletion, At, dataVars
  <2>2. CASE Continue(h, o, "publish")
    BY <1>0, <2>1, <2>2, ContinueUnpaid
  <2>3. CASE Goto(h, o, Holding("update", CompletePayment(orders[o])))
             /\ UNCHANGED <<queue, redeliveries>>
    <3>1. Holding("update", CompletePayment(orders[o])) \in Task
      BY <1>0, RowType, HoldingType
    <3>2. QueuesUnpaid(x)'
      BY <2>3 DEF Unpaid, QueuesUnpaid
    <3>3. QED
      BY <1>0, <1>4, <1>5, <2>1, <2>3, <3>1, <3>2, StartUnpaid
  <2>4. CASE Return(h, o, queue)
    BY <1>0, <2>1, <2>4, ReturnQuietlyUnpaid
  <2>5. QED
    BY <1>5, <2>2, <2>3, <2>4 DEF ReadForCompletion
<1>6. CASE WritePaid(o)
  <2>1. DataUnpaid(x)' /\ QueuesUnpaid(x)'
    BY <1>0, <1>6, WriteRowUnpaid DEF WritePaid, Unpaid, QueuesUnpaid
  <2>2. [Idle EXCEPT !.pc = "publish"] \in Task
    BY <1>0, IdleType DEF Task
  <2>3. QED
    BY <1>0, <1>4, <1>6, <2>1, <2>2, StartUnpaid DEF WritePaid
<1>7. CASE PublishProcessed(o)
  <2>1. queue[h][o] # <<>> /\ DataUnpaid(x)'
    BY <1>7, SameDataUnpaid DEF PublishProcessed, At, dataVars
  <2>2. QED
    BY <1>0, <1>4, <1>7, <2>1, MessagesType, PublishUnpaid DEF PublishProcessed
<1>8. QED
  BY <1>1, <1>2, <1>3, <1>5, <1>6, <1>7 DEF ProcessOrder

\* Here is where the evidence comes from: a deduction for x ends the case.
LEMMA ProcessPaymentUnpaid ==
  ASSUME TypeOK, NEW x \in Orders, Unpaid(x), NEW o \in Orders, ProcessPayment(o),
         logs'[x] = <<>>
  PROVE  Unpaid(x)'
<1> DEFINE g == "user-order-payment"
<1>0. g \in Groups /\ "publish" \in PC
  BY DEF Groups, PC
<1>1. queue[g][o] # <<>> /\ DataUnpaid(x)'
  BY SameDataUnpaid
  DEF ProcessPayment, DeductBalance, PaymentSucceeded, PaymentFailed, At, dataVars
<1>2. CASE DeductBalance(o)
  <2>1. o # x
    <3>1. logs[o] \in Seq(Nat \ {0})
      BY DEF TypeOK
    <3>2. Append(logs[o], Received(g, o).amount) # <<>>
      BY <3>1
    <3>3. QED
      BY <1>2, <3>2 DEF DeductBalance, TypeOK
  <2>2. QED
    BY <1>0, <1>1, <1>2, <2>1, ContinueUnpaid DEF DeductBalance
<1>3. CASE PaymentSucceeded(o)
  <2>1. o # x
    BY <1>3 DEF PaymentSucceeded, At, Unpaid, TasksUnpaid
  <2>2. QED
    BY <1>0, <1>1, <1>3, <2>1, MessagesType, PublishUnpaid DEF PaymentSucceeded
<1>4. CASE PaymentFailed(o)
  BY <1>0, <1>1, <1>4, MessagesType, PublishUnpaid, UnpaidTopics DEF PaymentFailed
<1>5. QED
  BY <1>2, <1>3, <1>4 DEF ProcessPayment

\* A compensation pays nothing.
LEMMA CompensateUnpaid ==
  ASSUME TypeOK, NEW x \in Orders, Unpaid(x), NEW o \in Orders, Compensate(o)
  PROVE  Unpaid(x)'
<1>0. /\ OrderFailGroups \cup ProductFailGroups \cup CouponFailGroups
            \subseteq Groups \ {"user-order-payment"}
      /\ {"update", "clear", "cancel", "delete"} \subseteq PC
      /\ [Idle EXCEPT !.pc = "clear"] \in Task
      /\ [Idle EXCEPT !.pc = "clear"].row = Idle.row
  BY IdleType
  DEF OrderFailGroups, ProductFailGroups, CouponFailGroups, Groups, PC, Task
<1>1. ASSUME NEW g \in OrderFailGroups, queue[g][o] # <<>>, AfterCancel(g, o),
             DataUnpaid(x)'
      PROVE  Unpaid(x)'
  <2>1. CASE Return(g, o, queue)
    BY <1>0, <1>1, <2>1, ReturnQuietlyUnpaid
  <2>2. CASE Goto(g, o, [Idle EXCEPT !.pc = "clear"]) /\ UNCHANGED <<queue, redeliveries>>
    <3>1. QueuesUnpaid(x)'
      BY <2>2 DEF Unpaid, QueuesUnpaid
    <3>2. QED
      BY <1>0, <1>1, <2>2, <3>1, StartUnpaid, IdleIsUnpaid
  <2>3. QED
    BY <1>1, <2>1, <2>2 DEF AfterCancel
<1>2. ASSUME NEW g \in OrderFailGroups, ReadForCancel(g, o)
      PROVE  Unpaid(x)'
  <2>1. queue[g][o] # <<>> /\ DataUnpaid(x)'
    BY <1>2, SameDataUnpaid DEF ReadForCancel, At, dataVars
  <2>2. CASE Cancellable(orders[o])
    <3> DEFINE t == Holding("update", CancelPayment(orders[o]))
    <3>1. t \in Task
      BY <1>0, RowType, HoldingType DEF MaybeCoupon
    <3>2. t.row.status # "PAID"
      BY DEF Holding, CancelPayment, TypeOK, Row
    <3>3. QueuesUnpaid(x)'
      BY <1>2, <2>2 DEF ReadForCancel, Unpaid, QueuesUnpaid
    <3>4. QED
      BY <1>0, <1>2, <2>1, <2>2, <3>1, <3>2, <3>3, StartUnpaid DEF ReadForCancel
  <2>3. CASE ~Cancellable(orders[o])
    BY <1>1, <1>2, <2>1, <2>3 DEF ReadForCancel
  <2>4. QED
    BY <2>2, <2>3
<1>3. ASSUME NEW g \in OrderFailGroups, WriteCancel(g, o)
      PROVE  Unpaid(x)'
  <2>1. queue[g][o] # <<>> /\ DataUnpaid(x)'
    BY <1>0, <1>3, WriteRowUnpaid DEF WriteCancel, At
  <2>2. QED
    BY <1>1, <1>3, <2>1 DEF WriteCancel
<1>4. ASSUME NEW g \in OrderFailGroups, CancelFails(g, o)
      PROVE  Unpaid(x)'
  <2>1. queue[g][o] # <<>> /\ DataUnpaid(x)'
    BY <1>4, SameDataUnpaid DEF CancelFails, At, dataVars
  <2>2. QED
    BY <1>1, <1>4, <2>1 DEF CancelFails
<1>5. ASSUME NEW g \in ProductFailGroups, RestoreItem(g, o)
      PROVE  Unpaid(x)'
  BY <1>0, <1>5, ItemDoneUnpaid DEF RestoreItem
<1>6. ASSUME NEW g \in ProductFailGroups, StockRestored(g, o)
      PROVE  Unpaid(x)'
  <2>1. queue[g][o] # <<>> /\ DataUnpaid(x)'
    BY <1>6, SameDataUnpaid DEF StockRestored, At, dataVars
  <2>2. QED
    BY <1>0, <1>6, <2>1, ReturnQuietlyUnpaid DEF StockRestored
<1>7. ASSUME NEW g \in CouponFailGroups,
             SkipRelease(g, o) \/ ReleaseCheck(g, o) \/ ReleaseUse(g, o)
               \/ DeleteUserCoupon(g, o)
      PROVE  Unpaid(x)'
  <2>1. queue[g][o] # <<>> /\ DataUnpaid(x)'
    BY <1>7, SameDataUnpaid
    DEF SkipRelease, ReleaseCheck, ReleaseUse, DeleteUserCoupon, At, dataVars
  <2>2. CASE Return(g, o, queue)
    BY <1>0, <2>1, <2>2, ReturnQuietlyUnpaid
  <2>3. ASSUME NEW p \in {"delete", "cancel"}, Continue(g, o, p)
        PROVE  Unpaid(x)'
    BY <1>0, <2>1, <2>3, ContinueUnpaid
  <2>4. QED
    BY <1>7, <2>2, <2>3 DEF SkipRelease, ReleaseCheck, ReleaseUse, DeleteUserCoupon
<1>8. QED
  BY <1>2, <1>3, <1>4, <1>5, <1>6, <1>7 DEF Compensate

\* Export and ranking tell of no unpaid order.
LEMMA FinishUnpaid ==
  ASSUME TypeOK, NEW x \in Orders, Unpaid(x), NEW o \in Orders, Finish(o)
  PROVE  Unpaid(x)'
<1> DEFINE g == "external-platform-redis-group"
           h == "product-order-processed"
<1>0. {g, h} \subseteq Groups /\ {g, h} \subseteq PaidGroups
  BY DEF Groups, PaidGroups
<1>1. CASE ExportOrder(o)
  <2>1. o # x /\ queue[g][o] # <<>>
    BY <1>0, <1>1 DEF ExportOrder, At, Unpaid, QueuesUnpaid
  <2>2. DataUnpaid(x)'
    BY <1>1, <2>1 DEF ExportOrder, Unpaid, DataUnpaid, rowVars, TypeOK
  <2>3. QED
    BY <1>0, <1>1, <2>1, <2>2, ReturnQuietlyUnpaid DEF ExportOrder
<1>2. CASE RecordSales(o)
  <2>1. o # x /\ queue[h][o] # <<>>
    BY <1>0, <1>2 DEF RecordSales, At, Unpaid, QueuesUnpaid
  <2>2. DataUnpaid(x)'
    BY <1>2, <2>1 DEF RecordSales, Unpaid, DataUnpaid, rowVars, TypeOK
  <2>3. QED
    BY <1>0, <1>2, <2>1, <2>2, ReturnQuietlyUnpaid DEF RecordSales
<1>3. QED
  BY <1>1, <1>2 DEF Finish

\* A lapse, an exception and a redelivery pay nothing.
LEMMA FailureUnpaid ==
  ASSUME TypeOK, NEW x \in Orders, Unpaid(x), NEW o \in Orders,
         Expire(o) \/ \E g \in Groups : Swallow(g, o) \/ Crash(g, o)
  PROVE  Unpaid(x)'
<1>1. ASSUME NEW g \in Groups, Swallow(g, o)
      PROVE  Unpaid(x)'
  <2>1. queue[g][o] # <<>> /\ DataUnpaid(x)'
    BY <1>1, SameDataUnpaid DEF Swallow, dataVars
  <2>2. QED
    BY <1>1, <2>1, ReturnQuietlyUnpaid DEF Swallow
<1>2. ASSUME NEW g \in Groups, Crash(g, o)
      PROVE  Unpaid(x)'
  <2>1. DataUnpaid(x)' /\ QueuesUnpaid(x)'
    BY <1>2, SameDataUnpaid DEF Crash, dataVars, Unpaid, QueuesUnpaid
  <2>2. TasksUnpaid(x)'
    BY <1>2, IdleType, IdleIsUnpaid, GotoUnpaid DEF Crash, Unpaid, TypeOK, Tasks
  <2>3. QED
    BY <2>1, <2>2 DEF Unpaid
<1>3. CASE Expire(o)
  BY <1>3 DEF Expire, Unpaid, DataUnpaid, QueuesUnpaid, TasksUnpaid, sinkVars
<1>4. QED
  BY <1>1, <1>2, <1>3

\* DeductBalance is the only step that writes the balance log.
LEMMA OtherStepsKeepLogs ==
  ASSUME NEW o \in Orders,
         \/ Request(o) \/ Aggregate(o) \/ ProcessStock(o) \/ ProcessCoupon(o)
         \/ ProcessOrder(o) \/ PaymentSucceeded(o) \/ PaymentFailed(o)
         \/ Compensate(o) \/ Finish(o)
         \/ (\E g \in Groups : Swallow(g, o) \/ Crash(g, o)) \/ Expire(o)
  PROVE  logs' = logs
<1>1. ASSUME Request(o) \/ Aggregate(o)
      PROVE  logs' = logs
  BY <1>1
  DEF Request, BeginPayment, MarkProcessing, PublishProcessing, RequestFails,
      Aggregate, InitCoordinator, MarkOk, PublishReady, ClearStore,
      dataVars, balanceVars
<1>2. ASSUME ProcessStock(o) \/ ProcessCoupon(o)
      PROVE  logs' = logs
  BY <1>2
  DEF ProcessStock, ConfirmStock, StockConfirmed, ConfirmStockFails,
      ProcessCoupon, SkipCoupon, UseCoupon, UseCouponFails, CreateUserCoupon,
      CouponUsed, RecordCouponFails, CancelCheck, CancelUse, dataVars, balanceVars
<1>3. ASSUME ProcessOrder(o) \/ PaymentSucceeded(o) \/ PaymentFailed(o)
      PROVE  logs' = logs
  BY <1>3
  DEF ProcessOrder, ReadForPayment, WriteDiscount, PublishPayment,
      ReadForCompletion, WritePaid, PublishProcessed,
      PaymentSucceeded, PaymentFailed, dataVars, balanceVars
<1>4. ASSUME Compensate(o) \/ Finish(o)
      PROVE  logs' = logs
  BY <1>4
  DEF Compensate, ReadForCancel, WriteCancel, CancelFails, RestoreItem,
      StockRestored, SkipRelease, ReleaseCheck, ReleaseUse, DeleteUserCoupon,
      Finish, ExportOrder, RecordSales, dataVars, balanceVars
<1>5. ASSUME (\E g \in Groups : Swallow(g, o) \/ Crash(g, o)) \/ Expire(o)
      PROVE  logs' = logs
  BY <1>5 DEF Swallow, Crash, Expire, dataVars, balanceVars
<1>6. QED
  BY <1>1, <1>2, <1>3, <1>4, <1>5

\* A step keeps every order without a deduction unpaid.
LEMMA UndeductedStep ==
  ASSUME TypeOK, UndeductedIsUnpaid, Next
  PROVE  UndeductedIsUnpaid'
<1> SUFFICES ASSUME NEW x \in Orders, logs'[x] = <<>>
             PROVE  Unpaid(x)'
  BY DEF UndeductedIsUnpaid
<1> PICK o \in Orders :
      \/ Request(o) \/ Aggregate(o) \/ ProcessStock(o) \/ ProcessCoupon(o)
      \/ ProcessOrder(o) \/ ProcessPayment(o) \/ Compensate(o) \/ Finish(o)
      \/ \E g \in Groups : Swallow(g, o) \/ Crash(g, o)
      \/ Expire(o)
  BY DEF Next
<1>1. logs[x] = <<>>
  <2>1. CASE DeductBalance(o)
    <3>1. logs[o] \in Seq(Nat \ {0})
      BY DEF TypeOK
    <3>2. Append(logs[o], Received("user-order-payment", o).amount) # <<>>
      BY <3>1
    <3>3. QED
      BY <2>1, <3>2 DEF DeductBalance, TypeOK
  <2>2. CASE ~DeductBalance(o)
    BY <2>2, OtherStepsKeepLogs DEF ProcessPayment
  <2>3. QED
    BY <2>1, <2>2
<1>2. Unpaid(x)
  BY <1>1 DEF UndeductedIsUnpaid
<1>3. QED
  BY <1>2, RequestUnpaid, AggregateUnpaid, ProcessStockUnpaid, ProcessCouponUnpaid,
     ProcessOrderUnpaid, ProcessPaymentUnpaid, CompensateUnpaid, FinishUnpaid,
     FailureUnpaid

\* An order without a deduction is unpaid throughout.
LEMMA UndeductedAreUnpaid == Spec => []UndeductedIsUnpaid
<1>1. Init => UndeductedIsUnpaid
  BY DEF Init, UndeductedIsUnpaid, Unpaid, DataUnpaid, QueuesUnpaid, TasksUnpaid,
         PaidGroups, Groups, PendingRow, Idle
<1>2. TypeOK /\ UndeductedIsUnpaid /\ [Next]_vars => UndeductedIsUnpaid'
  <2>1. TypeOK /\ UndeductedIsUnpaid /\ Next => UndeductedIsUnpaid'
    BY UndeductedStep
  <2>2. UndeductedIsUnpaid /\ UNCHANGED vars => UndeductedIsUnpaid'
    BY DEF UndeductedIsUnpaid, Unpaid, DataUnpaid, QueuesUnpaid, TasksUnpaid,
           vars, dataVars, rowVars, balanceVars, sinkVars
  <2>3. QED
    BY <2>1, <2>2
<1>3. QED
  BY <1>1, <1>2, TypeCorrect, PTL DEF Spec

\* Whatever fails, is delivered again or is tried again, an order is PAID,
\* exported or counted in the sales ranking only after deductBalance has
\* taken money for it.
THEOREM PaidOnlyAfterDeduction == Spec => []PaidImpliesDeducted
<1>1. UndeductedIsUnpaid => PaidImpliesDeducted
  BY DEF UndeductedIsUnpaid, Unpaid, DataUnpaid, PaidImpliesDeducted
<1>2. QED
  BY <1>1, UndeductedAreUnpaid, PTL
-----------------------------------------------------------------------------
(***************************************************************************)
(* One accepted payment request is worth one deduction.  Follow the right  *)
(* to take the money as a token: the request has it, then the messages     *)
(* that lead to the deduction, then the coordinator's hash, and at last    *)
(* the balance log.  No step makes a second token of one; only a message   *)
(* that is delivered again brings one back.                                *)
(***************************************************************************)
One(b) == IF b THEN 1 ELSE 0

Waiting(g, o) == Len(queue[g][o])

\* The token of a payment request
RequestToken(o) == One(task["client"][o].pc # "idle")

\* The groups whose messages stand for a token, and their last step: a
\* handler there has spent its message and not committed it yet.
BusyGroups == {"order-order-processing-stock-success", "order-processing-success",
               "user-order-payment"}

LastStep(g) == IF g = "user-order-payment" THEN "publish" ELSE "clear"

HandlerTokens(g, o) == Waiting(g, o) - One(task[g][o].pc = LastStep(g))

\* The stock success that the hash keeps until the coupon's comes
StoreToken(o) == One(store[o].stockOk /\ ~store[o].emitted)

\* The coupon's handler has taken it out of the hash.
CouponToken(o) == One(task["order-order-processing-coupon-success"][o].pc = "get")

\* Before the aggregation, in it, and after it
Asked(o) ==
  RequestToken(o) + Waiting("product-order-processing", o)
    + HandlerTokens("order-order-processing-stock-success", o)

Joined(o) ==
  StoreToken(o) + CouponToken(o) + HandlerTokens("order-processing-success", o)

Deductions(o) == Len(logs[o])

Charged(o) == HandlerTokens("user-order-payment", o) + Deductions(o)

Tokens(o) == Asked(o) + Joined(o) + Charged(o)

\* A handler that is at work has a message.
BusyHasMessage(o) ==
  \A g \in BusyGroups : task[g][o].pc # "idle" => Waiting(g, o) > 0

TokenBound(o) == BusyHasMessage(o) /\ Tokens(o) <= attempts[o] + redeliveries

TokensBounded == \A o \in Orders : TokenBound(o)

\* What a step may do to the tokens of an order
NoTokenMade(o) ==
  /\ BusyHasMessage(o)'
  /\ Tokens(o)' + attempts[o] + redeliveries <= Tokens(o) + attempts'[o] + redeliveries'
-----------------------------------------------------------------------------
(***************************************************************************)
(* What the helpers of the handlers do to the number of messages.          *)
(***************************************************************************)
QueueGroups == BusyGroups \cup {"product-order-processing"}

CouponGroup == "order-order-processing-coupon-success"

USE DEF Workers, QueueGroups, CouponGroup, BusyGroups

\* The messages waiting and the rows of the log are counts.
LEMMA WaitingType ==
  ASSUME TypeOK
  PROVE  /\ \A g \in Groups, x \in Orders :
              Waiting(g, x) \in Nat /\ (queue[g][x] # <<>> <=> Waiting(g, x) > 0)
         /\ \A x \in Orders : Len(logs[x]) \in Nat
         /\ redeliveries \in Nat /\ attempts \in [Orders -> Nat]
         /\ QueueGroups \cup {CouponGroup} \subseteq Groups
<1>1. ASSUME NEW g \in Groups, NEW x \in Orders
      PROVE  Waiting(g, x) \in Nat /\ (queue[g][x] # <<>> <=> Waiting(g, x) > 0)
  <2>1. queue[g][x] \in Seq(Message)
    BY DEF TypeOK
  <2>2. QED
    BY <2>1 DEF Waiting
<1>2. ASSUME NEW x \in Orders
      PROVE  Len(logs[x]) \in Nat
  <2>1. logs[x] \in Seq(Nat \ {0})
    BY DEF TypeOK
  <2>2. QED
    BY <2>1
<1>3. redeliveries \in Nat /\ attempts \in [Orders -> Nat]
  BY DEF TypeOK
<1>4. QueueGroups \cup {CouponGroup} \subseteq Groups
  BY DEF Groups, MarkGroups
<1>5. QED
  BY <1>1, <1>2, <1>3, <1>4

\* A worker that goes on changes its own task only.
LEMMA GotoEffect ==
  ASSUME TypeOK, NEW w \in Workers, NEW o \in Orders, NEW t, Goto(w, o, t)
  PROVE  /\ task'[w][o] = t
         /\ \A v \in Workers, x \in Orders :
              v # w \/ x # o => task'[v][x] = task[v][x]
  BY DEF Goto, TypeOK

\* A handler that returns is idle; its message is taken, or comes again.
LEMMA ReturnEffect ==
  ASSUME TypeOK, NEW g \in Groups, NEW o \in Orders, NEW q \in Queues,
         q[g][o] # <<>>, Return(g, o, q)
  PROVE  /\ task'[g][o].pc = "idle"
         /\ \A v \in Workers, x \in Orders :
              v # g \/ x # o => task'[v][x] = task[v][x]
         /\ \A h \in Groups, x \in Orders :
              h # g \/ x # o => Len(queue'[h][x]) = Len(q[h][x])
         /\ \/ /\ Len(queue'[g][o]) = Len(q[g][o]) - 1
               /\ redeliveries' = redeliveries
            \/ /\ Len(queue'[g][o]) = Len(q[g][o])
               /\ redeliveries' = redeliveries + 1
<1>1. /\ task'[g][o].pc = "idle"
      /\ \A v \in Workers, x \in Orders : v # g \/ x # o => task'[v][x] = task[v][x]
  <2>1. Goto(g, o, Idle) /\ g \in Workers
    BY DEF Return
  <2>2. QED
    BY <2>1, GotoEffect, IdleIsUnpaid
<1>2. CASE queue' = [q EXCEPT ![g][o] = Tail(@)] /\ UNCHANGED redeliveries
  <2>1. q[g][o] \in Seq(Message)
    BY DEF Queues
  <2>2. Len(Tail(q[g][o])) = Len(q[g][o]) - 1
    BY <2>1
  <2>3. queue'[g][o] = Tail(q[g][o])
    BY <1>2 DEF Queues
  <2>4. \A h \in Groups, x \in Orders : h # g \/ x # o => queue'[h][x] = q[h][x]
    BY <1>2 DEF Queues
  <2>5. QED
    BY <1>1, <1>2, <2>2, <2>3, <2>4
<1>3. CASE queue' = q /\ redeliveries' = redeliveries + 1
  BY <1>1, <1>3
<1>4. QED
  BY <1>2, <1>3 DEF Return

\* A publish adds one message for each subscriber of its order.
LEMMA PublishedEffect ==
  ASSUME TypeOK, NEW o \in Orders, NEW topic, NEW m \in Message
  PROVE  /\ Published(topic, o, m) \in Queues
         /\ \A g \in Groups, x \in Orders :
              /\ g \in Subscribers(topic) /\ x = o =>
                   Len(Published(topic, o, m)[g][x]) = Waiting(g, x) + 1
              /\ g \notin Subscribers(topic) \/ x # o =>
                   Len(Published(topic, o, m)[g][x]) = Waiting(g, x)
<1>1. queue \in Queues
  BY DEF TypeOK, Queues
<1>2. ASSUME NEW g \in Groups, NEW x \in Orders
      PROVE  /\ g \in Subscribers(topic) /\ x = o =>
                  Len(Published(topic, o, m)[g][x]) = Waiting(g, x) + 1
             /\ g \notin Subscribers(topic) \/ x # o =>
                  Len(Published(topic, o, m)[g][x]) = Waiting(g, x)
  <2>1. queue[g][x] \in Seq(Message) /\ queue[g] \in [Orders -> Seq(Message)]
    BY <1>1 DEF Queues
  <2>2. Len(Append(queue[g][x], m)) = Len(queue[g][x]) + 1
    BY <2>1
  <2>3. g \in Subscribers(topic) /\ x = o =>
          Published(topic, o, m)[g][x] = Append(queue[g][x], m)
    BY <2>1 DEF Published
  <2>4. x # o => Published(topic, o, m)[g][x] = queue[g][x]
    BY <2>1 DEF Published
  <2>5. g \notin Subscribers(topic) => Published(topic, o, m)[g][x] = queue[g][x]
    BY <2>1 DEF Published
  <2>6. QED
    BY <2>2, <2>3, <2>4, <2>5 DEF Waiting
<1>3. QED
  BY <1>1, <1>2, PublishedType

\* Which of the counted queues a topic feeds
LEMMA CountedSubscribers ==
  /\ Subscribers("order.processing") \cap QueueGroups = {"product-order-processing"}
  /\ Subscribers("order.processing.stock.success") \cap QueueGroups
        = {"order-order-processing-stock-success"}
  /\ Subscribers("order.processing.success") \cap QueueGroups
        = {"order-processing-success"}
  /\ Subscribers("order.payment") \cap QueueGroups = {"user-order-payment"}
  /\ \A topic \in {"order.processing.coupon.success", "order.processing.fail",
                    "order.payment.success", "order.payment.fail", "order.processed"} :
       Subscribers(topic) \cap QueueGroups = {}
  BY DEF Subscribers

\* The terms of the token count are integers, before and after a step.
LEMMA TermsType ==
  ASSUME TypeOK, TypeOK', NEW x \in Orders
  PROVE  /\ Waiting("product-order-processing", x) \in Int
         /\ Waiting("product-order-processing", x)' \in Int
         /\ HandlerTokens("order-order-processing-stock-success", x) \in Int
         /\ HandlerTokens("order-order-processing-stock-success", x)' \in Int
         /\ HandlerTokens("order-processing-success", x) \in Int
         /\ HandlerTokens("order-processing-success", x)' \in Int
         /\ HandlerTokens("user-order-payment", x) \in Int
         /\ HandlerTokens("user-order-payment", x)' \in Int
         /\ RequestToken(x) \in Int /\ RequestToken(x)' \in Int
         /\ StoreToken(x) \in Int /\ StoreToken(x)' \in Int
         /\ CouponToken(x) \in Int /\ CouponToken(x)' \in Int
         /\ Deductions(x) \in Nat /\ Deductions(x)' \in Nat
         /\ attempts[x] \in Int /\ attempts'[x] \in Int
         /\ redeliveries \in Int /\ redeliveries' \in Int
<1>1. \A g \in QueueGroups : Waiting(g, x) \in Int /\ Waiting(g, x)' \in Int
  <2>1. ASSUME NEW g \in QueueGroups
        PROVE  Waiting(g, x) \in Int /\ Waiting(g, x)' \in Int
    <3>0. g \in Groups
      BY DEF Groups, MarkGroups
    <3>1. queue[g][x] \in Seq(Message) /\ queue'[g][x] \in Seq(Message)
      BY <3>0 DEF TypeOK
    <3>2. QED
      BY <3>1 DEF Waiting
  <2>2. QED
    BY <2>1
<1>2. \A g \in BusyGroups : HandlerTokens(g, x) \in Int /\ HandlerTokens(g, x)' \in Int
  BY <1>1 DEF HandlerTokens, One
<1>3. Deductions(x) \in Nat /\ Deductions(x)' \in Nat
  <2>1. logs[x] \in Seq(Nat \ {0}) /\ logs'[x] \in Seq(Nat \ {0})
    BY DEF TypeOK
  <2>2. QED
    BY <2>1 DEF Deductions
<1>4. QED
  BY <1>1, <1>2, <1>3 DEF TypeOK, RequestToken, StoreToken, CouponToken, One

\* The three parts of the token count are integers, before and after a step.
LEMMA PartsType ==
  ASSUME TypeOK, TypeOK', NEW x \in Orders
  PROVE  /\ Asked(x) \in Int /\ Asked(x)' \in Int
         /\ Joined(x) \in Int /\ Joined(x)' \in Int
         /\ Charged(x) \in Int /\ Charged(x)' \in Int
<1>1. Asked(x) \in Int /\ Asked(x)' \in Int
  BY TermsType DEF Asked
<1>2. Joined(x) \in Int /\ Joined(x)' \in Int
  BY TermsType DEF Joined
<1>3. Charged(x) \in Int /\ Charged(x)' \in Int
  BY TermsType DEF Charged
<1>4. QED
  BY <1>1, <1>2, <1>3

\* A number that grows by at most one grows by 0 or 1.
LEMMA Difference ==
  ASSUME NEW a \in Int, NEW b \in Int, b - a \in {0, 1}
  PROVE  \E r \in {0, 1} : b = a + r
  OBVIOUS

\* The account of a step: what the three parts gain is covered by accepted
\* requests and redeliveries.
LEMMA Accounted ==
  ASSUME TypeOK, TypeOK', NEW x \in Orders, TokenBound(x), BusyHasMessage(x)',
         NEW a \in Int, NEW j \in Int, NEW c \in Int,
         Asked(x)' <= Asked(x) + a, Joined(x)' <= Joined(x) + j,
         Charged(x)' <= Charged(x) + c,
         a + j + c <= (attempts'[x] - attempts[x]) + (redeliveries' - redeliveries)
  PROVE  NoTokenMade(x)
<1>1. Tokens(x) \in Int /\ Tokens(x)' \in Int
  BY PartsType DEF Tokens
<1>2. Tokens(x)' <= Tokens(x) + (a + j + c)
  BY PartsType DEF Tokens
<1>3. Tokens(x)' + attempts[x] + redeliveries <= Tokens(x) + attempts'[x] + redeliveries'
  BY <1>1, <1>2, TermsType
<1>4. QED
  BY <1>3 DEF NoTokenMade

\* A step that touches nothing the tokens of x are counted by, other than
\* to take one of three away.
LEMMA TokensKept ==
  ASSUME TypeOK, TypeOK', NEW x \in Orders, TokenBound(x),
         \A g \in QueueGroups : Waiting(g, x)' = Waiting(g, x),
         \A g \in BusyGroups : task'[g][x].pc = task[g][x].pc,
         RequestToken(x)' <= RequestToken(x), CouponToken(x)' <= CouponToken(x),
         StoreToken(x)' <= StoreToken(x), logs'[x] = logs[x],
         attempts'[x] = attempts[x], redeliveries <= redeliveries'
  PROVE  NoTokenMade(x)
<1>1. BusyHasMessage(x)'
  BY DEF TokenBound, BusyHasMessage
<1>2. \A g \in BusyGroups : HandlerTokens(g, x)' = HandlerTokens(g, x)
  BY DEF HandlerTokens
<1>3. Asked(x)' <= Asked(x) + 0
  BY <1>2, TermsType DEF Asked
<1>4. Joined(x)' <= Joined(x) + 0
  BY <1>2, TermsType DEF Joined
<1>5. Charged(x)' <= Charged(x) + 0
  <2>1. Deductions(x)' = Deductions(x)
    BY DEF Deductions
  <2>2. QED
    BY <1>2, <2>1, TermsType DEF Charged
<1>6. 0 + 0 + 0 <= (attempts'[x] - attempts[x]) + (redeliveries' - redeliveries)
  BY TermsType
<1>7. QED
  BY <1>1, <1>3, <1>4, <1>5, <1>6, Accounted

\* A handler at work still has its message.
LEMMA BusyKept ==
  ASSUME TypeOK, TypeOK', NEW x \in Orders, TokenBound(x),
         \A g \in BusyGroups : \/ task'[g][x].pc = "idle"
                               \/ Waiting(g, x)' > 0
                               \/ /\ task'[g][x].pc = task[g][x].pc
                                  /\ Waiting(g, x) <= Waiting(g, x)'
  PROVE  BusyHasMessage(x)'
<1> SUFFICES ASSUME NEW g \in BusyGroups, task'[g][x].pc # "idle"
             PROVE  Waiting(g, x)' > 0
  BY DEF BusyHasMessage
<1>1. g \in Groups
  BY WaitingType
<1>2. queue[g][x] \in Seq(Message) /\ queue'[g][x] \in Seq(Message)
  BY <1>1 DEF TypeOK
<1>3. Waiting(g, x) \in Int /\ Waiting(g, x)' \in Int
  BY <1>2 DEF Waiting
<1>4. task[g][x].pc # "idle" => Waiting(g, x) > 0
  BY DEF TokenBound, BusyHasMessage
<1>5. QED
  BY <1>3, <1>4

\* A worker that is not counted moves, or one of another order.
LEMMA GotoKeeps ==
  ASSUME TypeOK, TypeOK', NEW x \in Orders, TokenBound(x),
         NEW w \in Workers, NEW o \in Orders, NEW t, Goto(w, o, t),
         x # o \/ w \notin BusyGroups \cup {"client", CouponGroup},
         \A g \in QueueGroups : Waiting(g, x)' = Waiting(g, x),
         StoreToken(x)' <= StoreToken(x), logs'[x] = logs[x],
         attempts'[x] = attempts[x], redeliveries <= redeliveries'
  PROVE  NoTokenMade(x)
<1>1. \A v \in BusyGroups \cup {"client", CouponGroup} : task'[v][x] = task[v][x]
  <2>1. BusyGroups \cup {"client", CouponGroup} \subseteq Workers
    BY WaitingType
  <2>2. QED
    BY <2>1, GotoEffect
<1>2. /\ RequestToken(x)' = RequestToken(x) /\ CouponToken(x)' = CouponToken(x)
      /\ RequestToken(x) \in Int /\ CouponToken(x) \in Int
  BY <1>1 DEF RequestToken, CouponToken, One
<1>3. QED
  BY <1>1, <1>2, TokensKept

\* A handler that returns, without a message that counts, makes no token.
LEMMA ReturnKeeps ==
  ASSUME TypeOK, TypeOK', NEW x \in Orders, TokenBound(x),
         NEW g \in Groups, NEW o \in Orders, NEW q \in Queues, q[g][o] # <<>>,
         Return(g, o, q), x # o \/ g \notin QueueGroups,
         \A h \in QueueGroups : Len(q[h][x]) = Waiting(h, x),
         StoreToken(x)' <= StoreToken(x), logs'[x] = logs[x],
         attempts'[x] = attempts[x]
  PROVE  NoTokenMade(x)
<1>1. \A h \in QueueGroups : Waiting(h, x)' = Waiting(h, x)
  BY SMTT(40), ReturnEffect, WaitingType DEF Waiting
<1>2. redeliveries <= redeliveries'
  <2>1. redeliveries' = redeliveries \/ redeliveries' = redeliveries + 1
    BY ReturnEffect
  <2>2. redeliveries \in Nat
    BY WaitingType
  <2>3. QED
    BY <2>1, <2>2
<1>3. \A v \in BusyGroups \cup {"client"} : task'[v][x] = task[v][x]
  <2>1. BusyGroups \cup {"client"} \subseteq Workers /\ "client" \notin Groups
    BY WaitingType DEF Groups, MarkGroups, OrderFailGroups, ProductFailGroups, CouponFailGroups
  <2>2. QED
    BY <2>1, ReturnEffect
<1>4. RequestToken(x)' = RequestToken(x) /\ RequestToken(x) \in Int
  BY <1>3 DEF RequestToken, One
<1>5. CouponToken(x)' <= CouponToken(x)
  <2>1. CASE g = CouponGroup /\ x = o
    BY <2>1, ReturnEffect DEF CouponToken, One
  <2>2. CASE ~(g = CouponGroup /\ x = o)
    <3>1. task'[CouponGroup][x] = task[CouponGroup][x]
      BY SMTT(40), <2>2, ReturnEffect, WaitingType
    <3>2. QED
      BY <3>1 DEF CouponToken, One
  <2>3. QED
    BY <2>1, <2>2
<1>6. RequestToken(x)' <= RequestToken(x)
  BY <1>4
<1>7. \A v \in BusyGroups : task'[v][x].pc = task[v][x].pc
  BY <1>3
<1>8. QED
  BY <1>1, <1>2, <1>5, <1>6, <1>7, TokensKept

\* The same with a message published that does not count
LEMMA PublishKeeps ==
  ASSUME TypeOK, TypeOK', NEW x \in Orders, TokenBound(x),
         NEW g \in Groups, NEW o \in Orders, queue[g][o] # <<>>,
         NEW topic, NEW m \in Message, Return(g, o, Published(topic, o, m)),
         \/ x # o
         \/ g \notin QueueGroups /\ Subscribers(topic) \cap QueueGroups = {},
         StoreToken(x)' <= StoreToken(x), logs'[x] = logs[x],
         attempts'[x] = attempts[x]
  PROVE  NoTokenMade(x)
<1>1. Published(topic, o, m) \in Queues /\ Published(topic, o, m)[g][o] # <<>>
  BY PublishedType, PublishedStays DEF TypeOK, Queues
<1>2. \A h \in QueueGroups : Len(Published(topic, o, m)[h][x]) = Waiting(h, x)
  BY SMTT(40), PublishedEffect, WaitingType
<1> DEFINE q == Published(topic, o, m)
<1>3. /\ q \in Queues /\ q[g][o] # <<>> /\ Return(g, o, q)
      /\ x # o \/ g \notin QueueGroups
      /\ \A h \in QueueGroups : Len(q[h][x]) = Waiting(h, x)
  BY <1>1, <1>2
<1> HIDE DEF q
<1>4. QED
  BY <1>3, ReturnKeeps

-----------------------------------------------------------------------------
(***************************************************************************)
(* The same for the handlers that are counted.                             *)
(***************************************************************************)
\* Handler h stays where it is while n messages are added to its queue.
Gain(h, x, n) == task'[h][x].pc = task[h][x].pc /\ Waiting(h, x)' = Waiting(h, x) + n

\* A handler's tokens change by what its queue and its place do.
LEMMA GainTokens ==
  ASSUME TypeOK, TypeOK', NEW x \in Orders, NEW h \in BusyGroups, NEW n \in Int,
         Gain(h, x, n)
  PROVE  HandlerTokens(h, x)' = HandlerTokens(h, x) + n
<1>1. h \in Groups
  BY WaitingType
<1>2. Waiting(h, x) \in Nat
  BY <1>1, WaitingType
<1>3. QED
  BY <1>2 DEF Gain, HandlerTokens, One

\* A counted handler returns: it gives up its token unless it was spent; a
\* redelivery brings one back.
LEMMA ReturnTokens ==
  ASSUME TypeOK, TypeOK', NEW x \in Orders, NEW g \in QueueGroups, NEW q \in Queues,
         q[g][x] # <<>>, Return(g, x, q), Len(q[g][x]) = Waiting(g, x)
  PROVE  /\ redeliveries' - redeliveries \in {0, 1}
         /\ task'[g][x].pc = "idle"
         /\ g \in BusyGroups /\ task[g][x].pc = LastStep(g) =>
              HandlerTokens(g, x)' = HandlerTokens(g, x) + (redeliveries' - redeliveries)
         /\ g \in BusyGroups /\ task[g][x].pc # LastStep(g) =>
              HandlerTokens(g, x)' = HandlerTokens(g, x) + (redeliveries' - redeliveries) - 1
         /\ Waiting(g, x)' = Waiting(g, x) + (redeliveries' - redeliveries) - 1
         /\ \A h \in QueueGroups \ {g} : Waiting(h, x)' = Len(q[h][x])
         /\ \A v \in Workers \ {g} : task'[v][x] = task[v][x]
<1>1. g \in Groups /\ QueueGroups \subseteq Groups
  BY WaitingType
<1>2. Waiting(g, x) \in Nat /\ redeliveries \in Nat
  BY <1>1, WaitingType
<1>3. /\ task'[g][x].pc = "idle"
      /\ \A v \in Workers \ {g} : task'[v][x] = task[v][x]
  BY <1>1, ReturnEffect
<1>4. \A h \in QueueGroups \ {g} : Waiting(h, x)' = Len(q[h][x])
  BY <1>1, ReturnEffect DEF Waiting
<1>5. \/ Waiting(g, x)' = Waiting(g, x) - 1 /\ redeliveries' = redeliveries
      \/ Waiting(g, x)' = Waiting(g, x) /\ redeliveries' = redeliveries + 1
  BY <1>1, ReturnEffect DEF Waiting
<1>6. redeliveries' - redeliveries \in {0, 1}
  BY <1>2, <1>5
<1>7. Waiting(g, x)' = Waiting(g, x) + (redeliveries' - redeliveries) - 1
  BY <1>2, <1>5
<1>8. "idle" # LastStep(g)
  BY DEF LastStep
<1>9. HandlerTokens(g, x)' = Waiting(g, x)'
  BY <1>2, <1>3, <1>5, <1>8 DEF HandlerTokens, One
<1>10. QED
  BY <1>2, <1>3, <1>4, <1>6, <1>7, <1>9 DEF HandlerTokens, One

\* The hash may gain the token of a handler that gives up its own.
LEMMA CountedReturns ==
  ASSUME TypeOK, TypeOK', NEW x \in Orders, TokenBound(x),
         NEW g \in QueueGroups, NEW q \in Queues,
         q[g][x] # <<>>, Return(g, x, q),
         \A h \in QueueGroups : Len(q[h][x]) = Waiting(h, x),
         \/ StoreToken(x)' <= StoreToken(x)
         \/ /\ StoreToken(x)' <= StoreToken(x) + 1
            /\ g = "order-order-processing-stock-success"
            /\ task[g][x].pc # LastStep(g),
         logs'[x] = logs[x], attempts'[x] = attempts[x]
  PROVE  NoTokenMade(x)
<1>1. PICK r \in {0, 1} : redeliveries' = redeliveries + r
  <2>1. redeliveries' - redeliveries \in {0, 1}
    BY ReturnTokens
  <2>2. redeliveries \in Int /\ redeliveries' \in Int
    BY TermsType
  <2>3. QED
    BY <2>1, <2>2, Difference
<1>2. redeliveries' - redeliveries = r /\ r \in Int /\ 0 <= r
  <2>1. redeliveries \in Int
    BY TermsType
  <2>2. QED
    BY <1>1, <2>1
<1>3. /\ task'[g][x].pc = "idle"
      /\ \A h \in BusyGroups \ {g} : Gain(h, x, 0)
      /\ g # "product-order-processing" =>
           Waiting("product-order-processing", x)' = Waiting("product-order-processing", x)
      /\ g = "product-order-processing" =>
           Waiting("product-order-processing", x)'
             = Waiting("product-order-processing", x) + r - 1
  <2>1. \A h \in QueueGroups \ {g} : Waiting(h, x)' = Waiting(h, x)
    BY ReturnTokens
  <2>2. \A h \in QueueGroups : Waiting(h, x) \in Nat
    BY WaitingType
  <2>3. BusyGroups \subseteq Workers
    BY WaitingType
  <2>4. \A h \in BusyGroups \ {g} : task'[h][x] = task[h][x]
    BY <2>3, ReturnTokens
  <2>5. task'[g][x].pc = "idle" /\ Waiting(g, x)' = Waiting(g, x) + r - 1
    BY <1>2, ReturnTokens
  <2>6. QED
    BY <2>1, <2>2, <2>4, <2>5 DEF Gain
<1>4. \A h \in BusyGroups \ {g} : HandlerTokens(h, x)' = HandlerTokens(h, x)
  BY SMTT(40), <1>3, GainTokens, TermsType
<1>5. RequestToken(x)' = RequestToken(x) /\ CouponToken(x)' = CouponToken(x)
  <2>1. {"client", CouponGroup} \subseteq Workers \ {g}
    BY WaitingType DEF Groups, MarkGroups, OrderFailGroups, ProductFailGroups, CouponFailGroups
  <2>2. QED
    BY <2>1, ReturnTokens DEF RequestToken, CouponToken
<1>6. BusyHasMessage(x)'
  <2>1. \A h \in BusyGroups \ {g} : /\ task'[h][x].pc = task[h][x].pc
                                    /\ Waiting(h, x) <= Waiting(h, x)'
    BY <1>3, WaitingType DEF Gain
  <2>2. QED
    BY <1>3, <2>1, BusyKept
<1>7. Deductions(x)' = Deductions(x)
  BY DEF Deductions
<1> DEFINE d == (attempts'[x] - attempts[x]) + (redeliveries' - redeliveries)
<1>8. r + 0 + 0 <= d /\ 0 + r + 0 <= d /\ 0 + 0 + r <= d /\ (r - 1) + 1 + 0 <= d
  <2>1. attempts'[x] - attempts[x] = 0
    BY SMTT(40), TermsType
  <2>2. d = r
    BY <1>2, <2>1
  <2> HIDE DEF d
  <2>3. QED
    BY <1>2, <2>2
<1>9. g \in BusyGroups => /\ HandlerTokens(g, x)' <= HandlerTokens(g, x) + r
                          /\ task[g][x].pc # LastStep(g) =>
                               HandlerTokens(g, x)' = HandlerTokens(g, x) + (r - 1)
  <2>1. g \in BusyGroups => HandlerTokens(g, x) \in Int
    BY TermsType
  <2>2. QED
    BY SMTT(40), <1>2, <2>1, ReturnTokens
<1>10. /\ RequestToken(x) \in Int /\ Waiting("product-order-processing", x) \in Int
       /\ StoreToken(x) \in Int /\ StoreToken(x)' \in Int /\ CouponToken(x) \in Int
       /\ Deductions(x) \in Int
       /\ HandlerTokens("order-order-processing-stock-success", x) \in Int
       /\ HandlerTokens("order-order-processing-stock-success", x)' \in Int
       /\ HandlerTokens("order-processing-success", x) \in Int
       /\ HandlerTokens("order-processing-success", x)' \in Int
       /\ HandlerTokens("user-order-payment", x) \in Int
       /\ HandlerTokens("user-order-payment", x)' \in Int
  BY TermsType
<1>11. /\ Asked(x)' =
            RequestToken(x) + Waiting("product-order-processing", x)'
              + HandlerTokens("order-order-processing-stock-success", x)'
       /\ Joined(x)' =
            StoreToken(x)' + CouponToken(x) + HandlerTokens("order-processing-success", x)'
       /\ Charged(x)' = HandlerTokens("user-order-payment", x)' + Deductions(x)
  BY <1>5, <1>7 DEF Asked, Joined, Charged
<1>12. g # "user-order-payment" => Charged(x)' <= Charged(x) + 0
  <2>1. SUFFICES ASSUME g # "user-order-payment"
                 PROVE  Charged(x)' <= Charged(x) + 0
    OBVIOUS
  <2>2. HandlerTokens("user-order-payment", x)' = HandlerTokens("user-order-payment", x)
    BY <1>4, <2>1
  <2>3. QED
    BY <2>2, <1>10, <1>11 DEF Charged
<1>13. g # "order-processing-success" =>
         HandlerTokens("order-processing-success", x)'
           = HandlerTokens("order-processing-success", x)
  BY <1>4
<1>14. CASE g = "order-order-processing-stock-success"
  <2>0. Charged(x)' <= Charged(x) + 0
    BY <1>12, <1>14
  <2>1. \/ HandlerTokens(g, x)' <= HandlerTokens(g, x) + (r - 1)
        \/ /\ HandlerTokens(g, x)' <= HandlerTokens(g, x) + r
           /\ StoreToken(x)' <= StoreToken(x)
    <3>1. CASE StoreToken(x)' <= StoreToken(x)
      BY <1>9, <1>14, <3>1
    <3>2. CASE task[g][x].pc # LastStep(g)
      <4>1. HandlerTokens(g, x)' = HandlerTokens(g, x) + (r - 1)
        BY <1>9, <1>14, <3>2
      <4>2. HandlerTokens(g, x)' \in Int /\ HandlerTokens(g, x) \in Int /\ r - 1 \in Int
        BY <1>2, <1>10, <1>14
      <4>3. QED
        BY <4>1, <4>2
    <3>3. QED
      BY <3>1, <3>2
  <2>2. CASE HandlerTokens(g, x)' <= HandlerTokens(g, x) + (r - 1)
    <3>0. r - 1 \in Int /\ StoreToken(x)' <= StoreToken(x) + 1
      BY SMTT(40), <1>2, <1>10
    <3>1. Asked(x)' <= Asked(x) + (r - 1)
      <4>1. Waiting("product-order-processing", x)' = Waiting("product-order-processing", x)
        BY <1>3, <1>14
      <4>2. HandlerTokens("order-order-processing-stock-success", x)'
              <= HandlerTokens("order-order-processing-stock-success", x) + (r - 1)
        BY <1>14, <2>2
      <4>3. Asked(x) = RequestToken(x) + Waiting("product-order-processing", x)
                         + HandlerTokens("order-order-processing-stock-success", x)
        BY DEF Asked
      <4>4. Asked(x)' = RequestToken(x) + Waiting("product-order-processing", x)
                          + HandlerTokens("order-order-processing-stock-success", x)'
        BY <4>1, <1>11
      <4> HIDE DEF Workers, QueueGroups, CouponGroup, BusyGroups
      <4>5. QED
        BY <3>0, <4>2, <4>3, <4>4, <1>10, SMTT(30)
    <3>2. Joined(x)' <= Joined(x) + 1
      BY SMTT(40), <1>13, <1>5, <1>14, <3>0, <1>10, <1>11 DEF Joined
    <3>4. (r - 1) + 1 + 0 <= (attempts'[x] - attempts[x]) + (redeliveries' - redeliveries)
      BY <1>8
    <3>5. QED
      BY <1>6, <2>0, <3>0, <3>1, <3>2, <3>4, Accounted
  <2>3. CASE /\ HandlerTokens(g, x)' <= HandlerTokens(g, x) + r
             /\ StoreToken(x)' <= StoreToken(x)
    <3>0. StoreToken(x)' <= StoreToken(x) + 0
      BY <2>3, <1>10
    <3>1. Asked(x)' <= Asked(x) + r
      BY SMTT(40), <1>3, <1>5, <1>2, <1>14, <2>3, <1>10, <1>11 DEF Asked
    <3>2. Joined(x)' <= Joined(x) + 0
      BY <1>13, <1>5, <1>14, <3>0, <1>10, <1>11 DEF Joined
    <3>3. r + 0 + 0 <= (attempts'[x] - attempts[x]) + (redeliveries' - redeliveries)
      BY <1>8
    <3>4. QED
      BY <1>6, <1>2, <2>0, <3>1, <3>2, <3>3, Accounted
  <2>4. QED
    BY <2>1, <2>2, <2>3
<1>15. CASE g # "order-order-processing-stock-success"
  <2>1. StoreToken(x)' <= StoreToken(x) + 0
    BY <1>15, <1>10
  <2>2. g \in BusyGroups => HandlerTokens(g, x)' <= HandlerTokens(g, x) + r
    BY <1>9
  <2>3. CASE g = "product-order-processing"
    <3>1. Asked(x)' <= Asked(x) + r
      <4>1. Waiting("product-order-processing", x)'
              = Waiting("product-order-processing", x) + r - 1
        BY <1>3, <2>3
      <4>2. HandlerTokens("order-order-processing-stock-success", x)'
              = HandlerTokens("order-order-processing-stock-success", x)
        <5>1. "order-order-processing-stock-success" \in BusyGroups \ {g}
          BY <2>3 DEF BusyGroups
        <5>2. QED
          BY <5>1, <1>4
      <4>3. Asked(x) = RequestToken(x) + Waiting("product-order-processing", x)
                         + HandlerTokens("order-order-processing-stock-success", x)
        BY DEF Asked
      <4>4. Asked(x)' = RequestToken(x) + Waiting("product-order-processing", x) + r - 1
                          + HandlerTokens("order-order-processing-stock-success", x)
        BY <1>2, <1>10, <1>11, <4>1, <4>2
      <4> HIDE DEF Workers, QueueGroups, CouponGroup, BusyGroups
      <4>5. QED
        BY <1>2, <1>10, <4>3, <4>4
    <3>2. Joined(x)' <= Joined(x) + 0
      BY <1>13, <1>5, <2>1, <2>3, <1>10, <1>11 DEF Joined
    <3>3. Charged(x)' <= Charged(x) + 0
      BY <1>12, <2>3
    <3>4. r + 0 + 0 <= (attempts'[x] - attempts[x]) + (redeliveries' - redeliveries)
      BY <1>8
    <3>5. QED
      BY <1>6, <1>2, <3>1, <3>2, <3>3, <3>4, Accounted
  <2>4. CASE g = "order-processing-success"
    <3>1. Asked(x)' <= Asked(x) + 0
      BY <1>3, <1>4, <1>5, <2>4, <1>10, <1>11 DEF Asked
    <3>2. Joined(x)' <= Joined(x) + r
      <4>1. HandlerTokens("order-processing-success", x)'
              <= HandlerTokens("order-processing-success", x) + r
        BY <2>2, <2>4
      <4>2. Joined(x) = StoreToken(x) + CouponToken(x)
                          + HandlerTokens("order-processing-success", x)
        BY DEF Joined
      <4>3. Joined(x)' = StoreToken(x)' + CouponToken(x)
                           + HandlerTokens("order-processing-success", x)'
        BY <1>11
      <4> HIDE DEF Workers, QueueGroups, CouponGroup, BusyGroups
      <4>4. QED
        BY <1>2, <2>1, <4>1, <4>2, <4>3, <1>10, SMTT(30)
    <3>3. Charged(x)' <= Charged(x) + 0
      BY <1>12, <2>4
    <3>4. 0 + r + 0 <= (attempts'[x] - attempts[x]) + (redeliveries' - redeliveries)
      BY <1>8
    <3>5. QED
      BY <1>6, <1>2, <3>1, <3>2, <3>3, <3>4, Accounted
  <2>5. CASE g = "user-order-payment"
    <3>1. Asked(x)' <= Asked(x) + 0
      BY <1>3, <1>4, <1>5, <2>5, <1>10, <1>11 DEF Asked
    <3>2. Joined(x)' <= Joined(x) + 0
      BY <1>13, <1>5, <2>1, <2>5, <1>10, <1>11 DEF Joined
    <3>3. Charged(x)' <= Charged(x) + r
      BY <1>7, <1>2, <2>2, <2>5, <1>10, <1>11 DEF Charged
    <3>4. 0 + 0 + r <= (attempts'[x] - attempts[x]) + (redeliveries' - redeliveries)
      BY <1>8
    <3>5. QED
      BY <1>6, <1>2, <3>1, <3>2, <3>3, <3>4, Accounted
  <2>6. QED
    BY <1>15, <2>3, <2>4, <2>5
<1>16. QED
  BY <1>14, <1>15

\* The two ways a handler ends that bring no token to another one
LEMMA QuietReturn ==
  ASSUME TypeOK, TypeOK', NEW x \in Orders, TokenBound(x),
         NEW g \in Groups, NEW o \in Orders, queue[g][o] # <<>>,
         Return(g, o, queue),
         StoreToken(x)' <= StoreToken(x), logs'[x] = logs[x],
         attempts'[x] = attempts[x]
  PROVE  NoTokenMade(x)
<1>1. queue \in Queues /\ \A h \in QueueGroups : Len(queue[h][x]) = Waiting(h, x)
  BY DEF TypeOK, Queues, Waiting
<1>2. CASE x # o \/ g \notin QueueGroups
  BY <1>1, <1>2, ReturnKeeps
<1>3. CASE x = o /\ g \in QueueGroups
  BY <1>1, <1>3, CountedReturns
<1>4. QED
  BY <1>2, <1>3

\* A message that counts nowhere makes no token, whatever handler returns.
LEMMA QuietPublish ==
  ASSUME TypeOK, TypeOK', NEW x \in Orders, TokenBound(x),
         NEW g \in Groups, NEW o \in Orders, queue[g][o] # <<>>,
         NEW topic, NEW m \in Message, Return(g, o, Published(topic, o, m)),
         Subscribers(topic) \cap QueueGroups = {},
         StoreToken(x)' <= StoreToken(x), logs'[x] = logs[x],
         attempts'[x] = attempts[x]
  PROVE  NoTokenMade(x)
<1>0. Published(topic, o, m) \in Queues /\ Published(topic, o, m)[g][o] # <<>>
  BY PublishedType, PublishedStays DEF TypeOK, Queues
<1>1. \A h \in QueueGroups : Len(Published(topic, o, m)[h][x]) = Waiting(h, x)
  BY SMTT(40), PublishedEffect, WaitingType
<1>2. CASE x # o \/ g \notin QueueGroups
  BY <1>2, PublishKeeps
<1>3. CASE x = o /\ g \in QueueGroups
  BY <1>0, <1>1, <1>3, CountedReturns
<1>4. QED
  BY <1>2, <1>3

\* A counted handler goes on without taking its last step.
LEMMA GotoWithin ==
  ASSUME TypeOK, TypeOK', NEW x \in Orders, TokenBound(x),
         NEW g \in BusyGroups, NEW t, Goto(g, x, t), queue[g][x] # <<>>,
         task[g][x].pc # LastStep(g), t.pc # LastStep(g),
         UNCHANGED <<queue, redeliveries>>,
         StoreToken(x)' <= StoreToken(x), logs'[x] = logs[x],
         attempts'[x] = attempts[x]
  PROVE  NoTokenMade(x)
<1>0. g \in Groups /\ QueueGroups \subseteq Groups /\ g \in Workers
  BY WaitingType
<1>1. \A h \in QueueGroups : Waiting(h, x)' = Waiting(h, x) /\ Waiting(h, x) \in Nat
  BY <1>0, WaitingType DEF Waiting
<1>2. /\ task'[g][x] = t
      /\ \A v \in Workers \ {g} : task'[v][x] = task[v][x]
  BY <1>0, GotoEffect
<1>3. BusyHasMessage(x)'
  <2>1. Waiting(g, x)' > 0
    BY <1>0, <1>1, WaitingType
  <2>2. \A h \in BusyGroups \ {g} :
          task'[h][x].pc = task[h][x].pc /\ Waiting(h, x) <= Waiting(h, x)'
    BY <1>0, <1>1, <1>2
  <2>3. QED
    BY <2>1, <2>2, BusyKept
<1>4. \A h \in BusyGroups : HandlerTokens(h, x)' = HandlerTokens(h, x)
  BY <1>0, <1>1, <1>2 DEF HandlerTokens, One
<1>5. RequestToken(x)' = RequestToken(x) /\ CouponToken(x)' = CouponToken(x)
  <2>1. {"client", CouponGroup} \subseteq Workers \ {g}
    BY WaitingType DEF Groups, MarkGroups, OrderFailGroups, ProductFailGroups, CouponFailGroups
  <2>2. QED
    BY <1>2, <2>1 DEF RequestToken, CouponToken
<1>6. Asked(x)' <= Asked(x) + 0
  BY <1>1, <1>4, <1>5, TermsType DEF Asked
<1>7. Joined(x)' <= Joined(x) + 0
  BY <1>4, <1>5, TermsType DEF Joined
<1>8. Charged(x)' <= Charged(x) + 0
  <2>1. Deductions(x)' = Deductions(x)
    BY DEF Deductions
  <2>2. QED
    BY <1>4, <2>1, TermsType DEF Charged
<1>9. 0 + 0 + 0 <= (attempts'[x] - attempts[x]) + (redeliveries' - redeliveries)
  BY SMTT(40), TermsType
<1>10. QED
  BY <1>3, <1>6, <1>7, <1>8, <1>9, Accounted

\* Most steps leave alone what the tokens are counted by.
LEMMA SameCounts ==
  ASSUME TypeOK, NEW x \in Orders, UNCHANGED <<store, logs, attempts>>
  PROVE  /\ StoreToken(x)' <= StoreToken(x) /\ StoreToken(x)' = StoreToken(x)
         /\ logs'[x] = logs[x] /\ attempts'[x] = attempts[x]
  BY DEF StoreToken, One

\* Queues that do not change have as many messages waiting.
LEMMA SameQueues ==
  ASSUME TypeOK, NEW x \in Orders, UNCHANGED queue
  PROVE  \A g \in QueueGroups : Waiting(g, x)' = Waiting(g, x)
  BY DEF Waiting
-----------------------------------------------------------------------------
(***************************************************************************)
(* The steps, one by one.                                                  *)
(***************************************************************************)
\* Another order's step that publishes and goes on
LEMMA OthersPublish ==
  ASSUME TypeOK, TypeOK', NEW x \in Orders, TokenBound(x),
         NEW w \in Workers, NEW o \in Orders, x # o, NEW t, Goto(w, o, t),
         NEW topic, NEW m \in Message, queue' = Published(topic, o, m),
         UNCHANGED <<store, logs, attempts, redeliveries>>
  PROVE  NoTokenMade(x)
<1>1. \A g \in QueueGroups : Waiting(g, x)' = Waiting(g, x)
  BY PublishedEffect, WaitingType DEF Waiting
<1>2. redeliveries <= redeliveries'
  BY WaitingType
<1>3. QED
  BY <1>1, <1>2, SameCounts, GotoKeeps

\* The request that reads the order has the token of its attempt.
LEMMA BeginPaymentTokens ==
  ASSUME TypeOK, TypeOK', NEW x \in Orders, TokenBound(x), NEW o \in Orders,
         BeginPayment(o)
  PROVE  NoTokenMade(x)
<1> DEFINE t == Holding("update", BeginPaymentProcessing(orders[o]))
<1>1. /\ Goto("client", o, t) /\ UNCHANGED <<queue, redeliveries, store, logs>>
      /\ attempts' = [attempts EXCEPT ![o] = @ + 1] /\ task["client"][o].pc = "idle"
  BY DEF BeginPayment, dataVars, balanceVars
<1>2. \A g \in QueueGroups : Waiting(g, x)' = Waiting(g, x)
  BY <1>1, SameQueues
<1>3. /\ StoreToken(x)' = StoreToken(x) /\ StoreToken(x)' <= StoreToken(x)
      /\ logs'[x] = logs[x] /\ redeliveries <= redeliveries'
  BY <1>1, WaitingType DEF StoreToken, One
<1>4. CASE x # o
  <2>1. attempts'[x] = attempts[x]
    BY <1>1, <1>4 DEF TypeOK
  <2>2. QED
    BY <1>1, <1>2, <1>3, <1>4, <2>1, GotoKeeps
<1>5. CASE x = o
  <2>1. \A v \in Groups : task'[v][x] = task[v][x]
    <3>1. "client" \notin Groups
      BY DEF Groups, MarkGroups, OrderFailGroups, ProductFailGroups, CouponFailGroups
    <3>2. QED
      BY <1>1, <3>1, GotoEffect
  <2>2. QueueGroups \cup {CouponGroup} \subseteq Groups
    BY WaitingType
  <2>3. BusyHasMessage(x)'
    BY <1>2, <2>1, <2>2 DEF BusyHasMessage, TokenBound
  <2>4. \A h \in BusyGroups : HandlerTokens(h, x)' = HandlerTokens(h, x)
    BY <1>2, <2>1, <2>2 DEF HandlerTokens
  <2>5. RequestToken(x)' <= RequestToken(x) + 1 /\ CouponToken(x)' = CouponToken(x)
    BY <1>1, <1>5, <2>1, <2>2 DEF RequestToken, CouponToken, One
  <2>6. Asked(x)' <= Asked(x) + 1
    BY <1>2, <2>4, <2>5, TermsType DEF Asked
  <2>7. Joined(x)' <= Joined(x) + 0
    BY <1>3, <2>4, <2>5, TermsType DEF Joined
  <2>8. Charged(x)' <= Charged(x) + 0
    <3>1. Deductions(x)' = Deductions(x)
      BY <1>3 DEF Deductions
    <3>2. QED
      BY <2>4, <3>1, TermsType DEF Charged
  <2>9. 1 + 0 + 0 <= (attempts'[x] - attempts[x]) + (redeliveries' - redeliveries)
    <3>1. attempts'[x] = attempts[x] + 1
      BY <1>1, <1>5 DEF TypeOK
    <3>2. QED
      BY <1>1, <3>1, TermsType
  <2>10. QED
    BY <2>3, <2>6, <2>7, <2>8, <2>9, Accounted
<1>6. QED
  BY <1>4, <1>5

\* The request hands its token to the stock's half.
LEMMA PublishProcessingTokens ==
  ASSUME TypeOK, TypeOK', NEW x \in Orders, TokenBound(x), NEW o \in Orders,
         PublishProcessing(o)
  PROVE  NoTokenMade(x)
<1>1. PICK c \in MaybeCoupon : queue' = Published("order.processing", o, Msg(c))
  BY DEF PublishProcessing
<1>2. /\ Goto("client", o, Idle) /\ task["client"][o].pc # "idle"
      /\ UNCHANGED <<store, logs, attempts, redeliveries>>
  BY DEF PublishProcessing, dataVars, balanceVars
<1>3. Msg(c) \in Message /\ "client" \in Workers
  BY MsgType
<1>4. CASE x # o
  BY <1>1, <1>2, <1>3, <1>4, OthersPublish
<1>5. CASE x = o
  <2>1. \A v \in Groups : task'[v][x] = task[v][x]
    <3>1. "client" \notin Groups
      BY DEF Groups, MarkGroups, OrderFailGroups, ProductFailGroups, CouponFailGroups
    <3>2. QED
      BY <1>2, <3>1, GotoEffect
  <2>2. QueueGroups \cup {CouponGroup} \subseteq Groups
    BY WaitingType
  <2>3. /\ Waiting("product-order-processing", x)'
             = Waiting("product-order-processing", x) + 1
        /\ \A h \in BusyGroups : Waiting(h, x)' = Waiting(h, x)
    BY <1>1, <1>3, <1>5, <2>2, PublishedEffect, CountedSubscribers DEF Waiting
  <2>4. BusyHasMessage(x)'
    BY <2>1, <2>2, <2>3 DEF BusyHasMessage, TokenBound
  <2>5. \A h \in BusyGroups : HandlerTokens(h, x)' = HandlerTokens(h, x)
    BY <2>1, <2>2, <2>3 DEF HandlerTokens
  <2>6. /\ RequestToken(x)' = RequestToken(x) - 1
        /\ CouponToken(x)' = CouponToken(x)
    <3>1. task'["client"][x].pc = "idle"
      BY <1>2, <1>3, <1>5, GotoEffect, IdleIsUnpaid
    <3>2. QED
      BY <1>2, <1>5, <2>1, <2>2, <3>1 DEF RequestToken, CouponToken, One
  <2>7. Asked(x)' <= Asked(x) + 0
    BY <2>3, <2>5, <2>6, TermsType DEF Asked
  <2>8. Joined(x)' <= Joined(x) + 0
    BY <1>2, <2>5, <2>6, SameCounts, TermsType DEF Joined
  <2>9. Charged(x)' <= Charged(x) + 0
    <3>1. Deductions(x)' = Deductions(x)
      BY <1>2 DEF Deductions
    <3>2. QED
      BY <2>5, <3>1, TermsType DEF Charged
  <2>10. 0 + 0 + 0 <= (attempts'[x] - attempts[x]) + (redeliveries' - redeliveries)
    BY <1>2, TermsType
  <2>11. QED
    BY <2>4, <2>7, <2>8, <2>9, <2>10, Accounted
<1>6. QED
  BY <1>4, <1>5

\* The request keeps its token or drops it.
LEMMA MarkProcessingTokens ==
  ASSUME TypeOK, TypeOK', NEW x \in Orders, TokenBound(x), NEW o \in Orders,
         MarkProcessing(o) \/ RequestFails(o)
  PROVE  NoTokenMade(x)
<1>1. \E t : Goto("client", o, t)
  BY DEF MarkProcessing, RequestFails
<1>2. /\ task["client"][o].pc # "idle"
      /\ UNCHANGED <<queue, store, logs, attempts, redeliveries>>
  BY DEF MarkProcessing, RequestFails, dataVars, balanceVars
<1>3. PICK t : Goto("client", o, t)
  BY <1>1
<1>4. \A v \in Groups : task'[v][x] = task[v][x]
  <2>1. "client" \notin Groups
    BY DEF Groups, MarkGroups, OrderFailGroups, ProductFailGroups, CouponFailGroups
  <2>2. QED
    BY <1>3, <2>1, GotoEffect
<1>5. RequestToken(x)' <= RequestToken(x)
  <2>1. CASE x = o
    BY <1>2, <2>1 DEF RequestToken, One
  <2>2. CASE x # o
    <3>1. task'["client"][x] = task["client"][x]
      BY <1>3, <2>2, GotoEffect
    <3>2. QED
      BY <3>1 DEF RequestToken, One
  <2>3. QED
    BY <2>1, <2>2
<1>6. CouponToken(x)' <= CouponToken(x)
  BY <1>4, WaitingType DEF CouponToken, One
<1>7. redeliveries <= redeliveries'
  BY <1>2, WaitingType
<1>8. \A g \in BusyGroups : task'[g][x].pc = task[g][x].pc
  BY <1>4, WaitingType
<1>9. QED
  BY <1>2, <1>5, <1>6, <1>7, <1>8, SameCounts, SameQueues, TokensKept

\* The stock's handler hands its token to the coordinator.
LEMMA StockConfirmedTokens ==
  ASSUME TypeOK, TypeOK', NEW x \in Orders, TokenBound(x), NEW o \in Orders,
         StockConfirmed(o)
  PROVE  NoTokenMade(x)
<1> DEFINE g == "product-order-processing"
           h == "order-order-processing-stock-success"
           m == Msg(Received(g, o).coupon)
           q == Published("order.processing.stock.success", o, m)
<1>1. queue[g][o] # <<>> /\ Return(g, o, q) /\ UNCHANGED <<store, logs, attempts>>
  BY DEF StockConfirmed, At, dataVars, balanceVars
<1>2. g \in Groups /\ m \in Message
  BY <1>1, WaitingType, ReceivedType, MsgType DEF TypeOK, Queues, Message
<1>3. CASE x # o
  BY <1>1, <1>2, <1>3, SameCounts, PublishKeeps
<1>4. CASE x = o
  <2>1. /\ q \in Queues /\ q[g][x] # <<>>
        /\ Len(q[g][x]) = Waiting(g, x) /\ Len(q[h][x]) = Waiting(h, x) + 1
        /\ \A k \in BusyGroups \ {h} : Len(q[k][x]) = Waiting(k, x)
    <3>1. q \in Queues /\ q[g][o] # <<>>
      BY <1>1, <1>2, PublishedType, PublishedStays DEF TypeOK, Queues
    <3>2. /\ h \in Subscribers("order.processing.stock.success")
          /\ \A k \in QueueGroups \ {h} : k \notin Subscribers("order.processing.stock.success")
      BY CountedSubscribers
    <3>3. QED
      BY <1>2, <1>4, <3>1, <3>2, PublishedEffect, WaitingType
  <2> HIDE DEF q, m
  <2>2. PICK r \in {0, 1} : /\ redeliveries' - redeliveries = r
                            /\ Waiting(g, x)' = Waiting(g, x) + r - 1
    BY <1>1, <1>4, <2>1, ReturnTokens
  <2>3. /\ Gain(h, x, 1) /\ \A k \in BusyGroups \ {h} : Gain(k, x, 0)
        /\ {"client", CouponGroup} \subseteq Workers \ {g}
        /\ \A v \in Workers \ {g} : task'[v][x] = task[v][x]
    <3>1. BusyGroups \cup {"client", CouponGroup} \subseteq Workers \ {g}
      BY WaitingType DEF Groups, MarkGroups, OrderFailGroups, ProductFailGroups, CouponFailGroups
    <3>2. \A v \in Workers \ {g} : task'[v][x] = task[v][x]
      BY <1>1, <1>4, <2>1, ReturnTokens
    <3>3. \A k \in QueueGroups \ {g} : Waiting(k, x)' = Len(q[k][x])
      BY <1>1, <1>4, <2>1, ReturnTokens
    <3>4. \A k \in QueueGroups : Waiting(k, x) \in Nat
      BY WaitingType
    <3>5. QED
      BY <2>1, <3>1, <3>2, <3>3, <3>4 DEF Gain
  <2>4. /\ HandlerTokens(h, x)' = HandlerTokens(h, x) + 1
        /\ \A k \in BusyGroups \ {h} : HandlerTokens(k, x)' = HandlerTokens(k, x)
    BY <2>3, GainTokens, TermsType
  <2>5. BusyHasMessage(x)'
    <3>1. \A k \in BusyGroups : task'[k][x].pc = task[k][x].pc
                                 /\ Waiting(k, x) <= Waiting(k, x)'
      BY <2>3, WaitingType DEF Gain
    <3>2. QED
      BY <3>1, BusyKept
  <2>6. RequestToken(x)' = RequestToken(x) /\ CouponToken(x)' = CouponToken(x)
    BY <2>3 DEF RequestToken, CouponToken
  <2>7. Asked(x)' <= Asked(x) + r
    BY <2>2, <2>4, <2>6, TermsType DEF Asked
  <2>8. Joined(x)' <= Joined(x) + 0
    <3>1. StoreToken(x)' = StoreToken(x)
      BY <1>1, SameCounts
    <3>2. QED
      BY <2>4, <2>6, <3>1, TermsType DEF Joined
  <2>9. Charged(x)' <= Charged(x) + 0
    <3>1. Deductions(x)' = Deductions(x)
      BY <1>1 DEF Deductions
    <3>2. QED
      BY <2>4, <3>1, TermsType DEF Charged
  <2>10. r \in Int /\ r + 0 + 0 <= (attempts'[x] - attempts[x]) + (redeliveries' - redeliveries)
    <3>1. attempts[x] \in Nat /\ attempts'[x] = attempts[x]
      BY <1>1 DEF TypeOK
    <3>2. QED
      BY <2>2, <3>1
  <2>11. QED
    BY <2>5, <2>7, <2>8, <2>9, <2>10, Accounted
<1>5. QED
  BY <1>3, <1>4

\* The stock's handler makes no token.
LEMMA ProcessStockTokens ==
  ASSUME TypeOK, TypeOK', NEW x \in Orders, TokenBound(x), NEW o \in Orders,
         ProcessStock(o)
  PROVE  NoTokenMade(x)
<1> DEFINE g == "product-order-processing"
<1>1. CASE ConfirmStock(o)
  <2>1. /\ \E t : Goto(g, o, t)
        /\ UNCHANGED <<queue, store, logs, attempts, redeliveries>>
    BY <1>1 DEF ConfirmStock, ItemDone, balanceVars
  <2>2. g \in Workers /\ g \notin BusyGroups \cup {"client", CouponGroup}
    BY WaitingType
  <2>3. redeliveries <= redeliveries'
    BY <2>1, WaitingType
  <2>4. QED
    BY <2>1, <2>2, <2>3, SameCounts, SameQueues, GotoKeeps
<1>2. CASE ConfirmStockFails(o)
  <2> DEFINE m == [Msg(Received(g, o).coupon) EXCEPT !.by = "ConfirmStockByOrder"]
  <2>1. /\ queue[g][o] # <<>> /\ Return(g, o, Published("order.processing.fail", o, m))
        /\ UNCHANGED <<store, logs, attempts>>
    BY <1>2 DEF ConfirmStockFails, At, dataVars, balanceVars
  <2>2. g \in Groups /\ m \in Message
    BY <2>1, WaitingType, ReceivedType, MsgType DEF TypeOK, Queues, Message, Msg
  <2>3. Subscribers("order.processing.fail") \cap QueueGroups = {}
    BY CountedSubscribers
  <2>4. QED
    BY <2>1, <2>2, <2>3, SameCounts, QuietPublish
<1>3. QED
  BY <1>1, <1>2, StockConfirmedTokens DEF ProcessStock

\* The hash and the token in it, as the scripts of the coordinator write it
LEMMA OtherStore ==
  ASSUME TypeOK, NEW x \in Orders, NEW o \in Orders, x # o, NEW s,
         store' = [store EXCEPT ![o] = s]
  PROVE  StoreToken(x)' = StoreToken(x) /\ StoreToken(x)' <= StoreToken(x)
  BY DEF StoreToken, One, TypeOK

\* A half marked in the coordinator's state adds at most the stock's token.
LEMMA MarkedStore ==
  ASSUME TypeOK, NEW o \in Orders, NEW g \in MarkGroups,
         store' = [store EXCEPT ![o] = Emit(Marked(g, o))]
  PROVE  /\ Ready(Marked(g, o)) => StoreToken(o)' = 0
         /\ StoreToken(o)' <= StoreToken(o) + 1
         /\ g = CouponGroup /\ Ready(Marked(g, o)) => StoreToken(o) = 1
         /\ g = CouponGroup => StoreToken(o)' <= StoreToken(o)
<1>1. store[o] \in CoordinatorState /\ store'[o] = Emit(Marked(g, o))
  BY DEF TypeOK
<1>2. CASE g = "order-order-processing-stock-success"
  <2>1. Marked(g, o) = [store[o] EXCEPT !.stockOk = TRUE]
    BY <1>2 DEF Marked, MarkedStock
  <2>2. QED
    BY <1>1, <1>2, <2>1 DEF Emit, Ready, StoreToken, One, CoordinatorState
<1>3. CASE g = CouponGroup
  <2>1. Marked(g, o) = MarkedCoupon(store[o], Received(g, o).applied)
    BY <1>3 DEF Marked
  <2>2. /\ Marked(g, o).stockOk = store[o].stockOk
        /\ Marked(g, o).emitted = store[o].emitted
    BY <1>1, <2>1 DEF MarkedCoupon, CoordinatorState
  <2>3. CASE Ready(Marked(g, o))
    <3>1. Emit(Marked(g, o)).emitted = TRUE
      BY <1>1, <2>1, <2>3 DEF Emit, MarkedCoupon, CoordinatorState
    <3>2. QED
      BY <1>1, <2>2, <2>3, <3>1 DEF Ready, StoreToken, One
  <2>4. CASE ~Ready(Marked(g, o))
    BY <1>1, <2>2, <2>4 DEF Emit, StoreToken, One
  <2>5. QED
    BY <2>3, <2>4
<1>4. QED
  BY <1>2, <1>3 DEF MarkGroups

\* A state without the stock's half has no token.
LEMMA ResetStore ==
  ASSUME TypeOK, NEW x \in Orders, NEW o \in Orders, NEW s,
         store' = [store EXCEPT ![o] = s], s.stockOk = FALSE
  PROVE  StoreToken(x)' <= StoreToken(x)
<1>1. CASE x = o
  BY <1>1 DEF StoreToken, One, TypeOK
<1>2. CASE x # o
  BY <1>2, OtherStore
<1>3. QED
  BY <1>1, <1>2

\* The coupon's handler completes the hash and takes the token out of it.
LEMMA TakenOut ==
  ASSUME TypeOK, TypeOK', NEW x \in Orders, TokenBound(x),
         Continue(CouponGroup, x, "get"), task[CouponGroup][x].pc = "idle",
         StoreToken(x) = 1, StoreToken(x)' = 0, UNCHANGED <<logs, attempts>>
  PROVE  NoTokenMade(x)
<1>1. /\ task'[CouponGroup][x].pc = "get"
      /\ \A v \in BusyGroups \cup {"client"} : task'[v][x] = task[v][x]
  <2>1. CouponGroup \in Workers /\ CouponGroup \notin BusyGroups \cup {"client"}
    BY WaitingType
  <2>2. BusyGroups \cup {"client"} \subseteq Workers
    BY WaitingType
  <2> DEFINE t == [task[CouponGroup][x] EXCEPT !.pc = "get"]
  <2>3. t.pc = "get"
    BY <2>1 DEF TypeOK, Task
  <2>4. Goto(CouponGroup, x, t)
    BY DEF Continue
  <2> HIDE DEF t
  <2>5. /\ task'[CouponGroup][x] = t
        /\ \A v \in BusyGroups \cup {"client"} : task'[v][x] = task[v][x]
    BY <2>1, <2>2, <2>4, GotoEffect
  <2>6. QED
    BY <2>3, <2>5
<1>2. UNCHANGED <<queue, redeliveries>>
  BY DEF Continue
<1>3. \A h \in QueueGroups : Waiting(h, x)' = Waiting(h, x)
  BY <1>2, SameQueues
<1>4. BusyHasMessage(x)'
  BY <1>1, <1>3 DEF BusyHasMessage, TokenBound
<1>5. \A h \in BusyGroups : HandlerTokens(h, x)' = HandlerTokens(h, x)
  BY <1>1, <1>3 DEF HandlerTokens
<1>6. RequestToken(x)' = RequestToken(x) /\ CouponToken(x) = 0 /\ CouponToken(x)' = 1
  BY <1>1 DEF RequestToken, CouponToken, One
<1>7. Asked(x)' <= Asked(x) + 0
  BY <1>3, <1>5, <1>6, TermsType DEF Asked
<1>8. Joined(x)' <= Joined(x) + 0
  BY <1>5, <1>6, TermsType DEF Joined
<1>9. Charged(x)' <= Charged(x) + 0
  <2>1. Deductions(x)' = Deductions(x)
    BY DEF Deductions
  <2>2. QED
    BY <1>5, <2>1, TermsType DEF Charged
<1>10. 0 + 0 + 0 <= (attempts'[x] - attempts[x]) + (redeliveries' - redeliveries)
  BY <1>2, TermsType
<1>11. QED
  BY <1>4, <1>7, <1>8, <1>9, <1>10, Accounted

\* A half is marked without a token made.
LEMMA MarkOkTokens ==
  ASSUME TypeOK, TypeOK', NEW x \in Orders, TokenBound(x), NEW o \in Orders,
         NEW g \in MarkGroups, MarkOk(g, o)
  PROVE  NoTokenMade(x)
<1>1. /\ queue[g][o] # <<>> /\ task[g][o].pc = "idle"
      /\ store' = [store EXCEPT ![o] = Emit(Marked(g, o))]
      /\ UNCHANGED <<logs, attempts>>
      /\ g \in Groups /\ g \in Workers
  BY DEF MarkOk, At, balanceVars, Groups
<1>2. x # o => StoreToken(x)' <= StoreToken(x)
  BY <1>1, OtherStore
<1>3. /\ Ready(Marked(g, o)) => StoreToken(o)' = 0
      /\ StoreToken(o)' <= StoreToken(o) + 1
      /\ g = CouponGroup /\ Ready(Marked(g, o)) => StoreToken(o) = 1
      /\ g = CouponGroup => StoreToken(o)' <= StoreToken(o)
  BY <1>1, MarkedStore
<1>4. CASE ~Ready(Marked(g, o))
  <2>0. Return(g, o, queue)
    BY <1>4 DEF MarkOk
  <2>1. CASE x # o \/ g = CouponGroup
    <3>1. StoreToken(x)' <= StoreToken(x)
      BY <1>2, <1>3, <2>1
    <3>2. QED
      BY <1>1, <2>0, <3>1, QuietReturn
  <2>2. CASE x = o /\ g = "order-order-processing-stock-success"
    <3>1. queue \in Queues /\ \A h \in QueueGroups : Len(queue[h][x]) = Waiting(h, x)
      BY DEF TypeOK, Queues, Waiting
    <3>2. task[g][x].pc # LastStep(g) /\ g \in QueueGroups
      BY <1>1, <2>2 DEF LastStep
    <3>3. QED
      BY <1>1, <1>3, <2>0, <2>2, <3>1, <3>2, CountedReturns
  <2>3. QED
    BY <2>1, <2>2 DEF MarkGroups
<1>5. CASE Ready(Marked(g, o))
  <2> DEFINE t == [task[g][o] EXCEPT !.pc = "get"]
  <2>0. Continue(g, o, "get") /\ Goto(g, o, t) /\ UNCHANGED <<queue, redeliveries>>
    BY <1>5 DEF MarkOk, Continue
  <2>1. CASE x # o
    <3>1. redeliveries <= redeliveries'
      BY <2>0, WaitingType
    <3>2. QED
      BY <1>1, <1>2, <2>0, <2>1, <3>1, SameQueues, GotoKeeps
  <2>2. CASE x = o /\ g = "order-order-processing-stock-success"
    <3>1. task[g][x].pc # LastStep(g) /\ g \in BusyGroups
      BY <1>1, <2>2 DEF LastStep
    <3>2. t.pc # LastStep(g)
      BY <1>1, <2>2 DEF LastStep, TypeOK, Task
    <3>3. StoreToken(x)' <= StoreToken(x)
      BY <1>3, <1>5, <2>2 DEF StoreToken, One
    <3>4. QED
      BY <1>1, <2>0, <2>2, <3>1, <3>2, <3>3, GotoWithin
  <2>3. CASE x = o /\ g = CouponGroup
    BY <1>1, <1>3, <1>5, <2>0, <2>3, TakenOut
  <2>4. QED
    BY <2>1, <2>2, <2>3 DEF MarkGroups
<1>6. QED
  BY <1>4, <1>5

\* A handler spends its token to publish a message that is one.
LEMMA HandOver ==
  ASSUME TypeOK, TypeOK', NEW x \in Orders, TokenBound(x),
         NEW g \in BusyGroups \cup {CouponGroup}, NEW h \in BusyGroups \ {g},
         NEW t, Goto(g, x, t), t.pc = "clear", queue[g][x] # <<>>,
         g # "user-order-payment", task[g][x].pc # "clear",
         NEW topic, NEW m \in Message, queue' = Published(topic, x, m),
         Subscribers(topic) \cap QueueGroups = {h}
  PROVE  /\ BusyHasMessage(x)'
         /\ Waiting("product-order-processing", x)' = Waiting("product-order-processing", x)
         /\ HandlerTokens(h, x)' = HandlerTokens(h, x) + 1
         /\ \A k \in BusyGroups \ {g, h} : HandlerTokens(k, x)' = HandlerTokens(k, x)
         /\ g \in BusyGroups => HandlerTokens(g, x)' = HandlerTokens(g, x) - 1
         /\ RequestToken(x)' = RequestToken(x)
         /\ g # CouponGroup => CouponToken(x)' = CouponToken(x)
<1>1. g \in Workers /\ g \in Groups /\ QueueGroups \cup {CouponGroup} \subseteq Groups
  BY WaitingType
<1>2. /\ \A k \in QueueGroups : Waiting(k, x) \in Nat
      /\ Waiting(h, x)' = Waiting(h, x) + 1
      /\ \A k \in QueueGroups \ {h} : Waiting(k, x)' = Waiting(k, x)
  <2>1. h \in Subscribers(topic) /\ \A k \in QueueGroups \ {h} : k \notin Subscribers(topic)
    OBVIOUS
  <2>2. QED
    BY <1>1, <2>1, PublishedEffect, WaitingType DEF Waiting
<1>3. /\ task'[g][x] = t
      /\ \A v \in Workers \ {g} : task'[v][x] = task[v][x]
  BY <1>1, GotoEffect
<1>4. "client" \in Workers \ {g}
  BY <1>1 DEF Groups, MarkGroups, OrderFailGroups, ProductFailGroups, CouponFailGroups
<1>5. BusyHasMessage(x)'
  <2>1. \A k \in BusyGroups \ {g} : /\ task'[k][x].pc = task[k][x].pc
                                     /\ Waiting(k, x) <= Waiting(k, x)'
    BY <1>1, <1>2, <1>3
  <2>2. g \in BusyGroups => Waiting(g, x)' > 0
    BY <1>1, <1>2, WaitingType
  <2>3. QED
    BY <2>1, <2>2, BusyKept
<1>6. Gain(h, x, 1) /\ \A k \in BusyGroups \ {g, h} : Gain(k, x, 0)
  BY <1>1, <1>2, <1>3 DEF Gain
<1>7. HandlerTokens(h, x)' = HandlerTokens(h, x) + 1
  BY <1>6, GainTokens
<1>8. \A k \in BusyGroups \ {g, h} : HandlerTokens(k, x)' = HandlerTokens(k, x)
  BY SMTT(40), <1>6, GainTokens, TermsType
<1>9. g \in BusyGroups => HandlerTokens(g, x)' = HandlerTokens(g, x) - 1
  <2>1. SUFFICES ASSUME g \in BusyGroups
                 PROVE  HandlerTokens(g, x)' = HandlerTokens(g, x) - 1
    OBVIOUS
  <2>2. Waiting(g, x) \in Nat /\ Waiting(g, x)' = Waiting(g, x)
    BY <1>2, <2>1
  <2>3. LastStep(g) = "clear"
    BY DEF LastStep
  <2>4. QED
    BY <1>3, <2>2, <2>3 DEF HandlerTokens, One
<1>10. RequestToken(x)' = RequestToken(x)
  BY <1>3, <1>4 DEF RequestToken
<1>11. g # CouponGroup => CouponToken(x)' = CouponToken(x)
  BY <1>1, <1>3 DEF CouponToken
<1>12. QED
  BY <1>2, <1>5, <1>7, <1>8, <1>9, <1>10, <1>11

\* The aggregation hands one token on.
LEMMA PublishReadyTokens ==
  ASSUME TypeOK, TypeOK', NEW x \in Orders, TokenBound(x), NEW o \in Orders,
         NEW g \in MarkGroups, PublishReady(g, o)
  PROVE  NoTokenMade(x)
<1>1. /\ queue[g][o] # <<>> /\ task[g][o].pc = "get"
      /\ UNCHANGED <<store, logs, attempts>> /\ g \in Groups /\ g \in Workers
  BY DEF PublishReady, At, dataVars, balanceVars, Groups
<1>2. CASE ~store[o].inited
  BY <1>1, <1>2, SameCounts, QuietReturn DEF PublishReady
<1>3. CASE store[o].inited
  <2> DEFINE m == [Msg(store[o].coupon) EXCEPT !.applied = store[o].applied]
             t == [Idle EXCEPT !.pc = "clear"]
             h == "order-processing-success"
  <2>1. queue' = Published("order.processing.success", o, m) /\ Goto(g, o, t) /\ UNCHANGED redeliveries
    BY <1>3 DEF PublishReady
  <2>2. m \in Message
    <3>1. store[o].coupon \in MaybeCoupon /\ store[o].applied \in MaybeCoupon
      BY DEF TypeOK, CoordinatorState
    <3>2. Msg(store[o].coupon) \in Message
      BY <3>1, MsgType
    <3>3. QED
      BY <3>1, <3>2 DEF Message
  <2>3. t.pc = "clear"
    BY DEF Idle
  <2> HIDE DEF m, t
  <2>4. CASE x # o
    BY <1>1, <2>1, <2>2, <2>4, OthersPublish
  <2>5. CASE x = o
    <3>1. /\ g \in BusyGroups \cup {CouponGroup} /\ h \in BusyGroups \ {g}
          /\ g # "user-order-payment" /\ task[g][x].pc # "clear"
          /\ Subscribers("order.processing.success") \cap QueueGroups = {h}
      BY <1>1, <2>5, CountedSubscribers DEF MarkGroups
    <3>2. /\ BusyHasMessage(x)'
          /\ Waiting("product-order-processing", x)' = Waiting("product-order-processing", x)
          /\ HandlerTokens(h, x)' = HandlerTokens(h, x) + 1
          /\ \A k \in BusyGroups \ {g, h} : HandlerTokens(k, x)' = HandlerTokens(k, x)
          /\ g \in BusyGroups => HandlerTokens(g, x)' = HandlerTokens(g, x) - 1
          /\ RequestToken(x)' = RequestToken(x)
          /\ g # CouponGroup => CouponToken(x)' = CouponToken(x)
      BY <1>1, <2>1, <2>2, <2>3, <2>5, <3>1, HandOver
    <3>3. /\ StoreToken(x)' = StoreToken(x) /\ Deductions(x)' = Deductions(x)
      BY <1>1, SameCounts DEF Deductions
    <3>4. Charged(x)' <= Charged(x) + 0
      <4>1. HandlerTokens("user-order-payment", x)' = HandlerTokens("user-order-payment", x)
        BY <3>1, <3>2
      <4>2. QED
        BY <3>3, <4>1, TermsType DEF Charged
    <3>5. attempts'[x] = attempts[x] /\ redeliveries' = redeliveries
      BY <1>1, <2>1
    <3>6. CASE g = CouponGroup
      <4>1. CouponToken(x) = 1 /\ CouponToken(x)' = 0
        <5>1. task'[g][x] = t
          BY <1>1, <2>1, <2>5, GotoEffect
        <5>2. QED
          BY <1>1, <2>3, <2>5, <3>6, <5>1 DEF CouponToken, One
      <4>2. HandlerTokens("order-order-processing-stock-success", x)'
              = HandlerTokens("order-order-processing-stock-success", x)
        BY <3>2, <3>6
      <4>3. Asked(x)' <= Asked(x) + 0
        BY <3>2, <4>2, TermsType DEF Asked
      <4>4. Joined(x)' <= Joined(x) + 0
        BY <3>2, <3>3, <4>1, TermsType DEF Joined
      <4>5. 0 + 0 + 0 <= (attempts'[x] - attempts[x]) + (redeliveries' - redeliveries)
        BY <3>5, TermsType
      <4>6. QED
        BY <3>2, <3>4, <4>3, <4>4, <4>5, Accounted
    <3>7. CASE g = "order-order-processing-stock-success"
      <4>1. HandlerTokens("order-order-processing-stock-success", x)'
              = HandlerTokens("order-order-processing-stock-success", x) - 1
        BY <3>2, <3>7
      <4>2. CouponToken(x)' = CouponToken(x)
        BY <3>2, <3>7
      <4>3. Asked(x)' <= Asked(x) + (-1)
        BY <3>2, <4>1, TermsType DEF Asked
      <4>4. Joined(x)' <= Joined(x) + 1
        BY <3>2, <3>3, <4>2, TermsType DEF Joined
      <4>5. (-1) + 1 + 0 <= (attempts'[x] - attempts[x]) + (redeliveries' - redeliveries)
        BY <3>5, TermsType
      <4>6. QED
        BY <3>2, <3>4, <4>3, <4>4, <4>5, Accounted
    <3>8. QED
      BY <3>6, <3>7 DEF MarkGroups
  <2>6. QED
    BY <2>4, <2>5
<1>4. QED
  BY <1>2, <1>3

\* The coordinator makes no token.
LEMMA AggregateTokens ==
  ASSUME TypeOK, TypeOK', NEW x \in Orders, TokenBound(x), NEW o \in Orders,
         Aggregate(o)
  PROVE  NoTokenMade(x)
<1>1. CASE InitCoordinator(o)
  <2> DEFINE g == "order-order-processing-init"
             s == InitState(Received(g, o).coupon)
  <2>1. /\ queue[g][o] # <<>> /\ Return(g, o, queue)
        /\ store' = [store EXCEPT ![o] = s] /\ UNCHANGED <<logs, attempts>>
    BY <1>1 DEF InitCoordinator, At, balanceVars
  <2>2. s.stockOk = FALSE /\ g \in Groups
    BY DEF InitState, Groups
  <2> HIDE DEF s
  <2>3. StoreToken(x)' <= StoreToken(x)
    BY <2>1, <2>2, ResetStore
  <2>4. QED
    BY <2>1, <2>2, <2>3, QuietReturn
<1>2. ASSUME NEW g \in MarkGroups, MarkOk(g, o) \/ PublishReady(g, o)
      PROVE  NoTokenMade(x)
  BY <1>2, MarkOkTokens, PublishReadyTokens
<1>3. ASSUME NEW g \in MarkGroups \cup {"order-processing-success",
                                        "order-order-processing-fail"},
             ClearStore(g, o)
      PROVE  NoTokenMade(x)
  <2>1. /\ queue[g][o] # <<>> /\ Return(g, o, queue)
        /\ store' = [store EXCEPT ![o] = NoState] /\ UNCHANGED <<logs, attempts>>
    BY <1>3 DEF ClearStore, At, balanceVars
  <2>2. NoState.stockOk = FALSE /\ g \in Groups
    BY DEF NoState, Groups, OrderFailGroups
  <2>3. StoreToken(x)' <= StoreToken(x)
    BY <2>1, <2>2, ResetStore
  <2>4. QED
    BY <2>1, <2>2, <2>3, QuietReturn
<1>4. QED
  BY <1>1, <1>2, <1>3 DEF Aggregate

\* The coupon's handler makes no token.
LEMMA ProcessCouponTokens ==
  ASSUME TypeOK, TypeOK', NEW x \in Orders, TokenBound(x), NEW o \in Orders,
         ProcessCoupon(o)
  PROVE  NoTokenMade(x)
<1> DEFINE g == "coupon-order-processing"
<1>1. /\ queue[g][o] # <<>> /\ UNCHANGED <<store, logs, attempts>>
      /\ \/ \E p \in PC : Continue(g, o, p)
         \/ Return(g, o, queue)
         \/ Return(g, o, Published("order.processing.coupon.success", o,
              [Msg(Received(g, o).coupon) EXCEPT !.applied = Received(g, o).coupon]))
         \/ CouponProcessingFailed(o)
  <2>1. CASE SkipCoupon(o) \/ UseCoupon(o) \/ UseCouponFails(o)
    BY <2>1 DEF SkipCoupon, UseCoupon, UseCouponFails, At, PC, dataVars, balanceVars
  <2>2. CASE CreateUserCoupon(o) \/ CouponUsed(o) \/ RecordCouponFails(o)
    BY <2>2 DEF CreateUserCoupon, CouponUsed, RecordCouponFails, At, PC, dataVars, balanceVars
  <2>3. CASE CancelCheck(o) \/ CancelUse(o)
    BY <2>3 DEF CancelCheck, CancelUse, At, PC, dataVars, balanceVars
  <2>4. QED
    BY <2>1, <2>2, <2>3 DEF ProcessCoupon
<1>2. g \in Groups /\ g \notin QueueGroups \cup {"client", CouponGroup}
  BY DEF Groups
<1>3. ASSUME NEW p \in PC, Continue(g, o, p)
      PROVE  NoTokenMade(x)
  <2>1. Goto(g, o, [task[g][o] EXCEPT !.pc = p]) /\ UNCHANGED <<queue, redeliveries>>
    BY <1>3 DEF Continue
  <2>2. redeliveries <= redeliveries'
    BY <2>1, WaitingType
  <2>3. QED
    BY <1>1, <1>2, <2>1, <2>2, SameCounts, SameQueues, GotoKeeps
<1>4. CASE Return(g, o, queue)
  BY <1>1, <1>2, <1>4, SameCounts, QuietReturn
<1>5. ASSUME NEW topic \in {"order.processing.coupon.success", "order.processing.fail"},
             NEW m \in Message, Return(g, o, Published(topic, o, m))
      PROVE  NoTokenMade(x)
  <2>1. Subscribers(topic) \cap QueueGroups = {}
    BY CountedSubscribers
  <2>2. QED
    BY <1>1, <1>2, <1>5, <2>1, SameCounts, QuietPublish
<1>6. /\ [Msg(Received(g, o).coupon) EXCEPT !.applied = Received(g, o).coupon] \in Message
      /\ [Msg(Received(g, o).coupon) EXCEPT !.by = "UseUserCouponByOrder"] \in Message
  BY <1>1, <1>2, MessagesType
<1>7. QED
  BY <1>1, <1>3, <1>4, <1>5, <1>6 DEF CouponProcessingFailed

\* The discount is computed without a token made.
LEMMA ReadForPaymentTokens ==
  ASSUME TypeOK, TypeOK', NEW x \in Orders, TokenBound(x), NEW o \in Orders,
         ReadForPayment(o) \/ WriteDiscount(o)
  PROVE  NoTokenMade(x)
<1> DEFINE g == "order-processing-success"
<1>1. /\ queue[g][o] # <<>> /\ task[g][o].pc # "clear"
      /\ UNCHANGED <<store, logs, attempts>>
      /\ \/ Return(g, o, queue)
         \/ /\ \E p \in {"publish", "update"} : \E row : Goto(g, o, Holding(p, row))
            /\ UNCHANGED <<queue, redeliveries>>
         \/ Continue(g, o, "publish")
  BY DEF ReadForPayment, WriteDiscount, At, dataVars, balanceVars
<1>2. g \in Groups /\ g \in BusyGroups /\ LastStep(g) = "clear"
  BY DEF Groups, LastStep
<1>3. CASE Return(g, o, queue)
  BY <1>1, <1>2, <1>3, SameCounts, QuietReturn
<1>4. ASSUME NEW t, Goto(g, o, t), t.pc # "clear", UNCHANGED <<queue, redeliveries>>
      PROVE  NoTokenMade(x)
  <2>1. CASE x # o
    <3>1. redeliveries <= redeliveries'
      BY <1>4, WaitingType
    <3>2. QED
      BY <1>1, <1>2, <1>4, <2>1, <3>1, SameCounts, SameQueues, GotoKeeps
  <2>2. CASE x = o
    BY <1>1, <1>2, <1>4, <2>2, SameCounts, GotoWithin
  <2>3. QED
    BY <2>1, <2>2
<1>5. CASE Continue(g, o, "publish")
  <2>1. task[g][o] \in Task
    BY <1>2 DEF TypeOK
  <2>2. [task[g][o] EXCEPT !.pc = "publish"].pc # "clear"
    BY <2>1 DEF Task
  <2>3. QED
    BY <1>4, <1>5, <2>2 DEF Continue
<1>6. \A p \in {"publish", "update"} : \A row : Holding(p, row).pc # "clear"
  BY DEF Holding
<1>7. QED
  BY <1>1, <1>3, <1>4, <1>5, <1>6

\* The order's handler hands its token to the balance's.
LEMMA PublishPaymentTokens ==
  ASSUME TypeOK, TypeOK', NEW x \in Orders, TokenBound(x), NEW o \in Orders,
         PublishPayment(o)
  PROVE  NoTokenMade(x)
<1> DEFINE g == "order-processing-success"
           h == "user-order-payment"
           m == [Msg(Received(g, o).coupon) EXCEPT !.amount = AmountDue(o)]
           t == [Idle EXCEPT !.pc = "clear"]
<1>1. /\ queue[g][o] # <<>> /\ task[g][o].pc = "publish"
      /\ queue' = Published("order.payment", o, m) /\ Goto(g, o, t)
      /\ UNCHANGED <<store, logs, attempts, redeliveries>>
  BY DEF PublishPayment, At, dataVars, balanceVars
<1>2. m \in Message /\ g \in Workers /\ t.pc = "clear"
  BY <1>1, WaitingType, MessagesType DEF Idle
<1> HIDE DEF m, t
<1>3. CASE x # o
  BY <1>1, <1>2, <1>3, OthersPublish
<1>4. CASE x = o
  <2>1. /\ g \in BusyGroups \cup {CouponGroup} /\ h \in BusyGroups \ {g}
        /\ g # "user-order-payment" /\ task[g][x].pc # "clear" /\ g # CouponGroup
        /\ Subscribers("order.payment") \cap QueueGroups = {h}
    BY <1>1, <1>4, CountedSubscribers
  <2>2. /\ BusyHasMessage(x)'
        /\ Waiting("product-order-processing", x)' = Waiting("product-order-processing", x)
        /\ HandlerTokens(h, x)' = HandlerTokens(h, x) + 1
        /\ \A k \in BusyGroups \ {g, h} : HandlerTokens(k, x)' = HandlerTokens(k, x)
        /\ g \in BusyGroups => HandlerTokens(g, x)' = HandlerTokens(g, x) - 1
        /\ RequestToken(x)' = RequestToken(x)
        /\ g # CouponGroup => CouponToken(x)' = CouponToken(x)
    BY <1>1, <1>2, <1>4, <2>1, HandOver
  <2>3. StoreToken(x)' = StoreToken(x) /\ Deductions(x)' = Deductions(x)
    BY <1>1, SameCounts DEF Deductions
  <2>4. HandlerTokens("order-order-processing-stock-success", x)'
          = HandlerTokens("order-order-processing-stock-success", x)
    BY <2>2
  <2>5. Asked(x)' <= Asked(x) + 0
    BY <2>2, <2>4, TermsType DEF Asked
  <2>6. Joined(x)' <= Joined(x) + (-1)
    BY <2>2, <2>3, TermsType DEF Joined
  <2>7. Charged(x)' <= Charged(x) + 1
    BY <2>2, <2>3, TermsType DEF Charged
  <2>8. 0 + (-1) + 1 <= (attempts'[x] - attempts[x]) + (redeliveries' - redeliveries)
    <3>1. attempts'[x] = attempts[x] /\ redeliveries' = redeliveries
      BY <1>1
    <3>2. QED
      BY <3>1, TermsType
  <2>9. QED
    BY <2>2, <2>5, <2>6, <2>7, <2>8, Accounted
<1>5. QED
  BY <1>3, <1>4

\* The order's handlers make no token.
LEMMA ProcessOrderTokens ==
  ASSUME TypeOK, TypeOK', NEW x \in Orders, TokenBound(x), NEW o \in Orders,
         ProcessOrder(o)
  PROVE  NoTokenMade(x)
<1> DEFINE g == "order-payment-success"
<1>1. CASE ReadForCompletion(o) \/ WritePaid(o)
  <2>1. /\ queue[g][o] # <<>> /\ UNCHANGED <<store, logs, attempts>>
        /\ \/ Return(g, o, queue)
           \/ (\E t : Goto(g, o, t)) /\ UNCHANGED <<queue, redeliveries>>
    BY <1>1 DEF ReadForCompletion, WritePaid, At, Continue, dataVars, balanceVars
  <2>2. g \in Groups /\ g \notin QueueGroups \cup {"client", CouponGroup}
    BY DEF Groups
  <2>3. CASE Return(g, o, queue)
    BY <2>1, <2>2, <2>3, SameCounts, QuietReturn
  <2>4. ASSUME NEW t, Goto(g, o, t), UNCHANGED <<queue, redeliveries>>
        PROVE  NoTokenMade(x)
    <3>1. redeliveries <= redeliveries'
      BY <2>4, WaitingType
    <3>2. QED
      BY <2>1, <2>2, <2>4, <3>1, SameCounts, SameQueues, GotoKeeps
  <2>5. QED
    BY <2>1, <2>3, <2>4
<1>2. CASE PublishProcessed(o)
  <2>1. /\ queue[g][o] # <<>> /\ UNCHANGED <<store, logs, attempts>>
        /\ Return(g, o, Published("order.processed", o, Msg(Received(g, o).coupon)))
    BY <1>2 DEF PublishProcessed, At, dataVars, balanceVars
  <2>2. g \in Groups /\ Subscribers("order.processed") \cap QueueGroups = {}
    BY CountedSubscribers DEF Groups
  <2>3. Msg(Received(g, o).coupon) \in Message
    BY <2>1, <2>2, MessagesType
  <2>4. QED
    BY <2>1, <2>2, <2>3, SameCounts, QuietPublish
<1>3. QED
  BY <1>1, <1>2, ReadForPaymentTokens, PublishPaymentTokens DEF ProcessOrder

\* The money is taken: the token of the message becomes the deduction.
LEMMA DeductBalanceTokens ==
  ASSUME TypeOK, TypeOK', NEW x \in Orders, TokenBound(x), NEW o \in Orders,
         DeductBalance(o)
  PROVE  NoTokenMade(x)
<1> DEFINE g == "user-order-payment"
           t == [task[g][o] EXCEPT !.pc = "publish"]
           a == Received(g, o).amount
<1>1. /\ queue[g][o] # <<>> /\ task[g][o].pc = "idle"
      /\ Goto(g, o, t) /\ UNCHANGED <<queue, redeliveries, store, attempts>>
      /\ logs' = [logs EXCEPT ![o] = Append(@, a)]
  BY DEF DeductBalance, At, Continue
<1>2. g \in Groups /\ g \in Workers /\ g \in BusyGroups /\ LastStep(g) = "publish"
  BY DEF Groups, LastStep
<1>3. t.pc = "publish"
  BY <1>2 DEF TypeOK, Task
<1> HIDE DEF t, a
<1>4. \A h \in QueueGroups : Waiting(h, x)' = Waiting(h, x)
  BY <1>1, SameQueues
<1>5. /\ StoreToken(x)' = StoreToken(x) /\ StoreToken(x)' <= StoreToken(x)
      /\ attempts'[x] = attempts[x]
  BY <1>1 DEF StoreToken, One
<1>6. CASE x # o
  <2>1. logs'[x] = logs[x]
    BY <1>1, <1>6 DEF TypeOK
  <2>2. redeliveries <= redeliveries'
    BY <1>1, WaitingType
  <2>3. QED
    BY <1>1, <1>2, <1>4, <1>5, <1>6, <2>1, <2>2, GotoKeeps
<1>7. CASE x = o
  <2>1. /\ task'[g][x] = t
        /\ \A v \in Workers \ {g} : task'[v][x] = task[v][x]
        /\ BusyGroups \cup {"client", CouponGroup} \subseteq Workers
    BY <1>1, <1>2, <1>7, GotoEffect, WaitingType
  <2>2. Waiting(g, x) \in Nat /\ Waiting(g, x) > 0
    BY <1>1, <1>2, <1>7, WaitingType
  <2>3. BusyHasMessage(x)'
    BY <1>4, <2>1, <2>2 DEF BusyHasMessage, TokenBound
  <2>4. \A h \in BusyGroups \ {g} : HandlerTokens(h, x)' = HandlerTokens(h, x)
    BY <1>4, <2>1 DEF HandlerTokens
  <2>5. HandlerTokens(g, x)' = HandlerTokens(g, x) - 1
    BY <1>1, <1>2, <1>3, <1>4, <1>7, <2>1, <2>2 DEF HandlerTokens, One
  <2>6. RequestToken(x)' = RequestToken(x) /\ CouponToken(x)' = CouponToken(x)
    BY <2>1 DEF RequestToken, CouponToken
  <2>7. Deductions(x)' = Deductions(x) + 1
    <3>1. logs[x] \in Seq(Nat \ {0}) /\ logs'[x] \in Seq(Nat \ {0})
      BY DEF TypeOK
    <3>2. logs'[x] = Append(logs[x], a)
      BY <1>1, <1>7 DEF TypeOK
    <3>3. Len(Append(logs[x], a)) = Len(logs[x]) + 1
      BY <3>1
    <3>4. QED
      BY <3>2, <3>3 DEF Deductions
  <2>8. Asked(x)' <= Asked(x) + 0
    BY <1>4, <2>4, <2>6, TermsType DEF Asked
  <2>9. Joined(x)' <= Joined(x) + 0
    BY <1>5, <2>4, <2>6, TermsType DEF Joined
  <2>10. Charged(x)' <= Charged(x) + 0
    BY <2>5, <2>7, TermsType DEF Charged
  <2>11. 0 + 0 + 0 <= (attempts'[x] - attempts[x]) + (redeliveries' - redeliveries)
    <3>1. redeliveries' = redeliveries
      BY <1>1
    <3>2. QED
      BY <1>5, <3>1, TermsType
  <2>12. QED
    BY <2>3, <2>8, <2>9, <2>10, <2>11, Accounted
<1>8. QED
  BY <1>6, <1>7

\* The balance's handler turns its token into a deduction or drops it.
LEMMA ProcessPaymentTokens ==
  ASSUME TypeOK, TypeOK', NEW x \in Orders, TokenBound(x), NEW o \in Orders,
         ProcessPayment(o)
  PROVE  NoTokenMade(x)
<1> DEFINE g == "user-order-payment"
           m == Msg(Received(g, o).coupon)
<1>1. ASSUME PaymentSucceeded(o) \/ PaymentFailed(o)
      PROVE  NoTokenMade(x)
  <2>1. /\ queue[g][o] # <<>> /\ UNCHANGED <<store, logs, attempts>>
        /\ \E topic \in {"order.payment.success", "order.payment.fail"} :
             Return(g, o, Published(topic, o, m))
    BY <1>1 DEF PaymentSucceeded, PaymentFailed, At, dataVars, balanceVars
  <2>2. g \in Groups
    BY DEF Groups
  <2>3. m \in Message
    BY <2>1, <2>2, MessagesType
  <2>4. PICK topic \in {"order.payment.success", "order.payment.fail"} :
          Return(g, o, Published(topic, o, m))
    BY <2>1
  <2>5. Subscribers(topic) \cap QueueGroups = {}
    BY CountedSubscribers
  <2>6. QED
    BY <2>1, <2>2, <2>3, <2>4, <2>5, SameCounts, QuietPublish
<1>2. QED
  BY <1>1, DeductBalanceTokens DEF ProcessPayment

\* No handler of a compensation or of a completed order is counted.
LEMMA CompensateTokens ==
  ASSUME TypeOK, TypeOK', NEW x \in Orders, TokenBound(x), NEW o \in Orders,
         Compensate(o) \/ Finish(o)
  PROVE  NoTokenMade(x)
<1> DEFINE G == OrderFailGroups \cup ProductFailGroups \cup CouponFailGroups
                  \cup {"external-platform-redis-group", "product-order-processed"}
<1>1. \E g \in G :
        /\ queue[g][o] # <<>> /\ UNCHANGED <<store, logs, attempts>>
        /\ \/ Return(g, o, queue)
           \/ (\E t : Goto(g, o, t)) /\ UNCHANGED <<queue, redeliveries>>
  <2>1. ASSUME NEW g \in OrderFailGroups,
               ReadForCancel(g, o) \/ WriteCancel(g, o) \/ CancelFails(g, o)
        PROVE  /\ queue[g][o] # <<>> /\ UNCHANGED <<store, logs, attempts>>
               /\ \/ Return(g, o, queue)
                  \/ (\E t : Goto(g, o, t)) /\ UNCHANGED <<queue, redeliveries>>
    BY <2>1 DEF ReadForCancel, WriteCancel, CancelFails, AfterCancel, At,
                dataVars, balanceVars
  <2>2. ASSUME NEW g \in ProductFailGroups, RestoreItem(g, o) \/ StockRestored(g, o)
        PROVE  /\ queue[g][o] # <<>> /\ UNCHANGED <<store, logs, attempts>>
               /\ \/ Return(g, o, queue)
                  \/ (\E t : Goto(g, o, t)) /\ UNCHANGED <<queue, redeliveries>>
    BY <2>2 DEF RestoreItem, StockRestored, ItemDone, At, dataVars, balanceVars
  <2>3. ASSUME NEW g \in CouponFailGroups,
               SkipRelease(g, o) \/ ReleaseCheck(g, o) \/ ReleaseUse(g, o)
                 \/ DeleteUserCoupon(g, o)
        PROVE  /\ queue[g][o] # <<>> /\ UNCHANGED <<store, logs, attempts>>
               /\ \/ Return(g, o, queue)
                  \/ (\E t : Goto(g, o, t)) /\ UNCHANGED <<queue, redeliveries>>
    BY <2>3 DEF SkipRelease, ReleaseCheck, ReleaseUse, DeleteUserCoupon, Continue,
                At, dataVars, balanceVars
  <2>4. CASE ExportOrder(o)
    BY <2>4 DEF ExportOrder, At, balanceVars
  <2>5. CASE RecordSales(o)
    BY <2>5 DEF RecordSales, At, balanceVars
  <2>6. QED
    BY <2>1, <2>2, <2>3, <2>4, <2>5 DEF Compensate, Finish
<1>2. PICK g \in G :
        /\ queue[g][o] # <<>> /\ UNCHANGED <<store, logs, attempts>>
        /\ \/ Return(g, o, queue)
           \/ (\E t : Goto(g, o, t)) /\ UNCHANGED <<queue, redeliveries>>
  BY <1>1
<1>3. g \in Groups /\ g \notin QueueGroups \cup {"client", CouponGroup}
  BY DEF Groups, OrderFailGroups, ProductFailGroups, CouponFailGroups
<1>4. CASE Return(g, o, queue)
  BY <1>2, <1>3, <1>4, SameCounts, QuietReturn
<1>5. ASSUME NEW t, Goto(g, o, t), UNCHANGED <<queue, redeliveries>>
      PROVE  NoTokenMade(x)
  <2>1. redeliveries <= redeliveries'
    BY <1>5, WaitingType
  <2>2. QED
    BY <1>2, <1>3, <1>5, <2>1, SameCounts, SameQueues, GotoKeeps
<1>6. QED
  BY <1>2, <1>4, <1>5

\* A handler that starts over may have spent its token before.
LEMMA CrashTokens ==
  ASSUME TypeOK, TypeOK', NEW x \in Orders, TokenBound(x), NEW o \in Orders,
         NEW g \in Groups, Crash(g, o)
  PROVE  NoTokenMade(x)
<1>1. /\ Goto(g, o, Idle) /\ UNCHANGED <<queue, store, logs, attempts>>
      /\ redeliveries' = redeliveries + 1 /\ redeliveries \in Nat /\ g \in Workers
  BY WaitingType DEF Crash, dataVars, balanceVars
<1>2. /\ \A h \in QueueGroups : Waiting(h, x)' = Waiting(h, x)
      /\ redeliveries <= redeliveries'
  BY <1>1, SameQueues
<1>3. CASE x # o \/ g \notin BusyGroups \cup {CouponGroup}
  <2>1. g # "client"
    BY DEF Groups, MarkGroups, OrderFailGroups, ProductFailGroups, CouponFailGroups
  <2>2. QED
    BY <1>1, <1>2, <1>3, <2>1, SameCounts, GotoKeeps
<1>4. CASE x = o /\ g \in BusyGroups \cup {CouponGroup}
  <2>1. /\ task'[g][x].pc = "idle"
        /\ \A v \in Workers \ {g} : task'[v][x] = task[v][x]
        /\ BusyGroups \cup {"client", CouponGroup} \subseteq Workers
        /\ g # "client"
    BY <1>1, <1>4, GotoEffect, IdleIsUnpaid, WaitingType
  <2>2. BusyHasMessage(x)'
    BY <1>2, <2>1 DEF BusyHasMessage, TokenBound
  <2>3. \A h \in BusyGroups \ {g} : HandlerTokens(h, x)' = HandlerTokens(h, x)
    BY <1>2, <2>1 DEF HandlerTokens
  <2>4. g \in BusyGroups => HandlerTokens(g, x)' <= HandlerTokens(g, x) + 1
    <3>1. SUFFICES ASSUME g \in BusyGroups
                   PROVE  HandlerTokens(g, x)' <= HandlerTokens(g, x) + 1
      OBVIOUS
    <3>2. Waiting(g, x)' = Waiting(g, x)
      BY <1>2, <3>1
    <3>3. Waiting(g, x) \in Nat
      BY WaitingType
    <3>4. QED
      BY <3>2, <3>3 DEF HandlerTokens, One
  <2>5. RequestToken(x)' = RequestToken(x)
    BY <2>1 DEF RequestToken
  <2>6. CouponToken(x)' <= CouponToken(x) + 0
    BY <2>1 DEF CouponToken, One
  <2>7. StoreToken(x)' = StoreToken(x) /\ Deductions(x)' = Deductions(x)
    BY <1>1, SameCounts DEF Deductions
  <2>8. (attempts'[x] - attempts[x]) + (redeliveries' - redeliveries) = 1
    <3>1. attempts[x] \in Nat /\ attempts'[x] = attempts[x]
      BY <1>1 DEF TypeOK
    <3>2. QED
      BY <1>1, <3>1
  <2>9. CASE g = "order-order-processing-stock-success"
    <3>1. Asked(x)' <= Asked(x) + 1
      BY <1>2, <2>4, <2>5, <2>9, TermsType DEF Asked
    <3>2. Joined(x)' <= Joined(x) + 0
      BY <2>3, <2>6, <2>7, <2>9, TermsType DEF Joined
    <3>3. Charged(x)' <= Charged(x) + 0
      BY <2>3, <2>7, <2>9, TermsType DEF Charged
    <3>4. 1 + 0 + 0 <= (attempts'[x] - attempts[x]) + (redeliveries' - redeliveries)
      BY <2>8
    <3>5. QED
      BY <2>2, <3>1, <3>2, <3>3, <3>4, Accounted
  <2>10. CASE g = "order-processing-success"
    <3>1. Asked(x)' <= Asked(x) + 0
      BY <1>2, <2>3, <2>5, <2>10, TermsType DEF Asked
    <3>2. Joined(x)' <= Joined(x) + 1
      BY <2>4, <2>6, <2>7, <2>10, TermsType DEF Joined
    <3>3. Charged(x)' <= Charged(x) + 0
      BY <2>3, <2>7, <2>10, TermsType DEF Charged
    <3>4. 0 + 1 + 0 <= (attempts'[x] - attempts[x]) + (redeliveries' - redeliveries)
      BY <2>8
    <3>5. QED
      BY <2>2, <3>1, <3>2, <3>3, <3>4, Accounted
  <2>11. CASE g = "user-order-payment"
    <3>1. Asked(x)' <= Asked(x) + 0
      BY <1>2, <2>3, <2>5, <2>11, TermsType DEF Asked
    <3>2. Joined(x)' <= Joined(x) + 0
      BY <2>3, <2>6, <2>7, <2>11, TermsType DEF Joined
    <3>3. Charged(x)' <= Charged(x) + 1
      BY <2>4, <2>7, <2>11, TermsType DEF Charged
    <3>4. 0 + 0 + 1 <= (attempts'[x] - attempts[x]) + (redeliveries' - redeliveries)
      BY <2>8
    <3>5. QED
      BY <2>2, <3>1, <3>2, <3>3, <3>4, Accounted
  <2>12. CASE g = CouponGroup
    <3>1. \A h \in BusyGroups : task'[h][x].pc = task[h][x].pc
      BY <2>1, <2>12
    <3>2. RequestToken(x)' <= RequestToken(x) /\ CouponToken(x)' <= CouponToken(x)
      BY <2>5, <2>6, TermsType
    <3>3. QED
      BY <1>1, <1>2, <3>1, <3>2, SameCounts, TokensKept
  <2>13. QED
    BY <1>4, <2>9, <2>10, <2>11, <2>12
<1>5. QED
  BY <1>3, <1>4

\* A lapse makes no token; a redelivery makes one that is counted.
LEMMA FailureTokens ==
  ASSUME TypeOK, TypeOK', NEW x \in Orders, TokenBound(x), NEW o \in Orders,
         Expire(o) \/ \E g \in Groups : Swallow(g, o) \/ Crash(g, o)
  PROVE  NoTokenMade(x)
<1>1. ASSUME NEW g \in Groups, Swallow(g, o)
      PROVE  NoTokenMade(x)
  <2>1. /\ queue[g][o] # <<>> /\ Return(g, o, queue)
        /\ UNCHANGED <<store, logs, attempts>>
    BY <1>1 DEF Swallow, dataVars, balanceVars
  <2>2. QED
    BY <2>1, SameCounts, QuietReturn
<1>2. CASE Expire(o)
  <2>1. /\ BusyHasMessage(x)' <=> BusyHasMessage(x)
        /\ Tokens(x)' = Tokens(x) /\ attempts' = attempts /\ redeliveries' = redeliveries
    BY <1>2
    DEF Expire, balanceVars, BusyHasMessage, Tokens, Asked, Joined, Charged, RequestToken,
        StoreToken, CouponToken, HandlerTokens, Waiting, Deductions
  <2>2. Tokens(x) \in Int
    BY PartsType DEF Tokens
  <2>3. QED
    BY <2>1, <2>2, TermsType DEF NoTokenMade, TokenBound
<1>3. QED
  BY <1>1, <1>2, CrashTokens

\* No step makes a token, but an attempt or a redelivery.
LEMMA TokensStep ==
  ASSUME TypeOK, TypeOK', NEW x \in Orders, TokenBound(x), [Next]_vars
  PROVE  NoTokenMade(x) /\ TokenBound(x)'
<1>1. NoTokenMade(x)
  <2>1. CASE UNCHANGED vars
    <3>1. /\ BusyHasMessage(x)' <=> BusyHasMessage(x)
          /\ Tokens(x)' = Tokens(x) /\ attempts' = attempts /\ redeliveries' = redeliveries
      BY <2>1
      DEF vars, dataVars, balanceVars, BusyHasMessage, Tokens, Asked, Joined, Charged,
          RequestToken, StoreToken, CouponToken, HandlerTokens, Waiting, Deductions
    <3>2. Tokens(x) \in Int
      BY PartsType DEF Tokens
    <3>3. QED
      BY <3>1, <3>2, TermsType DEF NoTokenMade, TokenBound
  <2>2. CASE Next
    <3>1. PICK o \in Orders :
            \/ Request(o) \/ Aggregate(o) \/ ProcessStock(o) \/ ProcessCoupon(o)
            \/ ProcessOrder(o) \/ ProcessPayment(o) \/ Compensate(o) \/ Finish(o)
            \/ \E g \in Groups : Swallow(g, o) \/ Crash(g, o)
            \/ Expire(o)
      BY <2>2 DEF Next
    <3>2. CASE Request(o)
      BY <3>2, BeginPaymentTokens, MarkProcessingTokens, PublishProcessingTokens
      DEF Request
    <3>3. QED
      BY <3>1, <3>2, AggregateTokens, ProcessStockTokens, ProcessCouponTokens,
         ProcessOrderTokens, ProcessPaymentTokens, CompensateTokens, FailureTokens
  <2>3. QED
    BY <2>1, <2>2
<1>2. TokenBound(x)'
  <2>1. Tokens(x) \in Int /\ Tokens(x)' \in Int
    BY PartsType DEF Tokens
  <2>2. Tokens(x)' <= attempts'[x] + redeliveries'
    BY <1>1, <2>1, TermsType DEF NoTokenMade, TokenBound
  <2>3. QED
    BY <1>1, <2>2 DEF NoTokenMade, TokenBound
<1>3. QED
  BY <1>1, <1>2

\* The places of a token: none has less than none.
LEMMA PlacesAre ==
  ASSUME TypeOK, NEW x \in Orders, TokenBound(x)
  PROVE  /\ Waiting("product-order-processing", x) \in Nat
         /\ \A g \in BusyGroups : HandlerTokens(g, x) \in Nat
         /\ RequestToken(x) \in Nat /\ StoreToken(x) \in Nat /\ CouponToken(x) \in Nat
         /\ Deductions(x) \in Nat /\ Tokens(x) \in Nat
<1>2. \A g \in QueueGroups : Waiting(g, x) \in Nat
  BY WaitingType
<1>3. \A g \in BusyGroups : HandlerTokens(g, x) \in Nat
  <2>1. SUFFICES ASSUME NEW g \in BusyGroups
                 PROVE  HandlerTokens(g, x) \in Nat
    OBVIOUS
  <2>2. Waiting(g, x) \in Nat /\ LastStep(g) # "idle"
    BY <1>2 DEF LastStep
  <2>3. task[g][x].pc # "idle" => Waiting(g, x) > 0
    BY DEF TokenBound, BusyHasMessage
  <2>4. QED
    BY <2>2, <2>3 DEF HandlerTokens, One
<1>4. RequestToken(x) \in Nat /\ StoreToken(x) \in Nat /\ CouponToken(x) \in Nat
  BY DEF RequestToken, StoreToken, CouponToken, One
<1>5. Deductions(x) \in Nat
  BY WaitingType DEF Deductions
<1>6. Asked(x) \in Nat /\ Joined(x) \in Nat /\ Charged(x) \in Nat
  BY <1>2, <1>3, <1>4, <1>5 DEF Asked, Joined, Charged
<1>7. QED
  BY <1>2, <1>3, <1>4, <1>5, <1>6 DEF Tokens

\* The tokens of an order are bounded throughout.
LEMMA TokensAreBounded == Spec => []TokensBounded
<1>1. Init => TokensBounded
  <2> SUFFICES ASSUME Init, NEW x \in Orders
               PROVE  TokenBound(x)
    BY DEF TokensBounded
  <2>1. /\ \A w \in Workers : task[w][x].pc = "idle"
        /\ \A g \in Groups : queue[g][x] = <<>>
        /\ store[x].stockOk = FALSE /\ logs[x] = <<>>
        /\ attempts[x] = 0 /\ redeliveries = 0
    BY IdleIsUnpaid DEF Init, NoState
  <2>2. QueueGroups \cup {CouponGroup} \subseteq Groups
    BY DEF Groups, MarkGroups
  <2>3. \A g \in QueueGroups : Waiting(g, x) = 0
    BY <2>1, <2>2 DEF Waiting
  <2>4. \A g \in BusyGroups : HandlerTokens(g, x) = 0 /\ task[g][x].pc = "idle"
    BY <2>1, <2>2, <2>3 DEF HandlerTokens, One, LastStep
  <2>5. RequestToken(x) = 0 /\ StoreToken(x) = 0 /\ CouponToken(x) = 0
    BY <2>1, <2>2 DEF RequestToken, StoreToken, CouponToken, One
  <2>6. Deductions(x) = 0
    BY <2>1 DEF Deductions
  <2>7. Tokens(x) = 0
    BY <2>3, <2>4, <2>5, <2>6 DEF Tokens, Asked, Joined, Charged
  <2>8. QED
    BY <2>1, <2>4, <2>7 DEF TokenBound, BusyHasMessage
<1>2. TypeOK /\ TypeOK' /\ TokensBounded /\ [Next]_vars => TokensBounded'
  BY TokensStep DEF TokensBounded
<1>3. QED
  BY <1>1, <1>2, TypeCorrect, PTL DEF Spec

\* However the messages of its payment are interleaved, delivered again or
\* dropped, and whatever fails, an order is not charged more often than its
\* payment was asked for and its messages were delivered again.
THEOREM DeductionsAreBounded == Spec => []DeductionsBounded
<1>1. TypeOK /\ TokensBounded => DeductionsBounded
  <2> SUFFICES ASSUME TypeOK, TokensBounded, NEW x \in Orders
               PROVE  Len(logs[x]) <= attempts[x] + redeliveries
    BY DEF DeductionsBounded
  <2>1. TokenBound(x)
    BY DEF TokensBounded
  <2>2. Deductions(x) <= Tokens(x)
    BY <2>1, PlacesAre DEF Tokens, Asked, Joined, Charged
  <2>3. QED
    BY SMTT(40), <2>1, <2>2, PlacesAre, TermsType, WaitingType DEF TokenBound, Deductions
<1>2. QED
  BY <1>1, TokensAreBounded, TypeCorrect, PTL
=============================================================================
