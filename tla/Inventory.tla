------------------------------ MODULE Inventory ------------------------------
(***************************************************************************)
(* Who changes the stock of a product option (src/src/product, src/src/    *)
(* order, src/src/@schedulers): creating an order reserves it, payments    *)
(* confirm and restore it, the expiration scheduler releases it, and an    *)
(* administrator adjusts it.                                               *)
(*                                                                         *)
(* runInTransaction never joins a transaction that is open: it opens one   *)
(* of its own, on another connection of the pool.  createOrder runs inside *)
(* one and reserves inside a second one, which commits first.  A repository*)
(* locks the rows it reads (FOR UPDATE) inside a transaction only; the     *)
(* scheduler has none.  The payment is what OrderSaga has in full: here it *)
(* is one attempt, whose messages are neither lost nor redelivered.        *)
(***************************************************************************)
EXTENDS ProductOptionEntity, FiniteSets, FiniteSetsExt, Sequences

CONSTANTS
  Options,
  Orders,       \* requests to create an order, and the orders they create
  NoOrder,
  Items,        \* items of each order, in the order of the request
  InitialStock,
  Adjustments,  \* requests of the administrator: an option and a change
  Connections,  \* size of the connection pool
  Schedulers,   \* runs of the cron job that may overlap
  Payers,       \* orders whose users ask to pay
  Scanned,      \* orders of the users 1 to 1000
  Faults        \* "insert": the outer transaction fails after the inner one

\* What CreateOrderRequest lets through: @IsNotEmpty, @Min(1)
CreateOrderRequest == Seq([option : Options, quantity : Nat \ {0}]) \ {<<>>}

\* An increase or a decrease, @IsPositive
UpdateStockRequest == [option : Options, change : Int \ {0}]

ASSUME InventoryAssumption ==
  /\ NoOrder \notin Orders
  /\ \A o \in Orders :
       /\ Items[o] \in CreateOrderRequest
       /\ \A i, j \in 1..Len(Items[o]) :
            i # j => Items[o][i].option # Items[o][j].option
  /\ InitialStock \in [Options -> Nat]
  /\ Adjustments \subseteq UpdateStockRequest
  /\ Connections \in Nat
  /\ Payers \subseteq Orders
  /\ Scanned \subseteq Orders
  /\ Faults \subseteq {"insert"}

VARIABLES
  options,   \* table product_options, as committed
  orders,    \* status in table orders; "none" without a row
  lapsed,    \* orders whose expiredAt has passed
  create,    \* createOrder: next item, and the rows written but not committed
  pay,       \* the payment of each order
  sched,     \* each run of releaseExpiredOrders
  adjust,    \* updateStock
  ledger,    \* what became of each item's quantity, kept for the properties
  spoiled    \* options about which a run of the scheduler, or a payment it
             \* crossed, was mistaken, kept for the properties

requestVars == <<create, adjust>>
vars == <<options, orders, lapsed, create, pay, sched, adjust, ledger, spoiled>>

NoDraft == [p \in Options |-> [stock |-> 0, reserved |-> 0]]

Idle == [pc |-> "idle", work |-> {}, order |-> NoOrder, next |-> 0,
         seen |-> [stock |-> 0, reserved |-> 0]]
-----------------------------------------------------------------------------
(***************************************************************************)
(* The pool and the row locks.                                             *)
(***************************************************************************)
\* Connections in use, by the outer transactions and by the inner ones.  Other
\* statements take one for a moment only.
Used ==
  Cardinality({o \in Orders : create[o].pc \in {"outer", "reserve", "insert"}})
  + Cardinality({o \in Orders : create[o].pc = "reserve"})
  + Cardinality({a \in Adjustments : adjust[a] = "outer"})

FreeConnection == Used < Connections

\* Mutant of Locked: SELECT without FOR UPDATE
LockedByNobody(p) == FALSE

\* A reservation that is not committed has locked the rows of its items.
Locked(p) ==
  \E o \in Orders : /\ create[o].pc = "reserve"
                    /\ \E i \in 1..create[o].next-1 : Items[o][i].option = p
-----------------------------------------------------------------------------
(***************************************************************************)
(* createOrder                                                             *)
(***************************************************************************)
Creating(o, from, to) ==
  create[o].pc = from /\ create' = [create EXCEPT ![o].pc = to]

\* runInTransaction of the use case, and of reserveProductsForOrder
OpenOuter(o) ==
  /\ FreeConnection
  /\ Creating(o, "new", "outer")
  /\ UNCHANGED <<options, orders, lapsed, pay, sched, adjust, ledger, spoiled>>

OpenInner(o) ==
  /\ FreeConnection
  /\ Creating(o, "outer", "reserve")
  /\ UNCHANGED <<options, orders, lapsed, pay, sched, adjust, ledger, spoiled>>

NextItem(o) == Items[o][create[o].next]

\* The inner transaction is over.
Closed(pc) == [pc |-> pc, next |-> 1, draft |-> NoDraft]

\* findById locks the row, reserveStock checks it, update writes it.
ReserveItem(o) ==
  /\ create[o].pc = "reserve" /\ create[o].next <= Len(Items[o])
  /\ LET p == NextItem(o).option
         reserved == ReserveStock(options[p], NextItem(o).quantity) IN
     /\ ~Locked(p)
     /\ create' = [create EXCEPT ![o] =
          IF ValidStock(reserved)
          THEN [pc |-> "reserve", next |-> create[o].next + 1,
                draft |-> [create[o].draft EXCEPT ![p] = reserved]]
          ELSE Closed("failed")]
  /\ UNCHANGED <<options, orders, lapsed, pay, sched, adjust, ledger, spoiled>>

OptionsOf(o) == {Items[o][i].option : i \in 1..Len(Items[o])}

\* The inner transaction commits: the reservation is there, the order is not.
CommitReservation(o) ==
  /\ create[o].pc = "reserve" /\ create[o].next > Len(Items[o])
  /\ create' = [create EXCEPT ![o] = Closed("insert")]
  /\ options' = [p \in Options |->
                   IF p \in OptionsOf(o) THEN create[o].draft[p] ELSE options[p]]
  /\ ledger' = [ledger EXCEPT ![o] = [i \in DOMAIN @ |-> "reserved"]]
  /\ UNCHANGED <<orders, lapsed, pay, sched, adjust, spoiled>>

\* createPendingOrder, with ten minutes to pay
PendingOrder(o) == orders' = [orders EXCEPT ![o] = "PENDING"]

\* The order and its items are inserted, and the outer transaction commits.
InsertOrder(o) ==
  /\ Creating(o, "insert", "done")
  /\ PendingOrder(o)
  /\ UNCHANGED <<options, lapsed, pay, sched, adjust, ledger, spoiled>>

\* Mutant of TimesOut: a call waits for a connection as long as it takes.
LockTimesOut(o) ==
  /\ create[o].pc = "reserve" /\ create[o].next <= Len(Items[o])
  /\ Locked(NextItem(o).option)

\* A call that waits for a connection (maxWait) or a row (timeout, and the
\* database that finds a cycle of waits) is broken off.
TimesOut(o) ==
  \/ create[o].pc \in {"new", "outer"} /\ ~FreeConnection
  \/ /\ create[o].pc = "reserve" /\ create[o].next <= Len(Items[o])
     /\ Locked(NextItem(o).option)

\* The database refuses the order or an item, or the outer commit.
InsertFails(o) == create[o].pc = "insert" /\ "insert" \in Faults

\* Everything uncommitted is rolled back; a committed reservation stays.
CreateFails(o) ==
  /\ TimesOut(o) \/ InsertFails(o)
  /\ create' = [create EXCEPT ![o] = Closed("failed")]
  /\ UNCHANGED <<options, orders, lapsed, pay, sched, adjust, ledger, spoiled>>

CreateOrder(o) ==
  \/ OpenOuter(o) \/ OpenInner(o) \/ ReserveItem(o) \/ CommitReservation(o)
  \/ InsertOrder(o) \/ CreateFails(o)

\* The ten minutes are over (of an order somebody will ask).
Lapse(o) ==
  /\ o \in Payers \cup Scanned
  /\ orders[o] # "none" /\ o \notin lapsed
  /\ lapsed' = lapsed \cup {o}
  /\ UNCHANGED <<options, orders, requestVars, pay, sched, ledger, spoiled>>
-----------------------------------------------------------------------------
(***************************************************************************)
(* The payment: processPayment reads the order and then writes it; the     *)
(* stock is confirmed item by item, each in a transaction; the outcome     *)
(* completes the order, or restores every item and reopens the order.      *)
(***************************************************************************)
PayNext(o, pc) == pay' = [pay EXCEPT ![o].pc = pc]

\* canPay of the order as it is read
BeginPayment(o) ==
  /\ o \in Payers /\ pay[o].pc = "idle"
  /\ orders[o] = "PENDING" /\ o \notin lapsed
  /\ PayNext(o, "mark")
  /\ UNCHANGED <<options, orders, lapsed, requestVars, sched, ledger, spoiled>>

\* updateOrder: the row is written whatever it holds by now.
MarkProcessing(o) ==
  /\ pay[o].pc = "mark"
  /\ orders' = [orders EXCEPT ![o] = "PAYMENT_PROCESSING"]
  /\ PayNext(o, "confirm")
  /\ UNCHANGED <<options, lapsed, requestVars, sched, ledger, spoiled>>

\* The item of the order changes hands.  One that was not in the state it is
\* taken from spoils the account of its option.
Moves(o, i, from, to) ==
  /\ ledger' = [ledger EXCEPT ![o][i] = IF @ = from THEN to ELSE @]
  /\ spoiled' = IF ledger[o][i] = from THEN spoiled
                ELSE spoiled \cup {Items[o][i].option}

PayItem(o) == Items[o][pay[o].next]

\* One transaction: the row is read, checked and written under its lock.
TransactItem(o, changed, from, to) ==
  LET p == PayItem(o).option IN
  /\ pay[o].next <= Len(Items[o])
  /\ ~Locked(p) /\ ValidStock(changed)
  /\ options' = [options EXCEPT ![p] = changed]
  /\ pay' = [pay EXCEPT ![o].next = @ + 1]
  /\ Moves(o, pay[o].next, from, to)
  /\ UNCHANGED <<orders, lapsed, requestVars, sched>>

\* confirmPaymentStock
ConfirmItem(o) ==
  /\ pay[o].pc = "confirm" /\ pay[o].next <= Len(Items[o])
  /\ TransactItem(o, DecreaseStock(options[PayItem(o).option], PayItem(o).quantity),
                  "reserved", "sold")

Done == [pc |-> "done", next |-> 1, reopened |-> FALSE]

Undoing == [pc |-> "undo", next |-> 1, reopened |-> FALSE]

\* The stock refuses, or the payment fails when the stock is confirmed.
PaymentFails(o) ==
  /\ pay[o].pc = "confirm"
  /\ pay[o].next <= Len(Items[o]) =>
       /\ ~Locked(PayItem(o).option)
       /\ ~ValidStock(DecreaseStock(options[PayItem(o).option], PayItem(o).quantity))
  /\ pay' = [pay EXCEPT ![o] = Undoing]
  /\ UNCHANGED <<options, orders, lapsed, requestVars, sched, ledger, spoiled>>

\* completePayment throws when the order is no longer in payment.
CompletePayment(o) ==
  /\ pay[o].pc = "confirm" /\ pay[o].next > Len(Items[o])
  /\ orders' = [orders EXCEPT ![o] = IF @ = "PAYMENT_PROCESSING" THEN "PAID" ELSE @]
  /\ pay' = [pay EXCEPT ![o] = Done]
  /\ UNCHANGED <<options, lapsed, requestVars, sched, ledger, spoiled>>

\* restoreStockAfterPaymentFailure of every item
RestoreItem(o) ==
  /\ pay[o].pc = "undo" /\ pay[o].next <= Len(Items[o])
  /\ TransactItem(o, RestoreStock(options[PayItem(o).option], PayItem(o).quantity),
                  "sold", "reserved")

\* cancelPayment, in another consumer group
ReopenOrder(o) ==
  /\ pay[o].pc = "undo" /\ ~pay[o].reopened
  /\ orders' = [orders EXCEPT ![o] = IF @ \in {"PAID", "PAYMENT_PROCESSING"}
                                     THEN "PENDING" ELSE @]
  /\ pay' = [pay EXCEPT ![o].reopened = TRUE]
  /\ UNCHANGED <<options, lapsed, requestVars, sched, ledger, spoiled>>

Pay(o) ==
  \/ BeginPayment(o) \/ MarkProcessing(o) \/ ConfirmItem(o) \/ PaymentFails(o)
  \/ CompletePayment(o) \/ RestoreItem(o) \/ ReopenOrder(o)
-----------------------------------------------------------------------------
(***************************************************************************)
(* releaseExpiredOrders: no transaction, no lock.  One run reads all       *)
(* orders and then expires those it found PENDING and past expiredAt.      *)
(***************************************************************************)
\* findManyByUserId of every user it knows of
FoundOrders == {o \in Scanned : orders[o] # "none"}

Scan(s) ==
  LET expired == {o \in FoundOrders : orders[o] = "PENDING" /\ o \in lapsed} IN
  /\ sched[s].pc = "idle" /\ expired # {}
  /\ sched' = [sched EXCEPT ![s] = [Idle EXCEPT !.pc = "expire", !.work = expired]]
  /\ UNCHANGED <<options, orders, lapsed, requestVars, pay, ledger, spoiled>>

\* order.expire checks the row as it was read; update writes it.
ExpireOrder(s, o) ==
  /\ sched[s].pc = "expire" /\ o \in sched[s].work
  /\ orders' = [orders EXCEPT ![o] = "EXPIRED"]
  /\ sched' = [sched EXCEPT ![s] = [Idle EXCEPT !.pc = "read", !.order = o,
                                     !.work = sched[s].work \ {o}, !.next = 1]]
  /\ UNCHANGED <<options, lapsed, requestVars, pay, ledger, spoiled>>

SchedItem(s) == Items[sched[s].order][sched[s].next]

\* findById outside a transaction: the committed row, whoever has locked it
ReadOption(s) ==
  /\ sched[s].pc = "read"
  /\ sched' = [sched EXCEPT ![s].pc = "write",
                            ![s].seen = options[SchedItem(s).option]]
  /\ UNCHANGED <<options, orders, lapsed, requestVars, pay, ledger, spoiled>>

\* The next order of the run, if any
NextOrder(s) ==
  [Idle EXCEPT !.pc = IF sched[s].work = {} THEN "idle" ELSE "expire",
               !.work = sched[s].work]

\* Mutant of AfterItem: the last item is left out.
AfterItemEarly(s) ==
  IF sched[s].next + 1 >= Len(Items[sched[s].order])
  THEN NextOrder(s)
  ELSE [sched[s] EXCEPT !.pc = "read", !.next = @ + 1, !.seen = Idle.seen]

\* The next item of the order, or the next order
AfterItem(s) ==
  IF sched[s].next = Len(Items[sched[s].order])
  THEN NextOrder(s)
  ELSE [sched[s] EXCEPT !.pc = "read", !.next = @ + 1, !.seen = Idle.seen]

\* The row still holds what was read, and the reservation is still there.
ReadIsTrue(s) ==
  /\ sched[s].seen = options[SchedItem(s).option]
  /\ ledger[sched[s].order][sched[s].next] = "reserved"

\* update: both columns are written from what was read.
WriteOption(s) ==
  LET item == SchedItem(s)
      released == ReleaseReservedStock(sched[s].seen, item.quantity) IN
  /\ sched[s].pc = "write" /\ ~Locked(item.option)
  /\ ValidStock(released)
  /\ options' = [options EXCEPT ![item.option] = released]
  /\ ledger' = [ledger EXCEPT ![sched[s].order][sched[s].next] =
                   IF @ = "reserved" THEN "released" ELSE @]
  /\ spoiled' = IF ReadIsTrue(s) THEN spoiled ELSE spoiled \cup {item.option}
  /\ sched' = [sched EXCEPT ![s] = AfterItem(s)]
  /\ UNCHANGED <<orders, lapsed, requestVars, pay>>

\* releaseReservedStock throws: the other items of the order keep their
\* reservation.
ReleaseRefused(s) ==
  /\ sched[s].pc = "write"
  /\ ~ValidStock(ReleaseReservedStock(sched[s].seen, SchedItem(s).quantity))
  /\ spoiled' = IF ReadIsTrue(s) THEN spoiled ELSE spoiled \cup {SchedItem(s).option}
  /\ sched' = [sched EXCEPT ![s] = NextOrder(s)]
  /\ UNCHANGED <<options, orders, lapsed, requestVars, pay, ledger>>

ReleaseExpired(s) ==
  \/ Scan(s) \/ ReadOption(s) \/ WriteOption(s) \/ ReleaseRefused(s)
  \/ \E o \in Scanned : ExpireOrder(s, o)
-----------------------------------------------------------------------------
(***************************************************************************)
(* updateStock: a transaction around the transaction that does the work    *)
(***************************************************************************)
OpenUpdate(a) ==
  /\ adjust[a] = "new" /\ FreeConnection
  /\ adjust' = [adjust EXCEPT ![a] = "outer"]
  /\ UNCHANGED <<options, orders, lapsed, create, pay, sched, ledger, spoiled>>

\* updateProductOptionStock: read, check, write under the lock of the row
UpdateStock(a) ==
  LET changed == AdjustStock(options[a.option], a.change) IN
  /\ adjust[a] = "outer" /\ FreeConnection /\ ~Locked(a.option)
  /\ IF ValidStock(changed)
     THEN /\ options' = [options EXCEPT ![a.option] = changed]
          /\ adjust' = [adjust EXCEPT ![a] = "done"]
     ELSE /\ adjust' = [adjust EXCEPT ![a] = "failed"]
          /\ UNCHANGED options
  /\ UNCHANGED <<orders, lapsed, create, pay, sched, ledger, spoiled>>

UpdateFails(a) ==
  /\ \/ adjust[a] \in {"new", "outer"} /\ ~FreeConnection
     \/ adjust[a] = "outer" /\ Locked(a.option)
  /\ adjust' = [adjust EXCEPT ![a] = "failed"]
  /\ UNCHANGED <<options, orders, lapsed, create, pay, sched, ledger, spoiled>>

Adjust(a) == OpenUpdate(a) \/ UpdateStock(a) \/ UpdateFails(a)
-----------------------------------------------------------------------------
Init ==
  /\ options = [p \in Options |-> [stock |-> InitialStock[p], reserved |-> 0]]
  /\ orders = [o \in Orders |-> "none"]
  /\ lapsed = {}
  /\ create = [o \in Orders |-> [pc |-> "new", next |-> 1, draft |-> NoDraft]]
  /\ pay = [o \in Orders |-> [pc |-> "idle", next |-> 1, reopened |-> FALSE]]
  /\ sched = [s \in Schedulers |-> Idle]
  /\ adjust = [a \in Adjustments |-> "new"]
  /\ ledger = [o \in Orders |-> [i \in 1..Len(Items[o]) |-> "none"]]
  /\ spoiled = {}

Next ==
  \/ \E o \in Orders : CreateOrder(o) \/ Lapse(o) \/ Pay(o)
  \/ \E s \in Schedulers : ReleaseExpired(s)
  \/ \E a \in Adjustments : Adjust(a)

Spec == Init /\ [][Next]_vars

\* Requests that have begun go on, in any order, and the cron job runs.
RequestsGoOn ==
  \/ \E o \in Orders : create[o].pc # "new" /\ CreateOrder(o)
  \/ \E a \in Adjustments : adjust[a] # "new" /\ Adjust(a)

FairSpec ==
  /\ Spec
  /\ WF_vars(RequestsGoOn)
  /\ WF_vars(\E s \in Schedulers : ReleaseExpired(s))
-----------------------------------------------------------------------------
\* In particular the stock of an option covers what is reserved of it.
TypeOK ==
  /\ \A p \in Options : options[p] \in Option
                      /\ 0 <= options[p].reserved /\ options[p].reserved <= options[p].stock
  /\ orders \in [Orders -> {"none", "PENDING", "PAYMENT_PROCESSING", "PAID", "EXPIRED"}]
  /\ lapsed \subseteq Orders
  /\ create \in [Orders -> [pc : {"new", "outer", "reserve", "insert", "done", "failed"},
                            next : Nat, draft : [Options -> Option]]]
  /\ pay \in [Orders -> [pc : {"idle", "mark", "confirm", "undo", "done"},
                         next : Nat, reopened : BOOLEAN]]
  /\ sched \in [Schedulers -> [pc : {"idle", "expire", "read", "write"},
                               work : SUBSET Scanned, order : Orders \cup {NoOrder},
                               next : Nat, seen : Option]]
  /\ adjust \in [Adjustments -> {"new", "outer", "done", "failed"}]
  /\ \A o \in Orders :
       ledger[o] \in [1..Len(Items[o]) -> {"none", "reserved", "sold", "released"}]
  /\ spoiled \subseteq Options

\* Every item of every order: the order and the item's place in it
Entries == UNION {{o} \X DOMAIN Items[o] : o \in Orders}

Units == [e \in Entries |-> Items[e[1]][e[2]].quantity]

\* How much of the option is in a state of the ledger
Quantity(p, state) ==
  MapThenSumSet(LAMBDA e : Units[e],
                {e \in Entries : /\ Items[e[1]][e[2]].option = p
                                 /\ ledger[e[1]][e[2]] = state})

Changes == [a \in Adjustments |-> a.change]

Adjusted(p) ==
  MapThenSumSet(LAMBDA a : Changes[a],
                {a \in Adjustments : a.option = p /\ adjust[a] = "done"})

\* NFR-004, NFR-005: reservations, confirmations, restorations and changes by
\* the administrator, however they interleave and fail, leave a stock and a
\* reservation that are exactly what the orders account for.  The scheduler
\* alone can spoil them: by writing back a row that has changed, or by
\* releasing an order that was paid or released meanwhile.
StockIsAccountedFor ==
  \A p \in Options \ spoiled :
    /\ options[p].reserved = Quantity(p, "reserved")
    /\ options[p].stock = InitialStock[p] + Adjusted(p) - Quantity(p, "sold")

\* create-order.use-case.ts: stock is reserved and the order created
\* atomically; when the request is over, what it reserved is an order's.
ReservedForAnOrder ==
  \A o \in Orders :
    create[o].pc = "failed" => \A i \in DOMAIN ledger[o] : ledger[o][i] = "none"

\* Orders that lock the same options in opposite orders, and more requests
\* than the pool has connections for, end all the same.
RequestsEnd ==
  /\ \A o \in Orders : create[o].pc = "outer" ~> create[o].pc \in {"done", "failed"}
  /\ \A a \in Adjustments : adjust[a] = "outer" ~> adjust[a] \in {"done", "failed"}

\* Nothing of a payment of the order is going on.
Unpaid(o) ==
  \/ pay[o].pc \in {"idle", "done"}
  \/ pay[o].pc = "undo" /\ pay[o].reopened /\ pay[o].next > Len(Items[o])

Waiting(o) == orders[o] = "PENDING" /\ o \in lapsed /\ Unpaid(o)

\* BR-005: an order nobody pays in time leaves PENDING, and its reservations
\* are released, unless an option was spoiled.
ExpiredIsReleased ==
  \A o \in Scanned :
    Waiting(o) ~>
      /\ orders[o] # "PENDING"
      /\ spoiled # {} \/ \A i \in DOMAIN ledger[o] : ledger[o][i] # "reserved"
=============================================================================
