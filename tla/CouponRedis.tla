----------------------------- MODULE CouponRedis -----------------------------
(***************************************************************************)
(* Coupons in Redis (src/src/coupon/infrastructure/coupon.redis.service.ts *)
(* and its callers): issue with a Lua script, use and release by payments, *)
(* and the user_coupons row in MySQL that a use leaves.  Users ask for     *)
(* coupons as often as they like; each order is paid once, with a coupon,  *)
(* and its payment may fail in another service, before or after the coupon *)
(* was used (what those services do is OrderSaga).                         *)
(***************************************************************************)
EXTENDS Integers, FiniteSets

CONSTANTS
  Users,
  Coupons,
  Orders,
  NoOrder,
  UserOf,          \* whose order
  CouponOf,        \* the coupon the payment of the order names
  Total,           \* totalQuantity of each coupon
  Faults,          \* calls that may fail: "record" in MySQL, "publish"
  MaxRedeliveries  \* bound on redeliveries of order.processing, per order

ASSUME CouponAssumption ==
  /\ NoOrder \notin Orders
  /\ Orders \cap {"absent", "phantom", "unused"} = {}
  /\ UserOf \in [Orders -> Users]
  /\ CouponOf \in [Orders -> Coupons]
  /\ Total \in [Coupons -> Nat]
  /\ Faults \subseteq {"record", "publish"}
  /\ MaxRedeliveries \in Nat

VARIABLES
  coupons,      \* data:coupon:{id}: is it cached, and its issuedQuantity
  lapsed,       \* coupons whose expiredAt has passed
  userCoupons,  \* data:user-coupon:{couponId}:{userId}
  rows,         \* MySQL user_coupons, unique on user and coupon
  task,         \* coupon-order-processing, per order
  undo,         \* the coupon's groups for failed payments, per order
  published,    \* orders whose order.processing.coupon.success is out
  failure,      \* in which other service the payment failed
  redelivered   \* redeliveries so far

saleVars == <<coupons, lapsed>>
payVars  == <<task, undo, published, failure, redelivered>>
vars     == <<saleVars, userCoupons, rows, payVars>>

\* validateQuantity of the coupon that is built from the hash
CachedCoupon(c) == [cached : BOOLEAN, issuedQuantity : 0..Total[c]]

\* A user-coupon hash: absent, with the two fields of a cancelled use and no
\* others, issued and unused, or used by an order
UserCoupon == {"absent", "phantom", "unused"} \cup Orders

\* getCachedUserCoupons: every hash of the user.  Of one with two fields it
\* makes a coupon without ids or dates.
CachedUserCoupons(u) == {c \in Coupons : userCoupons[u][c] # "absent"}

Holders(c) == {u \in Users : c \in CachedUserCoupons(u) /\ userCoupons[u][c] # "phantom"}

\* The hash the payment of the order is about
HashOf(o) == userCoupons[UserOf[o]][CouponOf[o]]

SetHash(o, h) == userCoupons' = [userCoupons EXCEPT ![UserOf[o]][CouponOf[o]] = h]
-----------------------------------------------------------------------------
(***************************************************************************)
(* The campaign: an operator registers a coupon, users ask for it.         *)
(***************************************************************************)
RegisterCoupon(c) ==
  /\ ~coupons[c].cached
  /\ coupons' = [coupons EXCEPT ![c].cached = TRUE]
  /\ UNCHANGED <<lapsed, userCoupons, rows, payVars>>

\* Date.now() passes expiredAt.
Expire(c) ==
  /\ c \notin lapsed
  /\ lapsed' = lapsed \cup {c}
  /\ UNCHANGED <<coupons, userCoupons, rows, payVars>>

\* Mutant of Issuable: off by one
IssuableOnceMore(u, c) ==
  /\ coupons[c].cached
  /\ userCoupons[u][c] = "absent"
  /\ c \notin lapsed
  /\ coupons[c].issuedQuantity <= Total[c]

\* The script's checks; any hash counts as issued, be it only two fields.
Issuable(u, c) ==
  /\ coupons[c].cached
  /\ userCoupons[u][c] = "absent"
  /\ c \notin lapsed
  /\ coupons[c].issuedQuantity < Total[c]

\* The ISSUE script: HINCRBY and HSET.  The answer is composed from
\* getCachedCoupon afterwards; one that is lost leaves the coupon issued.
IssueCoupon(u, c) ==
  /\ Issuable(u, c)
  /\ coupons' = [coupons EXCEPT ![c].issuedQuantity = @ + 1]
  /\ userCoupons' = [userCoupons EXCEPT ![u][c] = "unused"]
  /\ UNCHANGED <<lapsed, rows, payVars>>
-----------------------------------------------------------------------------
(***************************************************************************)
(* order.processing: use the coupon, record the use, report it.            *)
(***************************************************************************)
TaskStep(o, from, to) == task[o] = from /\ task' = [task EXCEPT ![o] = to]

\* The payment request; nobody checks whose coupon it names.
Ask(o) ==
  /\ TaskStep(o, "none", "get")
  /\ UNCHANGED <<saleVars, userCoupons, rows, undo, published, failure, redelivered>>

GetCachedCoupon(o) ==
  /\ TaskStep(o, "get", IF coupons[CouponOf[o]].cached THEN "use" ELSE "cancelCheck")
  /\ UNCHANGED <<saleVars, userCoupons, rows, undo, published, failure, redelivered>>

\* The USE script.  A hash of two fields has no expiredAt: the script breaks
\* off at the comparison with nil.
UseCoupon(o) ==
  /\ \/ /\ HashOf(o) = "unused" /\ CouponOf[o] \notin lapsed
        /\ SetHash(o, o)
        /\ TaskStep(o, "use", "create")
     \/ /\ HashOf(o) # "unused" \/ CouponOf[o] \in lapsed
        /\ TaskStep(o, "use", "cancelCheck")
        /\ UNCHANGED userCoupons
  /\ UNCHANGED <<saleVars, rows, undo, published, failure, redelivered>>

\* Mutant of CreateUserCoupon: the row of an earlier use is overwritten.
UpsertUserCoupon(o) ==
  /\ TaskStep(o, "create", "publish")
  /\ rows' = [rows EXCEPT ![UserOf[o]][CouponOf[o]] = o]
  /\ UNCHANGED <<saleVars, userCoupons, undo, published, failure, redelivered>>

\* Mutant of CreateUserCoupon: a refused row ends the handler.
CreateOrGiveUp(o) ==
  /\ IF rows[UserOf[o]][CouponOf[o]] = NoOrder
     THEN /\ rows' = [rows EXCEPT ![UserOf[o]][CouponOf[o]] = o]
          /\ TaskStep(o, "create", "publish")
     ELSE TaskStep(o, "create", "stopped") /\ UNCHANGED rows
  /\ UNCHANGED <<saleVars, userCoupons, undo, published, failure, redelivered>>

\* createUserCoupon: (user_id, coupon_id) is unique.
CreateUserCoupon(o) ==
  /\ \/ /\ rows[UserOf[o]][CouponOf[o]] = NoOrder
        /\ rows' = [rows EXCEPT ![UserOf[o]][CouponOf[o]] = o]
        /\ TaskStep(o, "create", "publish")
     \/ /\ rows[UserOf[o]][CouponOf[o]] # NoOrder \/ "record" \in Faults
        /\ TaskStep(o, "create", "cancelCheck")
        /\ UNCHANGED rows
  /\ UNCHANGED <<saleVars, userCoupons, undo, published, failure, redelivered>>

PublishSuccess(o) ==
  /\ \/ TaskStep(o, "publish", "used") /\ published' = published \cup {o}
     \/ /\ "publish" \in Faults
        /\ TaskStep(o, "publish", "cancelCheck")
        /\ UNCHANGED published
  /\ UNCHANGED <<saleVars, userCoupons, rows, undo, failure, redelivered>>

UsedByAnother(o) == HashOf(o) \in Orders \ {o}

\* The catch: cancelCouponUse reads the hash ...
CancelCheck(o) ==
  /\ TaskStep(o, "cancelCheck", IF UsedByAnother(o) THEN "publishFail" ELSE "cancel")
  /\ UNCHANGED <<saleVars, userCoupons, rows, undo, published, failure, redelivered>>

\* Mutant of Cancelled: the hash is deleted.
CancelledAndDeleted(hash) == "absent"

\* HSET of two fields, whatever the key holds by now
Cancelled(hash) == IF hash \in {"absent", "phantom"} THEN "phantom" ELSE "unused"

\* ... and writes it.
CancelUse(o) ==
  /\ TaskStep(o, "cancel", "publishFail")
  /\ SetHash(o, Cancelled(HashOf(o)))
  /\ UNCHANGED <<saleVars, rows, undo, published, failure, redelivered>>

\* The coupon's own groups skip this message: failedBy names the handler.
PublishFail(o) ==
  /\ TaskStep(o, "publishFail", "failed")
  /\ UNCHANGED <<saleVars, userCoupons, rows, undo, published, failure, redelivered>>

\* The message is handled again, from the start.
Redeliver(o) ==
  /\ \E p \in {"use", "create", "publish", "used", "cancelCheck", "cancel",
               "publishFail", "failed"} : TaskStep(o, p, "get")
  /\ redelivered[o] < MaxRedeliveries
  /\ redelivered' = [redelivered EXCEPT ![o] = @ + 1]
  /\ UNCHANGED <<saleVars, userCoupons, rows, undo, published, failure>>
-----------------------------------------------------------------------------
(***************************************************************************)
(* order.processing.fail and order.payment.fail: release the coupon.       *)
(***************************************************************************)
UndoStep(o, from, to) == undo[o] = from /\ undo' = [undo EXCEPT ![o] = to]

\* The stock may fail at any time, the payment once the coupon is used.
FailElsewhere(o, service) ==
  /\ task[o] # "none" /\ failure[o] = "none"
  /\ service = "payment" => o \in published
  /\ failure' = [failure EXCEPT ![o] = service]
  /\ UndoStep(o, "none", "check")
  /\ UNCHANGED <<saleVars, userCoupons, rows, task, published, redelivered>>

ReleaseCheck(o) ==
  /\ UndoStep(o, "check", IF UsedByAnother(o) THEN "delete" ELSE "cancel")
  /\ UNCHANGED <<saleVars, userCoupons, rows, task, published, failure, redelivered>>

ReleaseUse(o) ==
  /\ UndoStep(o, "cancel", "delete")
  /\ SetHash(o, Cancelled(HashOf(o)))
  /\ UNCHANGED <<saleVars, rows, task, published, failure, redelivered>>

\* Mutant of DeleteUserCoupon: the row is looked up by user and coupon.
DeleteByCoupon(o) ==
  /\ UndoStep(o, "delete", "done")
  /\ rows' = [rows EXCEPT ![UserOf[o]][CouponOf[o]] = NoOrder]
  /\ UNCHANGED <<saleVars, userCoupons, task, published, failure, redelivered>>

\* deleteByOrderId: every row of the order
DeleteUserCoupon(o) ==
  /\ UndoStep(o, "delete", "done")
  /\ rows' = [u \in Users |-> [c \in Coupons |->
                IF rows[u][c] = o THEN NoOrder ELSE rows[u][c]]]
  /\ UNCHANGED <<saleVars, userCoupons, task, published, failure, redelivered>>
-----------------------------------------------------------------------------
Init ==
  /\ coupons = [c \in Coupons |-> [cached |-> FALSE, issuedQuantity |-> 0]]
  /\ lapsed = {}
  /\ userCoupons = [u \in Users |-> [c \in Coupons |-> "absent"]]
  /\ rows = [u \in Users |-> [c \in Coupons |-> NoOrder]]
  /\ task = [o \in Orders |-> "none"]
  /\ undo = [o \in Orders |-> "none"]
  /\ published = {}
  /\ failure = [o \in Orders |-> "none"]
  /\ redelivered = [o \in Orders |-> 0]

Campaign ==
  \E c \in Coupons :
    RegisterCoupon(c) \/ Expire(c) \/ \E u \in Users : IssueCoupon(u, c)

Use(o) ==
  \/ GetCachedCoupon(o) \/ UseCoupon(o) \/ CreateUserCoupon(o) \/ PublishSuccess(o)
  \/ CancelCheck(o) \/ CancelUse(o) \/ PublishFail(o)

Undo(o) == ReleaseCheck(o) \/ ReleaseUse(o) \/ DeleteUserCoupon(o)

Next ==
  \/ Campaign
  \/ \E o \in Orders :
       \/ Ask(o) \/ Use(o) \/ Redeliver(o) \/ Undo(o)
       \/ \E service \in {"stock", "payment"} : FailElsewhere(o, service)

Spec == Init /\ [][Next]_vars

\* A handler that has taken a message goes on.
FairSpec == Spec /\ \A o \in Orders : WF_vars(Use(o)) /\ WF_vars(Undo(o))
-----------------------------------------------------------------------------
\* In particular a coupon is never issued more often than its quantity, or
\* the coupon could no longer be read (NFR-010).
TypeOK ==
  /\ \A c \in Coupons : coupons[c] \in CachedCoupon(c)
  /\ lapsed \subseteq Coupons
  /\ userCoupons \in [Users -> [Coupons -> UserCoupon]]
  /\ rows \in [Users -> [Coupons -> Orders \cup {NoOrder}]]
  /\ task \in [Orders -> {"none", "get", "use", "create", "publish", "used",
                          "cancelCheck", "cancel", "publishFail", "failed"}]
  /\ undo \in [Orders -> {"none", "check", "cancel", "delete", "done"}]
  /\ published \subseteq Orders
  /\ failure \in [Orders -> {"none", "stock", "payment"}]
  /\ redelivered \in [Orders -> 0..MaxRedeliveries]

\* NFR-010: issuedQuantity counts the users who have the coupon, used or not,
\* through every use, release and repeated request.
IssuedCountsHolders ==
  \A c \in Coupons : coupons[c].issuedQuantity = Cardinality(Holders(c))

\* Orders that go on to be paid with the discount
Discounted == {o \in published : failure[o] = "none"}

\* BR-008: although a release can undo the use of another order in Redis, two
\* orders never both keep the discount of one coupon of one user: the row in
\* MySQL stands until the payment it was written for has failed.
DiscountHasRow ==
  \A o \in Discounted : rows[UserOf[o]][CouponOf[o]] = o

\* order.processing is answered, with a success or a failure.
UseAnswered == \A o \in Orders : task[o] = "get" ~> task[o] \in {"used", "failed"}

Sale == INSTANCE CouponSale WITH
  open <- {c \in Coupons : coupons[c].cached} \ lapsed,
  granted <- [c \in Coupons |-> Holders(c)],
  discounts <- Discounted

\* Scripts, releases, redeliveries and faults implement the campaign.
SaleRefined == Sale!Spec
=============================================================================
