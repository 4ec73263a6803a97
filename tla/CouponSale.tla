------------------------------ MODULE CouponSale ------------------------------
(***************************************************************************)
(* What a coupon campaign promises (NFR-006, NFR-010, BR-006, BR-008): a   *)
(* registered coupon is granted to a user at most once, to no more users   *)
(* than its quantity allows, never after it expired, and a granted coupon  *)
(* discounts at most one order at a time.                                  *)
(***************************************************************************)
EXTENDS FiniteSets, Integers

CONSTANTS Users, Coupons, Orders, UserOf, CouponOf, Total

VARIABLES
  open,      \* coupons that were registered and have not expired
  granted,   \* users of each coupon
  discounts  \* orders whose payment carries its coupon's discount

Init == open = {} /\ granted = [c \in Coupons |-> {}] /\ discounts = {}

Open(c) == open' = open \cup {c} /\ UNCHANGED <<granted, discounts>>

Close(c) == open' = open \ {c} /\ UNCHANGED <<granted, discounts>>

Grant(u, c) ==
  /\ c \in open
  /\ u \notin granted[c]
  /\ Cardinality(granted[c]) < Total[c]
  /\ granted' = [granted EXCEPT ![c] = @ \cup {u}]
  /\ UNCHANGED <<open, discounts>>

Rivals(o) == {p \in Orders \ {o} : UserOf[p] = UserOf[o] /\ CouponOf[p] = CouponOf[o]}

Discount(o) ==
  /\ UserOf[o] \in granted[CouponOf[o]]
  /\ Rivals(o) \cap discounts = {}
  /\ discounts' = discounts \cup {o}
  /\ UNCHANGED <<open, granted>>

\* The payment of the order has failed.
Withdraw(o) == discounts' = discounts \ {o} /\ UNCHANGED <<open, granted>>

Next ==
  \/ \E c \in Coupons : Open(c) \/ Close(c) \/ \E u \in Users : Grant(u, c)
  \/ \E o \in Orders : Discount(o) \/ Withdraw(o)

Spec == Init /\ [][Next]_<<open, granted, discounts>>
=============================================================================
