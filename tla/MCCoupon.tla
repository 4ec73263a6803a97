------------------------------- MODULE MCCoupon -------------------------------
(***************************************************************************)
(* Small instances of the coupon campaign.                                 *)
(***************************************************************************)
EXTENDS CouponRedis

CONSTANTS buyer, rival, first, second, coupon

\* Two orders of one user want the one coupon, for which a second user asks.
OwnerOf == [o \in Orders |-> buyer]

\* Every order names the same coupon, which its user may or may not hold.
NamedCoupon == [o \in Orders |-> coupon]

OneEach == [c \in Coupons |-> 1]
=============================================================================
