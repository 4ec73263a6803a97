-------------------------- MODULE CoordinatorStore --------------------------
(***************************************************************************)
(* The Redis hash order:processing:state:{orderId} in which the stock and  *)
(* the coupon results of one payment are brought together                  *)
(* (src/src/order/infrastructure/order-processing-state.store.ts).         *)
(*                                                                         *)
(* A field the hash does not have reads like '0' or 'null'; "inited" says  *)
(* whether init wrote the identifying fields (orderId, userId, couponId,   *)
(* itemsJson).  A hash that holds marks only, because a mark came before   *)
(* init or after clear, has inited = FALSE.                                *)
(***************************************************************************)
EXTENDS OrderEntity

CoordinatorState ==
  [inited : BOOLEAN, coupon : MaybeCoupon, stockOk : BOOLEAN,
   couponOk : BOOLEAN, applied : MaybeCoupon, emitted : BOOLEAN]

\* clear: DEL of the key
NoState ==
  [inited |-> FALSE, coupon |-> NoCoupon, stockOk |-> FALSE,
   couponOk |-> FALSE, applied |-> NoCoupon, emitted |-> FALSE]

\* Mutant of InitState: a payment without a coupon waits for one.
InitWaitsForCoupon(c) ==
  [inited |-> TRUE, coupon |-> c, stockOk |-> FALSE,
   couponOk |-> FALSE, applied |-> NoCoupon, emitted |-> FALSE]

\* init: HSET of all eight fields, whatever the hash held before
InitState(c) ==
  [inited |-> TRUE, coupon |-> c, stockOk |-> FALSE,
   couponOk |-> (c = NoCoupon), applied |-> NoCoupon, emitted |-> FALSE]

\* Mutant of Ready: the coupon is not waited for.
ReadyOnStock(s) == s.stockOk /\ ~s.emitted

\* The Lua script's test, on the hash after its HSETs.
Ready(s) == s.stockOk /\ s.couponOk /\ ~s.emitted

\* Mutant of Emit: every call of the script sets emitted.
EmitAlways(s) == [s EXCEPT !.emitted = TRUE]

\* A ready hash is marked as emitted by the script that finds it ready.
Emit(s) == IF Ready(s) THEN [s EXCEPT !.emitted = TRUE] ELSE s

MarkedStock(s) == [s EXCEPT !.stockOk = TRUE]

MarkedCoupon(s, c) == [s EXCEPT !.couponOk = TRUE, !.applied = c]
=============================================================================
