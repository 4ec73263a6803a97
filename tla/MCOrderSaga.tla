---------------------------- MODULE MCOrderSaga ----------------------------
(***************************************************************************)
(* Small instances of the saga.  Every order costs 2 per item quantity 1;  *)
(* the coupons take 50 and 100 percent off.                                *)
(***************************************************************************)
EXTENDS SagaOutcomes, TLC

CONSTANTS o1, o2, u1, p1, p2, half, free

OneUser == [o \in Orders |-> u1]

\* Two options, one piece of each; visited in this order
TwoItems == [o \in Orders |-> <<[option |-> p1, quantity |-> 1],
                                [option |-> p2, quantity |-> 1]>>]

OneItem == [o \in Orders |-> <<[option |-> p1, quantity |-> 1]>>]

Totals == [o \in Orders |-> 2]

\* Every order holds its reservation, and one piece is free.
Stocked ==
  [p \in Options |-> [stock |-> Cardinality(Orders) + 1,
                      reserved |-> Cardinality(Orders)]]

\* Enough for every order at full price
Rich == [u \in Users |-> 2 * Cardinality(Orders)]

AllIssued == [u \in Users |-> [c \in Coupons |-> "unused"]]

NoneIssued == [u \in Users |-> [c \in Coupons |-> "absent"]]

\* The orders of saga_shared cost the same, hold the same and are of one user;
\* the run checks invariants only.
AnyOrder == Permutations(Orders)

HalfOff == [c \in Coupons |-> IF c = half THEN 50 ELSE 100]
=============================================================================
