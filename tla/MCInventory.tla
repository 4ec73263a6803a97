------------------------------ MODULE MCInventory ------------------------------
(***************************************************************************)
(* Small instances of the stock.                                           *)
(***************************************************************************)
EXTENDS Inventory

CONSTANTS shirt, shoes, there, back, first, second

Item(p, q) == [option |-> p, quantity |-> q]

\* Two orders of the same options, in opposite orders
Crossing == [o \in Orders |-> IF o = there THEN <<Item(shirt, 1), Item(shoes, 1)>>
                                          ELSE <<Item(shoes, 1), Item(shirt, 1)>>]

\* Enough for one order
Shelf == [p \in Options |-> 1]

Delivery == {[option |-> shoes, change |-> 1]}
================================================================================
