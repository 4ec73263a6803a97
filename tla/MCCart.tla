-------------------------------- MODULE MCCart --------------------------------
(***************************************************************************)
(* A small instance of the cart.                                           *)
(***************************************************************************)
EXTENDS Cart

CONSTANTS one, more, two, drop, undo

Quantities == [a \in Additions |-> IF a = two THEN 2 ELSE 1]
===============================================================================
