----------------------------- MODULE MCStorefront -----------------------------
(***************************************************************************)
(* Small instances of the storefront.                                      *)
(***************************************************************************)
EXTENDS Storefront

CONSTANTS shirt, shoes, both, again, visitor, other

Item(p, q) == [option |-> p, quantity |-> q]

\* An order of both options and one more pair of shoes
Baskets == [o \in Orders |-> IF o = both THEN <<Item(shirt, 2), Item(shoes, 1)>>
                                        ELSE <<Item(shoes, 1)>>]

Top(count, days) == [handler |-> "top", id |-> 0, query |-> [count |-> count, days |-> days]]
Detail(id) == [handler |-> "detail", id |-> id, query |-> NoQuery]
List == [handler |-> "list", id |-> 0, query |-> NoQuery]

\* Both ask for the longest range, and each for what only it asks for: the
\* page of a product, and a range that is too long.
Visits == [c \in Clients |-> {Top(2, 2), IF c = other THEN Detail(1) ELSE Top(1, 3)}]

\* Pages of two products, and the list
Pages == [c \in Clients |-> {Detail(1), Detail(2), List}]

\* Each is a product of its own.
Catalogue == [p \in Options |-> IF p = shirt THEN 1 ELSE 2]

\* The last shirt may be sold, or one be returned.
Shelf == [p \in Options |-> 1]
Stocks == [p \in Options |-> IF p = shirt THEN {0, 1} ELSE {1}]

\* One instance drew a longer time to live than the other.
Jittered == [c \in Clients |-> IF c = visitor THEN 1 ELSE 2]
===============================================================================
