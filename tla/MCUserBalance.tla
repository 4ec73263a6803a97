---------------------------- MODULE MCUserBalance ----------------------------
(***************************************************************************)
(* Small instances of chargeBalance and deductBalance.                     *)
(***************************************************************************)
EXTENDS UserBalance

CONSTANTS rich, poor, charge, buy, buyAgain, unlucky

\* Three calls contend for one row; one has the other for itself.
Owner == [c \in Calls |-> IF c = unlucky THEN poor ELSE rich]

KindOf ==
  [c \in Calls |-> IF c = charge THEN "charge" ELSE "deduct"]

AmountOf == [c \in Calls |-> IF c \in {charge, buy} THEN 2 ELSE 1]

\* Just enough for both deductions; enough for two of three attempts
Balances == [u \in Users |-> IF u = rich THEN 3 ELSE 2]

\* The database refuses operations of one deduction; another fails after its
\* update and log.
MixedFaults == [c \in Calls |-> CASE c = buyAgain -> {"database"}
                                  [] c = unlucky -> {"commit"}
                                  [] OTHER -> {}]
=============================================================================
